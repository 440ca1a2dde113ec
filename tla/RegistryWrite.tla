---------------------------- MODULE RegistryWrite ----------------------------
(***************************************************************************)
(* The commands that write Home Assistant's registries over a WebSocket       *)
(* (cmd/label.go, area.go, floor.go, device.go, the set- commands of ent.go): *)
(* several hactl processes under the instance lock, and other clients of Home *)
(* Assistant, which know no lock.  A behaviour watches one registry.          *)
(***************************************************************************)
EXTENDS Sequences, SequencesExt, FiniteSets

CONSTANTS
    Proc,      \* hactl processes on one instance directory
    Target,    \* entities and devices
    Text,      \* ids and names; a name may be the id of another entry
    Blank,     \* the blank name
    Asked,     \* per process: its command lines
    MaxLost,   \* bound: requests nobody waits for any more
    None

Kind == {"label", "area", "floor"}

\* label: set-label; area, clear: set-area; create, delete: of an entry of the registry.
RegCommand ==
    [name : {"label", "area", "clear", "create", "delete"}, target : Target,
     add : SUBSET (Text \cup {Blank}), remove : SUBSET Text, confirm : BOOLEAN]

ASSUME RegistryAssumption ==
    /\ Blank \notin Text
    /\ None \notin Proc
    /\ Asked \in [Proc -> SUBSET RegCommand]
    /\ \A p \in Proc : \A c \in Asked[p] :
          /\ c.name \in {"area", "create", "delete"} => Cardinality(c.add) = 1
          /\ c.name = "clear" => c.add = {} /\ c.remove = {}
          /\ c.name = "label" => c.add \cup c.remove # {}

RegEntry == [id : Text, name : Text]

\* Each registry's own create and delete, and what is done with its entries.
LabelCommands == {"label", "create", "delete"}
AreaCommands == {"area", "clear", "create", "delete"}
FloorCommands == {"create", "delete"}
Offers(k) == CASE k = "label" -> LabelCommands
               [] k = "area"  -> AreaCommands
               [] k = "floor" -> FloorCommands

VARIABLES
    kind,       \* which registry
    registry,   \* its entries in the order Home Assistant lists them
    known,      \* the targets that are registered
    carried,    \* per target: its labels, or its area
    wire,       \* requests Home Assistant has not answered
    holder,     \* who holds the instance lock
    run,        \* per process: the command it runs
    rforeseen   \* history: the last preview that passed, if nothing has changed since

regHA == <<kind, registry, known, carried>>
regVars == <<regHA, wire, holder, run, rforeseen>>

Ids(s) == {s[i].id : i \in DOMAIN s}
Names(s) == {s[i].name : i \in DOMAIN s}

\* A command: where it is, the listing it read, what it will write; and, as history, what
\* its preview planned if nothing has changed since, whether it is a preview and nothing has
\* changed since it began, and whether its target has changed since it was read, by no
\* holder of the lock.
Run == [step : {"lock", "blank", "list", "target", "plan", "await"}, command : RegCommand,
        seen : Seq(RegEntry), plan : SUBSET (Text \cup {Blank}),
        promised : {None} \cup SUBSET (Text \cup {Blank}), still : BOOLEAN, disturbed : BOOLEAN]
Idle == [step |-> "idle"]
Refused == [step |-> "refused"]

RegInit ==
    /\ kind \in Kind
    /\ registry = <<>>
    /\ known \in SUBSET Target
    /\ carried = [t \in Target |-> {}]
    /\ wire = {} /\ holder = None
    /\ run = [p \in Proc |-> Idle]
    /\ rforeseen = None

-----------------------------------------------------------------------------
At(p, step) == run[p].step = step
Asks(p) == run[p].command
Goes(p, next) == run' = [run EXCEPT ![p].step = next] /\ UNCHANGED holder

\* Whatever the end, the lock is released.
Stops(p, how) ==
    /\ run' = [run EXCEPT ![p] = how]
    /\ holder' = IF holder = p THEN None ELSE holder

\* requireRegistryName comes before the preview of a creation, which asks nothing.
FirstOf(c) == IF c.name # "create" THEN "list"
              ELSE IF Blank \in c.add THEN "blank" ELSE "plan"

\* Mutant: the set- commands take no lock.
NoLock(c) == FALSE

\* A confirmed command takes the lock before it runs.
LocksFirst(c) == c.confirm

Call(p) ==
    /\ run[p] \in {Idle, Refused}
    /\ \E c \in Asked[p] :
          /\ c.name \in Offers(kind)
          /\ run' = [run EXCEPT ![p] =
                [step |-> IF LocksFirst(c) THEN "lock" ELSE FirstOf(c), command |-> c, seen |-> <<>>,
                 plan |-> IF c.name = "create" THEN c.add ELSE {},
                 promised |-> IF rforeseen # None /\ rforeseen.asked = [c EXCEPT !.confirm = FALSE]
                              THEN rforeseen.plan ELSE None,
                 still |-> ~c.confirm, disturbed |-> FALSE]]
    /\ UNCHANGED <<regHA, wire, holder, rforeseen>>

Lock(p) ==
    /\ At(p, "lock") /\ holder = None
    /\ holder' = p
    /\ run' = [run EXCEPT ![p].step = FirstOf(Asks(p))]
    /\ UNCHANGED <<regHA, wire, rforeseen>>

RefuseBlank(p) ==
    /\ At(p, "blank") /\ Stops(p, Refused)
    /\ UNCHANGED <<regHA, wire, rforeseen>>

\* Connect, a listing or its decoding fails (an entry of Home Assistant's with a blank id
\* is enough), or the process dies.
Fail(p) ==
    /\ run[p].step \in {"lock", "list", "target", "plan"}
    /\ Stops(p, Idle)
    /\ UNCHANGED <<regHA, wire, rforeseen>>

-----------------------------------------------------------------------------
(* From a reference to an entry.                                             *)

\* Where in the list.
ById(s, want) == {i \in DOMAIN s : s[i].id = want}
Candidates(s, want) == {i \in DOMAIN s : s[i].id = want \/ s[i].name = want}

\* resolveRegistryTarget: the id wins over a name, across the whole list.
resolveRegistryTarget(s, want) ==
    s[Min(IF ById(s, want) # {} THEN ById(s, want) ELSE Candidates(s, want))].id

\* resolveAreaEntry: the first of the list.
resolveAreaEntry(s, want) == s[Min(Candidates(s, want))].id

\* labelIndex: the last entry to claim a key has it.  What is looked up is lower-cased, as
\* the ids of labels are.
labelIndex(s, want) == s[Max(Candidates(s, want))].id

Resolves(s, wanted) == \A w \in wanted : w # Blank /\ Candidates(s, w) # {}
resolveLabelRefs(s, wanted) == {labelIndex(s, w) : w \in wanted}

refuseAddRemoveOverlap(s, c) ==
    resolveLabelRefs(s, c.add) \cap resolveLabelRefs(s, c.remove) # {}

Reads(p, next, seen, plan) ==
    /\ run' = [run EXCEPT ![p].step = next, ![p].seen = seen, ![p].plan = plan]
    /\ UNCHANGED holder

\* runEntSetLabel, as far as the list of labels decides.
ListLabels(p) ==
    /\ At(p, "list") /\ Asks(p).name = "label"
    /\ IF /\ Resolves(registry, Asks(p).add \cup Asks(p).remove)
          /\ ~refuseAddRemoveOverlap(registry, Asks(p))
       THEN Reads(p, "target", registry, {}) ELSE Stops(p, Refused)
    /\ UNCHANGED <<regHA, wire, rforeseen>>

\* runEntSetArea; --clear needs no area of the list.
ListAreas(p) ==
    /\ At(p, "list") /\ Asks(p).name \in {"area", "clear"}
    /\ IF Resolves(registry, Asks(p).add)
       THEN Reads(p, "target", IF Asks(p).add = {} THEN <<>> ELSE registry, {})
       ELSE Stops(p, Refused)
    /\ UNCHANGED <<regHA, wire, rforeseen>>

\* A deletion.
ListEntries(p) ==
    /\ At(p, "list") /\ Asks(p).name = "delete"
    /\ IF Resolves(registry, Asks(p).add)
       THEN Reads(p, "plan", <<>>, {resolveRegistryTarget(registry, w) : w \in Asks(p).add})
       ELSE Stops(p, Refused)
    /\ UNCHANGED <<regHA, wire, rforeseen>>

\* applyLabelDelta, over what the target was seen to carry.
applyLabelDelta(carries, s, c) ==
    (carries \cup resolveLabelRefs(s, c.add)) \ resolveLabelRefs(s, c.remove)

Planned(c, s) ==
    CASE c.name = "label" -> applyLabelDelta(carried[c.target], s, c)
      [] c.name = "area"  -> {resolveAreaEntry(s, w) : w \in c.add}
      [] OTHER            -> {}

\* The entity or device registry; findEntityRegistryEntry, resolveDevice.
FindTarget(p) ==
    /\ At(p, "target")
    /\ IF Asks(p).target \in known
       THEN /\ run' = [run EXCEPT ![p].step = "plan", ![p].disturbed = FALSE,
                        ![p].plan = Planned(Asks(p), run[p].seen)]
            /\ UNCHANGED holder
       ELSE Stops(p, Refused)
    /\ UNCHANGED <<regHA, wire, rforeseen>>

Preview(p) ==
    /\ At(p, "plan") /\ ~Asks(p).confirm
    /\ Stops(p, Idle)
    /\ rforeseen' = IF run[p].still THEN [asked |-> Asks(p), plan |-> run[p].plan] ELSE None
    /\ UNCHANGED <<regHA, wire>>

-----------------------------------------------------------------------------
(* The write, and Home Assistant's side of it (external).                    *)

Request(p) == [by |-> p, name |-> Asks(p).name, target |-> Asks(p).target, plan |-> run[p].plan]

Send(p) ==
    /\ At(p, "plan") /\ Asks(p).confirm
    /\ Goes(p, "await")
    /\ wire' = wire \cup {Request(p)}
    /\ UNCHANGED <<regHA, rforeseen>>

RegPermitted(r) ==
    CASE r.name = "create" -> r.plan \cap Names(registry) = {}
      [] r.name = "delete" -> r.plan \subseteq Ids(registry)
      [] OTHER             -> r.target \in known

\* A new entry's id is its name, or another that is free.
FreshId(n) == IF n \in Ids(registry) THEN Text \ Ids(registry) ELSE {n}

Effect(r) ==
    CASE r.name = "create" ->
           /\ \E n \in r.plan : \E i \in FreshId(n) :
                 registry' = Append(registry, [id |-> i, name |-> n])
           /\ UNCHANGED carried
      [] r.name = "delete" ->
           /\ \E i \in DOMAIN registry :
                 registry[i].id \in r.plan /\ registry' = RemoveAt(registry, i)
           /\ carried' = [t \in Target |-> carried[t] \ r.plan]
      [] OTHER ->
           /\ carried' = [carried EXCEPT ![r.target] = r.plan]
           /\ UNCHANGED registry

\* What the processes but the one that is answered go on with after a change.
Overtaken(byWhom) ==
    [q \in Proc |->
        IF q = byWhom \/ run[q].step \in {"idle", "refused"} THEN Idle
        ELSE [run[q] EXCEPT !.still = FALSE, !.promised = None,
                            !.disturbed = @ \/ (/\ byWhom = None
                                                   /\ carried'[Asks(q).target] # carried[Asks(q).target])]]
Changed(byWhom) ==
    /\ run' = Overtaken(byWhom)
    /\ rforeseen' = None
    /\ holder' = IF holder = byWhom THEN None ELSE holder

Serve ==
    \E r \in wire :
        /\ wire' = wire \ {r}
        /\ IF RegPermitted(r) THEN Effect(r) /\ Changed(r.by)
           ELSE /\ IF r.by = None THEN UNCHANGED <<run, holder>> ELSE Stops(r.by, Idle)
                /\ UNCHANGED <<registry, carried, rforeseen>>
        /\ UNCHANGED <<kind, known>>

\* sendCommand gives up: a timeout, a lost socket.  The request may still be served.
Abandon(p) ==
    LET r == Request(p)
    IN  /\ At(p, "await")
        /\ Stops(p, Idle)
        /\ \/ wire' = wire \ {r}
           \/ /\ Cardinality({q \in wire : q.by = None}) < MaxLost
              /\ wire' = (wire \ {r}) \cup {[r EXCEPT !.by = None]}
        /\ UNCHANGED <<regHA, rforeseen>>

\* Another client renames an entry or edits a target.
RegElsewhere ==
    /\ \/ /\ \E i \in DOMAIN registry, n \in Text \ Names(registry) :
                registry' = [registry EXCEPT ![i].name = n]
          /\ UNCHANGED carried
       \/ /\ \E t \in known, s \in SUBSET Ids(registry) :
                /\ Cardinality(s) <= CASE kind = "label" -> Cardinality(Text)
                                       [] kind = "area"  -> 1
                                       [] kind = "floor" -> 0
                /\ carried[t] # s
                /\ carried' = [carried EXCEPT ![t] = s]
          /\ UNCHANGED registry
    /\ Changed(None)
    /\ UNCHANGED <<kind, known, wire>>

RegNext ==
    \/ Serve \/ RegElsewhere
    \/ \E p \in Proc :
          \/ Call(p) \/ Lock(p) \/ RefuseBlank(p) \/ Fail(p)
          \/ ListLabels(p) \/ ListAreas(p) \/ ListEntries(p) \/ FindTarget(p) \/ Preview(p)
          \/ Send(p) \/ Abandon(p)

RegSpec == RegInit /\ [][RegNext]_regVars

-----------------------------------------------------------------------------
(* Properties *)

RegTypeOK ==
    /\ kind \in Kind
    /\ registry \in Seq(RegEntry) /\ Cardinality(Ids(registry)) = Len(registry)
    /\ known \subseteq Target
    /\ carried \in [Target -> SUBSET Text]
    /\ holder \in Proc \cup {None}
    /\ run \in [Proc -> Run \cup {Idle, Refused}]

\* A step changes, of p's target, no label but those p's command adds and takes off.
NamedOnly(p) ==
    LET c == Asks(p)
    IN  /\ carried'[c.target] \ carried[c.target] \subseteq resolveLabelRefs(run[p].seen, c.add)
        /\ carried[c.target] \ carried'[c.target] \subseteq resolveLabelRefs(run[p].seen, c.remove)

\* H-26 for the registries, "hactl is never the only caller": a confirmed set-label sends
\* the whole list it read, changed; whatever several hactl do at once, and whatever dies or
\* fails, no label another hactl has put on or taken off is undone by it.  Only a client
\* that takes no lock, or a request that outlived its sender, can come in between.
NoLabelUndone ==
    [][\A p \in Proc :
          At(p, "await") /\ run'[p] = Idle /\ Asks(p).name = "label" /\ ~run[p].disturbed
              => NamedOnly(p)]_regVars

\* p's confirmed command sends what was promised, and is not refused.
KeptAsPromised(p) ==
    run[p].promised # None
        => /\ run'[p] # Refused
           /\ At(p, "await") => run[p].plan = run[p].promised /\ RegPermitted(Request(p))

\* H-2: a confirmed set- command or deletion, previewed when nothing at Home Assistant was
\* other than it is now, sends what the preview planned, and is not refused.  Not claimed of
\* a creation: its preview asks nothing of Home Assistant (label.go:128, as for areas and
\* floors), which refuses a name that is taken.
RegPreviewForetells ==
    [][\A p \in Proc :
          run[p].step \notin {"idle", "refused"} /\ Asks(p).confirm /\ Asks(p).name # "create"
              => KeptAsPromised(p)]_regVars

=============================================================================
