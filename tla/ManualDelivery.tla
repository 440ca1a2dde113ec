--------------------------- MODULE ManualDelivery ---------------------------
(***************************************************************************)
(* The manual that comes with an agent's commands: its core with the first   *)
(* command of a session, a family's how-to with the first command of that     *)
(* family (package manual, cmd/inject.go, cmd/rtfm.go).                       *)
(*                                                                            *)
(* What a session was given is kept in <instance>/cache/manual-state.json,     *)
(* one file for every session, which each process reads, changes and renames  *)
(* into place without a lock.  Headings are model values.                     *)
(***************************************************************************)
EXTENDS Naturals, FiniteSets

CONSTANTS
    Agent,        \* the processes, each of which runs one command at a time
    Chat,         \* values of HACTL_SESSION
    ChatOf,       \* the session of each process
    ModeOf,       \* HACTL_MANUAL_MODE of each process
    Homeless,     \* processes whose instance directory cannot be resolved
    Top,          \* top-level commands
    Exempt,       \* those that deliver nothing
    Family,
    FamilyFor,    \* the family of each command, through its alias
    NoFamily,
    FamilySections,
    Scopes,       \* what rtfm is asked for, {} for the whole manual
    DefaultTTL,
    LastTick      \* bound on the clock

ASSUME DeliveryAssumption ==
    /\ ChatOf \in [Agent -> Chat]
    /\ ModeOf \in [Agent -> {"progressive", "full", "off"}]
    /\ Homeless \subseteq Agent
    /\ Exempt \subseteq Top
    /\ NoFamily \notin Family
    /\ FamilyFor \in [Top -> Family \cup {NoFamily}]
    /\ DOMAIN FamilySections = Family
    /\ \A f \in Family : "core" \notin FamilySections[f]
    /\ Scopes \subseteq SUBSET (Family \cup {"core"})
    /\ DefaultTTL \in Nat /\ LastTick \in Nat \ {0}

HowTos == UNION {FamilySections[f] : f \in Family}
Whole == HowTos \cup {"core"}

\* sessionState; a session that is not in the file was never active.
SessionState == [last : 0 .. LastTick, core : BOOLEAN, full : BOOLEAN, delivered : SUBSET HowTos]
NoSession == [last |-> 0, core |-> FALSE, full |-> FALSE, delivered |-> {}]
Empty == [s \in Chat |-> NoSession]

\* What is typed: a command, or rtfm for these scopes, which prints them or, with
\* an unknown family, a stray argument or --help, does not.
Typed ==
    [kind : {"command"}, top : Top, refused : BOOLEAN]
    \cup [kind : {"rtfm"}, scopes : Scopes, prints : BOOLEAN]

Idle == [kind |-> "none"]

VARIABLES
    tick,      \* the wall clock
    state,     \* manual-state.json
    stage,     \* of each process
    typed,
    draft,     \* the file a process will rename into place
    due,       \* what it will print
    printed,   \* history: what each session was shown
    credit,    \* history: what was recorded for it since it was last forgotten
    renewed,   \* history: when
    muddled,   \* history: sessions an overlapping update may have lost
    spoiled    \* history: what was recorded and never printed

past == <<printed, credit, renewed, muddled, spoiled>>
own == <<stage, typed, draft, due>>
deliveryVars == <<tick, state, own, past>>

DeliveryInit ==
    /\ tick = 1
    /\ state = Empty
    /\ stage = [p \in Agent |-> "idle"]
    /\ typed = [p \in Agent |-> Idle]
    /\ draft = [p \in Agent |-> Empty]
    /\ due = [p \in Agent |-> {}]
    /\ printed = [s \in Chat |-> {}]
    /\ credit = [s \in Chat |-> {}]
    /\ renewed = [s \in Chat |-> 0]
    /\ muddled = {}
    /\ spoiled = [s \in Chat |-> {}]

Elapse ==
    /\ tick < LastTick
    /\ tick' = tick + 1
    /\ UNCHANGED <<state, own, past>>

-----------------------------------------------------------------------------
(* The record *)

Alive(at) == at > 0 /\ tick <= at + DefaultTTL

\* loadSession: what has been idle for longer than the TTL is gone.
LoadedFor(p) ==
    IF p \in Homeless THEN Empty
    ELSE [s \in Chat |-> IF Alive(state[s].last) THEN state[s] ELSE NoSession]

\* Mutant: the how-to comes with every command of its family.
AlwaysClaimed(session, mode, f) ==
    (IF session.core THEN {} ELSE {"core"})
        \cup (IF f = NoFamily THEN {} ELSE FamilySections[f])

\* Claim: what is due with a command of family f, and what the session has then.
Claimed(session, mode, f) ==
    IF session.full THEN {}
    ELSE IF mode = "full" THEN Whole
    ELSE (IF session.core THEN {} ELSE {"core"})
            \cup (IF f = NoFamily THEN {} ELSE FamilySections[f] \ session.delivered)

\* Mutant: what was given once was everything.
AllGiven(session, mode, text) == [session EXCEPT !.last = tick, !.core = TRUE, !.full = TRUE]

AfterClaim(session, mode, text) ==
    IF session.full THEN [session EXCEPT !.last = tick]
    ELSE IF mode = "full" THEN [session EXCEPT !.last = tick, !.full = TRUE]
    ELSE [session EXCEPT !.last = tick, !.core = TRUE,
                         !.delivered = @ \cup (text \ {"core"})]

\* MarkDelivered; the whole manual when no scope was named.
Scoped(scopes) ==
    IF scopes = {} THEN Whole
    ELSE (scopes \cap {"core"}) \cup UNION {FamilySections[f] : f \in scopes \cap Family}

\* Mutant: the families are recorded, not their headings.
MarksFamilies(session, scopes) ==
    [session EXCEPT !.last = tick, !.delivered = @ \cup scopes]

AfterMark(session, scopes) ==
    IF scopes = {}
    THEN [session EXCEPT !.last = tick, !.full = TRUE, !.core = TRUE]
    ELSE [session EXCEPT !.last = tick,
                         !.core = @ \/ "core" \in scopes,
                         !.delivered = @ \cup (Scoped(scopes) \ {"core"})]

Given(session) ==
    IF session.full THEN Whole
    ELSE session.delivered \cup (IF session.core THEN {"core"} ELSE {})

\* HowToPending.
HowToPending(p, f) ==
    LET session == LoadedFor(p)[ChatOf[p]]
    IN  /\ p \notin Homeless /\ ModeOf[p] # "off" /\ ~session.full
        /\ ModeOf[p] = "full" \/ FamilySections[f] \ session.delivered # {}

-----------------------------------------------------------------------------
(* One command *)

StageIs(p, label) == stage' = [stage EXCEPT ![p] = label]

Rest(p) ==
    /\ StageIs(p, "idle")
    /\ typed' = [typed EXCEPT ![p] = Idle]
    /\ draft' = [draft EXCEPT ![p] = Empty]
    /\ due' = [due EXCEPT ![p] = {}]

\* A command the guard refuses brings the how-to of its family at once.
Type(p) ==
    /\ stage[p] = "idle"
    /\ \E t \in Typed :
          /\ typed' = [typed EXCEPT ![p] = t]
          /\ StageIs(p, IF t.kind = "command" /\ t.refused /\ FamilyFor[t.top] # NoFamily
                     THEN "refuse" ELSE "ran")
    /\ UNCHANGED <<tick, state, draft, due, past>>

\* maybeInjectManual: whether it ends without touching the record.
Quiet(p) ==
    \/ ModeOf[p] = "off"
    \/ typed[p].kind = "command" /\ typed[p].top \in Exempt

ClaimText(p) ==
    Claimed(LoadedFor(p)[ChatOf[p]], ModeOf[p], FamilyFor[typed[p].top])

Load(p) ==
    LET s == ChatOf[p]
        session == LoadedFor(p)[s]
    IN  /\ stage[p] \in {"refuse", "ran"} /\ ~Quiet(p)
        /\ IF typed[p].kind = "rtfm"
           THEN /\ due' = [due EXCEPT ![p] = Scoped(typed[p].scopes)]
                /\ draft' = [draft EXCEPT ![p] =
                      [LoadedFor(p) EXCEPT ![s] = AfterMark(session, typed[p].scopes)]]
           ELSE /\ due' = [due EXCEPT ![p] = ClaimText(p)]
                /\ draft' = [draft EXCEPT ![p] =
                      [LoadedFor(p) EXCEPT ![s] = AfterClaim(session, ModeOf[p], ClaimText(p))]]
        /\ StageIs(p, IF stage[p] = "refuse" THEN "saveRefused" ELSE "save")
        /\ UNCHANGED <<tick, state, typed, past>>

Saving == {q \in Agent : stage[q] \in {"save", "saveRefused"}}

\* saveState renames the file into place, or gives up in silence.
Save(p) ==
    LET s == ChatOf[p]
        forgotten == ~Alive(renewed[s])
    IN  /\ p \in Saving
        /\ StageIs(p, IF stage[p] = "save" THEN "print" ELSE "printRefused")
        /\ \/ /\ p \notin Homeless
              /\ state' = draft[p]
              /\ credit' = [credit EXCEPT ![s] =
                                (IF forgotten THEN {} ELSE @) \cup Given(draft[p][s])]
              /\ renewed' = [renewed EXCEPT ![s] = draft[p][s].last]
              /\ muddled' = IF Saving # {p} \/ renewed[s] > draft[p][s].last
                            THEN muddled \cup Chat
                            ELSE muddled \ (IF forgotten THEN {s} ELSE {})
           \/ UNCHANGED <<state, credit, renewed, muddled>>
        /\ draft' = [draft EXCEPT ![p] = Empty]
        /\ UNCHANGED <<tick, typed, due, printed, spoiled>>

\* The text goes out before the answer; of an rtfm it is the answer.
PrintText(p) ==
    LET s == ChatOf[p]
        silent == typed[p].kind = "rtfm" /\ ~typed[p].prints
    IN  /\ stage[p] \in {"print", "printRefused"}
        /\ IF silent
           THEN /\ spoiled' = [spoiled EXCEPT ![s] = @ \cup due[p]] /\ UNCHANGED printed
           ELSE /\ printed' = [printed EXCEPT ![s] = @ \cup due[p]] /\ UNCHANGED spoiled
        /\ due' = [due EXCEPT ![p] = {}]
        /\ StageIs(p, IF stage[p] = "print" THEN "answer" ELSE "ran")
        /\ UNCHANGED <<tick, state, typed, draft, credit, renewed, muddled>>

SayNothing(p) ==
    /\ stage[p] \in {"refuse", "ran"} /\ Quiet(p)
    /\ StageIs(p, IF stage[p] = "refuse" THEN "ran" ELSE "answer")
    /\ UNCHANGED <<tick, state, typed, draft, due, past>>

AnswerIs(p) ==
    /\ stage[p] = "answer"
    /\ Rest(p)
    /\ UNCHANGED <<tick, state, past>>

\* Killed: what it has recorded by then it may never print.
Die(p) ==
    /\ stage[p] # "idle"
    /\ Rest(p)
    /\ spoiled' = IF stage[p] \in {"print", "printRefused"}
                  THEN [spoiled EXCEPT ![ChatOf[p]] = @ \cup due[p]]
                  ELSE spoiled
    /\ UNCHANGED <<tick, state, printed, credit, renewed, muddled>>

DeliveryNext ==
    \/ Elapse
    \/ \E p \in Agent :
          Type(p) \/ Load(p) \/ Save(p) \/ PrintText(p) \/ SayNothing(p)
             \/ AnswerIs(p) \/ Die(p)

DeliverySpec == DeliveryInit /\ [][DeliveryNext]_deliveryVars

-----------------------------------------------------------------------------
(* Properties *)

DeliveryTypeOK ==
    /\ tick \in 1 .. LastTick
    /\ state \in [Chat -> SessionState]
    /\ stage \in [Agent -> {"idle", "refuse", "saveRefused", "printRefused",
                            "ran", "save", "print", "answer"}]
    /\ typed \in [Agent -> Typed \cup {Idle}]
    /\ draft \in [Agent -> [Chat -> SessionState]]
    /\ due \in [Agent -> SUBSET Whole]
    /\ printed \in [Chat -> SUBSET Whole]
    /\ credit \in [Chat -> SUBSET Whole]
    /\ renewed \in [Chat -> 0 .. LastTick]
    /\ muddled \subseteq Chat
    /\ spoiled \in [Chat -> SUBSET Whole]

\* What another process of the session has recorded and is about to print.
Coming(s) ==
    UNION {due[q] : q \in {r \in Agent : ChatOf[r] = s /\
                               stage[r] \in {"print", "printRefused"}}}

Needed(p) ==
    {"core"} \cup (IF FamilyFor[typed[p].top] = NoFamily THEN {}
                   ELSE FamilySections[FamilyFor[typed[p].top]])

(* "A duplicate injection costs a one-off, a missed one defeats the feature"   *)
(* (Claim): whoever gets the answer of a command has been shown the core and   *)
(* the how-to of its family, unless another process of the session is about to *)
(* show it, died before it could, or was an rtfm that recorded what it did not *)
(* print; however the updates of the file overtake one another, fail or expire. *)
Instructed ==
    \A p \in Agent :
        stage[p] = "answer" /\ typed[p].kind = "command" /\ ~Quiet(p) =>
            LET s == ChatOf[p]
            IN  Needed(p) \subseteq printed[s] \cup Coming(s) \cup spoiled[s]

(* "Delivered once": a command is due only what its session has not been       *)
(* recorded as given, unless it was idle for longer than the TTL or an update   *)
(* was overtaken (state.go's sliding TTL, saveState's rename).                  *)
NotTwice ==
    [][\A p \in Agent :
         /\ stage[p] \in {"refuse", "ran"} /\ stage'[p] \in {"save", "saveRefused"}
         /\ typed[p].kind = "command" /\ ModeOf[p] = "progressive"
         /\ p \notin Homeless /\ ChatOf[p] \notin muddled /\ Alive(renewed[ChatOf[p]])
         => due'[p] \cap credit[ChatOf[p]] = {}]_deliveryVars

=============================================================================
