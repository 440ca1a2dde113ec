---------------------- MODULE HomeAssistantWrites_proofs ----------------------
(***************************************************************************)
(* What the four families of commands that write through Home Assistant       *)
(* promise, proved for every set of processes, entries, dashboards, targets   *)
(* and definitions: one section per family (DefinitionDelete, ConfigFlow,     *)
(* DashboardWrite, RegistryWrite), each with its inductive invariant, and at  *)
(* the end what they promise together.                                        *)
(***************************************************************************)
EXTENDS MCHomeAssistantWrites, SequenceTheorems, FiniteSetTheorems, FunctionTheorems,
        WellFoundedInduction, TLAPS

-----------------------------------------------------------------------------
(* Helpers and templates.                                                     *)

Deletes == dcommand.name = "delete"

\* A template is never made in Home Assistant's editor; the attempts are counted from the
\* first; only a command that has ended has a verdict.
Counted ==
    /\ \A d \in Template : kept[d] # "storage"
    /\ dstep \in {"wiring", "resolve", "orphans"} => sent = 0
    /\ dstep = "write" => sent < MaxSend
    /\ dstep # "ended" => verdict = "none"
    /\ dstep = "wiring" => dcommand.name = "create"
    /\ dstep \in {"resolve", "orphans", "clean up"} => dcommand.name = "delete"

\* While no other client interferes, what was resolved is what the slug names, until it is
\* deleted; and then nothing of that slug is left to delete by mistake.
Pinned ==
    alone /\ Deletes =>
        /\ dstep \in {"orphans", "write", "clean up"} =>
              \E d \in Named(dcommand) : remote = {d}
        /\ \A d \in remote :
              /\ dstep = "orphans" => kept[d] = "yaml"
              /\ dstep = "write" => kept[d] = "yaml" \/ Deletable = {}
              /\ dstep = "clean up" => kept[d] = "absent"

\* What is to be cleaned up is of what was resolved, and all of it unless some was missed.
Gathered ==
    Deletes /\ dstep \in {"write", "clean up"} =>
        /\ orphans \subseteq remote
        /\ alone /\ ~missed => remote \cap registered \subseteq orphans

DefInv == DefTypeOK /\ Counted /\ Pinned /\ Gathered /\ NoGhost

LEMMA DefBegins == DefInit => DefInv
  <1> SUFFICES ASSUME DefInit PROVE DefInv
    OBVIOUS
  <1>1. dcommand \in DefCommand
    <2>1. PICK s \in Slug : TRUE
      BY DefinitionAssumption
    <2>2. [name |-> "create", of |-> "helper", slug |-> s, confirm |-> TRUE] \in DefCommand
      BY DEF DefCommand
    <2>3. QED
      BY <2>2 DEF DefInit
  <1>2. DefTypeOK
    BY <1>1, DefinitionAssumption DEF DefInit, DefTypeOK
  <1>3. Counted /\ Pinned /\ Gathered /\ NoGhost
    BY DEF DefInit, Counted, Pinned, Gathered, NoGhost
  <1>4. QED
    BY <1>2, <1>3 DEF DefInv

LEMMA BeginKeeps == DefInv /\ Begin => DefInv'
  <1> SUFFICES ASSUME DefInv, Begin PROVE DefInv'
    OBVIOUS
  <1>1. dstep' \in {"resolve", "wiring"} /\ verdict' = "none" /\ sent' = 0
    BY DEF Begin
  <1>2. DefTypeOK'
    <2>1. 0 \in 0 .. MaxSend
      BY DefinitionAssumption
    <2>2. QED
      BY <1>1, <2>1 DEF Begin, DefInv, DefTypeOK, defHA
  <1>3. Counted' /\ Pinned' /\ Gathered' /\ NoGhost'
    BY <1>1 DEF Begin, DefCommand, DefInv, Counted, Pinned, Gathered, NoGhost, defHA
  <1>4. QED
    BY <1>2, <1>3 DEF DefInv

\* A command that ends without a deletion.
LEMMA EndKeeps ==
    ASSUME DefInv,
           NEW what \in {"failed", "refused", "not found", "planned", "done, warned"},
           DefEnds(what),
           sent' \in 0 .. MaxSend, remote' \subseteq Def, orphans' \subseteq Def,
           UNCHANGED <<defHA, dcommand>>
    PROVE DefInv'
  <1>1. DefTypeOK'
    BY DEF DefInv, DefTypeOK, DefEnds, defHA
  <1>2. Counted' /\ Pinned' /\ Gathered' /\ NoGhost'
    BY DEF DefInv, Counted, Pinned, Gathered, NoGhost, DefEnds, defHA
  <1>3. QED
    BY <1>1, <1>2 DEF DefInv

LEMMA BreaksKeeps == DefInv /\ (Breaks \/ NotFound) => DefInv'
  BY EndKeeps DEF Breaks, NotFound, DefInv, DefTypeOK

LEMMA NamedIsDef == \A c : Named(c) \subseteq Def
  BY DEF Named

LEMMA CreationKeeps == DefInv /\ (CreateHelper \/ CreateTemplate) => DefInv'
  <1> SUFFICES ASSUME DefInv, CreateHelper \/ CreateTemplate PROVE DefInv'
    OBVIOUS
  <1>1. PICK d \in Named(dcommand) : remote' = {d}
    BY DEF CreateHelper, CreateTemplate
  <1>2. /\ remote' \subseteq Def /\ sent = 0 /\ dstep = "wiring"
        /\ UNCHANGED <<defHA, dcommand, orphans, sent, defHistory>>
    BY <1>1, NamedIsDef DEF CreateHelper, CreateTemplate, DefInv, Counted
  <1>3. CASE \E what \in {"planned", "refused"} : DefEnds(what)
    BY <1>2, <1>3, EndKeeps DEF DefInv, DefTypeOK
  <1>4. CASE DefGoes("write")
    <2>1. ~Deletes
      BY <1>2 DEF DefInv, Counted, Deletes
    <2>2. QED
      BY <1>2, <1>4, <2>1, DefinitionAssumption
         DEF DefInv, DefTypeOK, Counted, Pinned, Gathered, NoGhost, Deletes, DefGoes, defHA
  <1>5. QED
    BY <1>3, <1>4 DEF CreateHelper, CreateTemplate

LEMMA ResolveKeeps == DefInv /\ (DeleteHelper \/ DeleteTemplate) => DefInv'
  <1> SUFFICES ASSUME DefInv, DeleteHelper \/ DeleteTemplate PROVE DefInv'
    OBVIOUS
  <1>1. PICK d \in Existing :
           /\ remote' = {d}
           /\ dstep' = "orphans" => kept[d] = "yaml"
    <2>1. CASE DeleteHelper
      <3>1. PICK d \in Existing :
               /\ remote' = {d}
               /\ kept[d] = "storage" => DefEnds("refused")
        BY <2>1 DEF DeleteHelper
      <3>2. kept[d] \in Kept /\ kept[d] # "absent"
        BY DEF Existing, Exists, Named, DefInv, DefTypeOK
      <3>3. QED
        BY <3>1, <3>2 DEF DefEnds, Kept
    <2>2. CASE DeleteTemplate
      BY <2>2 DEF DeleteTemplate, Existing, Exists, Named, DefInv, DefTypeOK, Kept, Counted
    <2>3. QED
      BY <2>1, <2>2
  <1>2. /\ d \in Named(dcommand) /\ remote' \subseteq Def /\ sent = 0 /\ dstep = "resolve"
        /\ UNCHANGED <<defHA, dcommand, orphans, sent, defHistory>>
    BY <1>1, NamedIsDef DEF DeleteHelper, DeleteTemplate, DefInv, Counted, Existing
  <1>3. CASE \E what \in {"planned", "refused"} : DefEnds(what)
    BY <1>2, <1>3, EndKeeps DEF DefInv, DefTypeOK
  <1>4. CASE DefGoes("orphans")
    <2>1. DefTypeOK'
      BY <1>2, <1>4 DEF DefInv, DefTypeOK, DefGoes, defHA
    <2>2. Counted' /\ Gathered' /\ NoGhost'
      BY <1>2, <1>4 DEF DefInv, Counted, Gathered, NoGhost, DefGoes, defHA
    <2>3. Pinned'
      <3>1. dstep' = "orphans" /\ remote' = {d} /\ kept'[d] = "yaml"
        BY <1>1, <1>2, <1>4 DEF DefGoes, defHA
      <3>2. d \in Named(dcommand)'
        BY <1>2 DEF Named
      <3>3. QED
        BY <3>1, <3>2 DEF Pinned
    <2>4. QED
      BY <2>1, <2>2, <2>3 DEF DefInv
  <1>5. QED
    BY <1>3, <1>4 DEF DeleteHelper, DeleteTemplate

LEMMA ReadOrphansKeeps == DefInv /\ ReadOrphans => DefInv'
  <1> SUFFICES ASSUME DefInv, ReadOrphans PROVE DefInv'
    OBVIOUS
  <1>1. /\ dstep = "orphans" /\ sent = 0 /\ Deletes
        /\ UNCHANGED <<defHA, dcommand, remote, sent, alone>>
        /\ orphans' \subseteq remote /\ orphans' \subseteq Def
        /\ ~missed' => remote \cap registered \subseteq orphans'
    BY DEF ReadOrphans, DefInv, DefTypeOK, Counted, Deletes
  <1>2. CASE DefEnds("planned")
    BY <1>1, <1>2, EndKeeps DEF DefInv, DefTypeOK
  <1>3. CASE DefGoes("write")
    <2>1. DefTypeOK' /\ NoGhost'
      BY <1>1, <1>3 DEF DefInv, DefTypeOK, Counted, NoGhost, DefGoes, defHA
    <2>2. Counted'
      BY <1>1, <1>3, DefinitionAssumption DEF DefInv, Counted, DefGoes, defHA
    <2>3. Pinned'
      BY <1>1, <1>3 DEF DefInv, Pinned, Named, Deletes, Deletable, DefGoes, defHA
    <2>4. Gathered'
      BY <1>1, <1>3 DEF Gathered, DefGoes, defHA
    <2>5. QED
      BY <2>1, <2>2, <2>3, <2>4 DEF DefInv
  <1>4. QED
    BY <1>2, <1>3 DEF ReadOrphans

LEMMA CleanUpKeeps == DefInv /\ CleanUp => DefInv'
  <1> SUFFICES ASSUME DefInv, CleanUp PROVE DefInv'
    OBVIOUS
  <1>1. /\ dstep = "clean up" /\ dstep' = "ended" /\ verdict' = "done" /\ Deletes
        /\ UNCHANGED <<kept, wired, dcommand, remote, orphans, sent, alone>>
        /\ registered' \subseteq registered
        /\ missed' = TRUE \/ (missed' = missed /\ registered' = registered \ orphans)
    <2>1. dcommand.name = "delete"
      BY DEF CleanUp, DefInv, Counted
    <2>2. QED
      BY <2>1 DEF CleanUp, DefEnds, Deletes
  <1>2. DefTypeOK' /\ Counted' /\ Pinned' /\ Gathered'
    BY <1>1 DEF DefInv, DefTypeOK, Counted, Pinned, Gathered, Deletes
  <1>3. NoGhost'
    <2> SUFFICES ASSUME ~missed', alone, NEW d \in remote PROVE d \notin registered'
      BY <1>1 DEF NoGhost
    <2>1. missed' = missed /\ registered' = registered \ orphans
      BY <1>1
    <2>2. ~missed
      BY <2>1, Zenon
    <2>3. QED
      BY <1>1, <2>1, <2>2 DEF DefInv, Gathered
  <1>4. QED
    BY <1>2, <1>3 DEF DefInv

LEMMA OthersKeep == DefInv /\ OthersChange => DefInv'
  <1> SUFFICES ASSUME DefInv, OthersChange PROVE DefInv'
    OBVIOUS
  <1>1. /\ UNCHANGED <<wired, dstep, dcommand, remote, orphans, sent, verdict, missed>>
        /\ ~alone'
    BY DEF OthersChange
  <1>2. /\ kept' \in [Def -> Kept] /\ registered' \subseteq Def
        /\ \A d \in Template : kept'[d] # "storage"
    BY DefinitionAssumption DEF OthersChange, DefInv, DefTypeOK, Counted
  <1>3. DefTypeOK'
    BY <1>1, <1>2 DEF DefInv, DefTypeOK
  <1>4. Counted' /\ Pinned' /\ Gathered' /\ NoGhost'
    BY <1>1, <1>2 DEF DefInv, Counted, Pinned, Gathered, NoGhost, Deletes
  <1>5. QED
    BY <1>3, <1>4 DEF DefInv

\* A deletion that the companion served was of the one definition the command resolved.
LEMMA ServesPinned ==
    ASSUME DefInv, dstep = "write", alone, Deletes, ServeDelete
    PROVE  \E d \in Named(dcommand) :
              remote = {d} /\ kept' = [kept EXCEPT ![d] = "absent"] /\ Deletable = {d}
  <1>1. PICK d \in Named(dcommand) : remote = {d} /\ (kept[d] = "yaml" \/ Deletable = {})
    BY DEF DefInv, Pinned
  <1>2. PICK e \in Deletable : Deletable = {e} /\ kept' = [kept EXCEPT ![e] = "absent"]
    BY DEF ServeDelete
  <1>3. d = e
    BY <1>1, <1>2 DEF Deletable
  <1>4. QED
    BY <1>1, <1>2, <1>3

LEMMA SendWriteKeeps == DefInv /\ SendWrite => DefInv'
  <1> SUFFICES ASSUME DefInv, SendWrite PROVE DefInv'
    OBVIOUS
  <1>1. /\ dstep = "write" /\ sent' = sent + 1 /\ sent' \in 0 .. MaxSend
        /\ UNCHANGED <<wired, dcommand, remote, orphans, missed, alone>>
    BY DefinitionAssumption DEF SendWrite, DefInv, DefTypeOK, Counted
  <1>2. /\ kept' \in [Def -> Kept] /\ registered' \subseteq Def
        /\ \A d \in Template : kept'[d] # "storage"
    <2>1. Serves \/ Unserved
      BY DEF SendWrite
    <2>2. CASE Serves
      <3>1. PICK d \in Def : \E k \in {"yaml", "absent"} : kept' = [kept EXCEPT ![d] = k]
        BY <2>2 DEF Serves, ServeCreate, ServeDelete, Creatable, Deletable, Named, DefInv,
                    DefTypeOK
      <3>2. registered' \subseteq Def
        <4>1. CASE ServeCreate
          <5>1. PICK c \in Creatable :
                   registered' \in {registered} \cup {registered \cup {e} : e \in {c} \cap wired}
            BY <4>1 DEF ServeCreate
          <5>2. QED
            BY <5>1 DEF DefInv, DefTypeOK
        <4>2. QED
          BY <2>2, <4>1 DEF Serves, ServeDelete, DefInv, DefTypeOK
      <3>3. QED
        BY <3>1, <3>2, DefinitionAssumption DEF DefInv, DefTypeOK, Counted, Kept
    <2>3. CASE Unserved
      BY <2>3 DEF Unserved, DefInv, DefTypeOK, Counted
    <2>4. QED
      BY <2>1, <2>2, <2>3
  <1>3. CASE \E what \in {"failed", "done", "done, warned"} :
                DefEnds(what) /\ ~(Deletes /\ what = "done")
    <2>1. DefTypeOK'
      BY <1>1, <1>2, <1>3 DEF DefEnds, DefInv, DefTypeOK
    <2>2. Counted' /\ Pinned' /\ Gathered' /\ NoGhost'
      BY <1>1, <1>2, <1>3 DEF DefEnds, DefInv, Counted, Pinned, Gathered, NoGhost, Deletes
    <2>3. QED
      BY <2>1, <2>2 DEF DefInv
  <1>4. CASE Again /\ DefGoes("write")
    <2>1. DefTypeOK'
      BY <1>1, <1>2, <1>4 DEF DefGoes, DefInv, DefTypeOK
    <2>2. Counted'
      BY <1>1, <1>2, <1>4 DEF DefGoes, DefInv, DefTypeOK, Counted, Again
    <2>3. Pinned' /\ Gathered'
      <3>1. Deletes /\ dstep' = "write"
        BY <1>4 DEF Again, Deletes, DefGoes
      <3>2. ServeDelete \/ Unserved
        BY <3>1 DEF SendWrite, Serves, Deletes
      <3>3. UNCHANGED registered
        BY <3>2 DEF ServeDelete, Unserved
      <3>4. Gathered'
        BY <1>1, <3>1, <3>3 DEF DefInv, Gathered, Deletes
      <3>5. CASE ServeDelete /\ alone
        <4>1. PICK d \in Named(dcommand) :
                 remote = {d} /\ kept' = [kept EXCEPT ![d] = "absent"] /\ Deletable = {d}
          BY <1>1, <3>1, <3>5, ServesPinned
        <4>2. Deletable' = {}
          BY <1>1, <4>1 DEF Deletable, Named, DefInv, DefTypeOK
        <4>3. QED
          BY <1>1, <3>1, <3>4, <4>1, <4>2 DEF Pinned, Named
      <3>6. CASE Unserved
        BY <1>1, <3>1, <3>4, <3>6 DEF Unserved, DefInv, Pinned, Deletable, Named, Deletes
      <3>7. QED
        BY <1>1, <3>2, <3>4, <3>5, <3>6 DEF Pinned
    <2>4. NoGhost'
      BY <1>1, <1>4 DEF DefGoes, DefInv, Counted, NoGhost
    <2>5. QED
      BY <2>1, <2>2, <2>3, <2>4 DEF DefInv
  <1>5. CASE Deletes /\ ServeDelete /\ DefGoes("clean up")
    <2>1. DefTypeOK' /\ Counted'
      BY <1>1, <1>2, <1>5 DEF DefGoes, DefInv, DefTypeOK, Counted, Deletes
    <2>2. Gathered' /\ NoGhost'
      BY <1>1, <1>5 DEF DefGoes, ServeDelete, DefInv, Counted, Gathered, NoGhost, Deletes
    <2>3. Pinned'
      <3>1. CASE alone
        <4>1. PICK d \in Named(dcommand) :
                 remote = {d} /\ kept' = [kept EXCEPT ![d] = "absent"] /\ Deletable = {d}
          BY <1>1, <1>5, <3>1, ServesPinned
        <4>2. kept'[d] = "absent"
          BY <4>1 DEF Named, DefInv, DefTypeOK
        <4>3. QED
          BY <1>1, <1>5, <4>1, <4>2 DEF Pinned, Named, DefGoes
      <3>2. QED
        BY <1>1, <3>1 DEF Pinned
    <2>4. QED
      BY <2>1, <2>2, <2>3 DEF DefInv
  <1>6. QED
    <2>1. CASE Serves /\ WriteAnswered
      BY <1>3, <1>5, <2>1 DEF Serves, WriteAnswered, Deletes
    <2>2. CASE WriteLost
      BY <1>3, <1>4, <2>2 DEF WriteLost
    <2>3. CASE DefEnds("failed")
      BY <1>3, <2>3
    <2>4. QED
      BY <2>1, <2>2, <2>3 DEF SendWrite

LEMMA DefStepKeeps == DefInv /\ [DefNext]_defVars => DefInv'
  <1> SUFFICES ASSUME DefInv, [DefNext]_defVars PROVE DefInv'
    OBVIOUS
  <1>1. CASE UNCHANGED defVars
    BY <1>1 DEF defVars, defHA, defHistory, DefInv, DefTypeOK, Counted, Pinned, Gathered,
                NoGhost, Deletes, Deletable, Named, Exists
  <1>2. QED
    BY <1>1, BeginKeeps, BreaksKeeps, CreationKeeps, ResolveKeeps, ReadOrphansKeeps,
       SendWriteKeeps, CleanUpKeeps, OthersKeep DEF DefNext

\* Each definition is kept in one place, what is wired and registered is a definition's, and
\* the command's record has its type; the companion is asked at most MaxSend times.
THEOREM DefTypeCorrect == DefSpec => []DefTypeOK
  BY DefBegins, DefStepKeeps, PTL DEF DefSpec, DefInv

\* "A delete leaves nothing behind" (INVARIANTS.md): a deletion reported as done, also after
\* repeated requests whose answers were lost, leaves no entity of what it deleted in the
\* registry, unless a warning said so or another client was at that slug (rmHelper, rmTpl).
THEOREM DeletionLeavesNoGhost == DefSpec => []NoGhost
  BY DefBegins, DefStepKeeps, PTL DEF DefSpec, DefInv

\* The clean-up of the registry takes the entity of no definition that exists, although a
\* helper and another of its slug share what they are matched by, unless another client made
\* it again while the command ran.
THEOREM CleanUpSparesTheLive == DefSpec => LiveKeepsItsEntity
  <1>1. DefInv /\ [DefNext]_defVars
           => [alone => \A d \in registered \ registered' : kept[d] = "absent"]_defVars
    <2> SUFFICES ASSUME DefInv, DefNext, alone, NEW d \in registered \ registered'
                 PROVE  kept[d] = "absent"
      BY DEF defVars
    <2>1. CleanUp
      BY DEF DefNext, Begin, Breaks, NotFound, ReadOrphans, SendWrite, CreateHelper,
             CreateTemplate, DeleteHelper, DeleteTemplate, OthersChange, defHA, Serves,
             ServeCreate, ServeDelete, Unserved
    <2>2. dstep = "clean up" /\ d \in orphans /\ Deletes
      BY <2>1 DEF CleanUp, DefInv, Counted, Deletes
    <2>3. QED
      BY <2>2 DEF DefInv, Gathered, Pinned
  <1>2. QED
    BY <1>1, DefBegins, DefStepKeeps, PTL DEF DefSpec, LiveKeepsItsEntity

-----------------------------------------------------------------------------
(* Config entries and flows.                                                  *)

LEMMA CommandsTyped ==
    /\ Commands # {}
    /\ \A c \in Commands :
          /\ c.name \in OnEntry \cup OnFlow \cup {"start"}
          /\ c.confirm \in BOOLEAN
          /\ c.name \in OnEntry => c.entry \in Entry
          /\ c.name \in OnFlow => c.id \in FlowId
          /\ c.name \in {"show", "probe", "inspect"} => ~c.confirm
          /\ c.manager \in Manager
          /\ c = [name |-> c.name, entry |-> c.entry, id |-> c.id, manager |-> c.manager,
                  confirm |-> c.confirm]
  <1>1. [name |-> "start", entry |-> NoEntry, id |-> NoFlow, manager |-> "config",
         confirm |-> TRUE] \in Commands
    BY DEF Commands, CommandSet
  <1>2. ASSUME NEW c \in Commands
        PROVE  /\ c.name \in OnEntry \cup OnFlow \cup {"start"}
               /\ c.confirm \in BOOLEAN
               /\ c.name \in OnEntry => c.entry \in Entry
               /\ c.name \in OnFlow => c.id \in FlowId
               /\ c.name \in {"show", "probe", "inspect"} => ~c.confirm
               /\ c.manager \in Manager
               /\ c = [name |-> c.name, entry |-> c.entry, id |-> c.id, manager |-> c.manager,
                       confirm |-> c.confirm]
    BY DEF Commands, CommandSet, OnEntry, OnFlow, Manager
  <1>3. QED
    BY <1>1, <1>2

\* Where a process stands tells what its command is.
Placed ==
    \A p \in Client :
        /\ at[p] = "resolve" => cmd[p].name \in OnEntry
        /\ at[p] = "handlers" => cmd[p].name = "start" /\ ~cmd[p].confirm
        /\ at[p] = "lookup" => cmd[p].name \in OnFlow /\ ~cmd[p].confirm

\* A flow a probe has started is in progress only until its own process has aborted it, or
\* is one that nobody could abort; its id was never given to another.
Owned ==
    /\ \A f \in FlowId : running[f] # "none" => f \in used
    /\ \A p \in Client :
          /\ probed[p] \subseteq used
          /\ \A q \in Client \ {p} : probed[p] \cap probed[q] = {}
          /\ \A f \in probed[p] \ left :
                running[f] = "none" \/ (at[p] = "abort" /\ answer[p].id = f)

\* An entry Home Assistant rewrote has an answer that says so, read before the end.
Untold ==
    \A p \in Client :
        rewritten[p] = "unsaid" => at[p] \in {"abort", "read"} /\ answer[p].type = "create_entry"

\* What Home Assistant must be like for the write of a command not to be refused.
Supported(c) ==
    /\ c.name = "delete" => entries[c.entry] # "absent"
    /\ c.name = "options" => entries[c.entry] = "options"
    /\ c.name = "start" => handler
    /\ c.name = "step" => running[c.id] = c.manager

Foreseen == \A c \in flowForeseen : Supported(c)

HistoryTyped ==
    /\ probed \in [Client -> SUBSET FlowId]
    /\ rewritten \in [Client -> {"no", "unsaid", "said"}]

FlowInv == FlowTypeOK /\ HistoryTyped /\ Placed /\ Owned /\ Untold /\ Foreseen

LEMMA FlowBegins == FlowInit => FlowInv
  <1> SUFFICES ASSUME FlowInit PROVE FlowInv
    OBVIOUS
  <1>1. (CHOOSE c \in Commands : TRUE) \in Commands
    BY CommandsTyped
  <1>2. cmd \in [Client -> Commands]
    BY <1>1 DEF FlowInit
  <1>3. answer \in [Client -> [type : FlowType \cup {"none"}, id : FlowId \cup {NoFlow}]]
    BY DEF FlowInit, NoAnswer
  <1>4. FlowTypeOK
    BY <1>2, <1>3 DEF FlowInit, FlowTypeOK, Results
  <1>5. HistoryTyped /\ Placed /\ Owned /\ Untold /\ Foreseen
    BY DEF FlowInit, HistoryTyped, Placed, Owned, Untold, Foreseen
  <1>6. QED
    BY <1>4, <1>5 DEF FlowInv

\* A step that neither reaches a flow nor aborts or reads one.
LEMMA QuietKeepsOwned ==
    ASSUME FlowInv, NEW p \in Client, at[p] \notin {"abort", "read"},
           NEW next, at' = [at EXCEPT ![p] = next],
           UNCHANGED <<running, used, answer, probed, left, rewritten>>
    PROVE  Owned' /\ Untold' /\ HistoryTyped'
  <1>1. \A q \in Client : at'[q] = IF q = p THEN next ELSE at[q]
    BY DEF FlowInv, FlowTypeOK
  <1>2. Owned'
    BY <1>1 DEF FlowInv, Owned
  <1>3. Untold' /\ HistoryTyped'
    BY <1>1 DEF FlowInv, Untold, HistoryTyped
  <1>4. QED
    BY <1>2, <1>3

LEMMA ForeseenIfSame ==
    ASSUME Foreseen, UNCHANGED <<entries, handler, running>>, flowForeseen' \subseteq flowForeseen
    PROVE  Foreseen'
  BY DEF Foreseen, Supported

LEMMA AnswerPlaces ==
    ASSUME FlowInv, NEW p \in Client, UNCHANGED cmd,
           NEW next \in {"diagnose", "post", "abort", "read", "render", "ended"},
           at' = [at EXCEPT ![p] = next]
    PROVE  Placed'
  BY DEF FlowInv, FlowTypeOK, Placed

LEMMA InvokeFlowKeeps == ASSUME FlowInv, NEW p \in Client, InvokeFlow(p) PROVE FlowInv'
  <1>1. PICK c \in Commands, l \in {"resolve", "handlers", "post", "lookup"} :
           /\ cmd' = [cmd EXCEPT ![p] = c] /\ at' = [at EXCEPT ![p] = l]
           /\ l = "resolve" => c.name \in OnEntry
           /\ l = "handlers" => c.name = "start" /\ ~c.confirm
           /\ l = "lookup" => c.name \in OnFlow /\ ~c.confirm
    <2>1. PICK c \in Commands :
             /\ cmd' = [cmd EXCEPT ![p] = c]
             /\ Goto(p, CASE c.name \in OnEntry -> "resolve"
                          [] c.name = "start" /\ ~c.confirm -> "handlers"
                          [] c.name = "step" /\ c.confirm -> "post"
                          [] c.name = "start" /\ c.confirm -> "post"
                          [] OTHER -> "lookup")
      BY DEF InvokeFlow
    <2>2. /\ c.name \in OnEntry \cup OnFlow \cup {"start"} /\ c.confirm \in BOOLEAN
          /\ c.name \in {"show", "probe", "inspect"} => ~c.confirm
      BY CommandsTyped
    <2>3. CASE c.name \in OnEntry
      BY <2>1, <2>3 DEF Goto, OnEntry
    <2>4. CASE c.name \notin OnEntry /\ c.name = "start" /\ ~c.confirm
      BY <2>1, <2>4 DEF Goto, OnEntry
    <2>5. CASE c.name \notin OnEntry /\ c.name \in {"start", "step"} /\ c.confirm
      BY <2>1, <2>5 DEF Goto, OnEntry
    <2>6. CASE c.name \in OnFlow /\ ~c.confirm
      BY <2>1, <2>6 DEF Goto, OnEntry, OnFlow
    <2>7. QED
      BY <2>2, <2>3, <2>4, <2>5, <2>6 DEF OnFlow
  <1>2. /\ at[p] \in {"idle", "ended"}
        /\ answer' = [answer EXCEPT ![p] = NoAnswer]
        /\ flowResult' = [flowResult EXCEPT ![p] = "none"]
        /\ cancelled' = cancelled \ {p}
        /\ probed' = [probed EXCEPT ![p] = {}]
        /\ rewritten' = [rewritten EXCEPT ![p] = "no"]
        /\ left' = left \ probed[p]
        /\ UNCHANGED <<entries, handler, running, used, flowForeseen>>
    BY DEF InvokeFlow, ha
  <1>3. NoAnswer \in [type : FlowType \cup {"none"}, id : FlowId \cup {NoFlow}]
    BY DEF NoAnswer
  <1>4. FlowTypeOK'
    BY <1>1, <1>2, <1>3 DEF FlowInv, FlowTypeOK, Results
  <1>5. HistoryTyped' /\ Foreseen'
    BY <1>2, ForeseenIfSame DEF FlowInv, HistoryTyped
  <1>6. Placed'
    BY <1>1 DEF FlowInv, FlowTypeOK, Placed
  <1>7. Untold'
    BY <1>1, <1>2 DEF FlowInv, FlowTypeOK, HistoryTyped, Untold
  <1>8. Owned'
    <2>1. \A q \in Client : /\ probed'[q] = IF q = p THEN {} ELSE probed[q]
                            /\ q # p => at'[q] = at[q] /\ answer'[q] = answer[q]
      BY <1>1, <1>2 DEF FlowInv, FlowTypeOK, HistoryTyped
    <2>2. \A q \in Client \ {p} : probed[q] \ left' = probed[q] \ left
      BY <1>2 DEF FlowInv, Owned
    <2>3. QED
      BY <1>2, <2>1, <2>2 DEF FlowInv, Owned
  <1>9. QED
    BY <1>4, <1>5, <1>6, <1>7, <1>8 DEF FlowInv

\* The steps that only read Home Assistant, answer or pass on.
LEMMA ReadingKeeps ==
    ASSUME FlowInv, NEW p \in Client, at[p] \notin {"abort", "read"},
           NEW next \in {"diagnose", "post", "ended"},
           Goto(p, next),
           flowResult' \in [Client -> Results],
           flowForeseen' \in {flowForeseen, flowForeseen \cup {cmd[p]}},
           cmd[p] \in flowForeseen' \ flowForeseen => Supported(cmd[p]),
           UNCHANGED <<ha, cmd, answer, cancelled, probed, left, rewritten>>
    PROVE  FlowInv'
  <1>1. FlowTypeOK'
    BY DEF FlowInv, FlowTypeOK, Goto, ha
  <1>2. Placed'
    BY AnswerPlaces DEF Goto
  <1>3. Owned' /\ Untold' /\ HistoryTyped'
    BY QuietKeepsOwned DEF Goto, ha
  <1>4. Foreseen'
    BY DEF FlowInv, Foreseen, Supported, ha
  <1>5. QED
    BY <1>1, <1>2, <1>3, <1>4 DEF FlowInv

LEMMA AnswerTyped ==
    ASSUME FlowTypeOK, NEW p \in Client, NEW what \in Results, Answer(p, what)
    PROVE  Goto(p, "ended") /\ flowResult' \in [Client -> Results]
  BY DEF Answer, FlowTypeOK

LEMMA ResolveEntryKeeps == ASSUME FlowInv, NEW p \in Client, ResolveEntry(p) PROVE FlowInv'
  <1>1. /\ at[p] = "resolve"
        /\ UNCHANGED <<ha, cmd, answer, cancelled, probed, left, rewritten>>
    BY DEF ResolveEntry
  <1>2. CASE UNCHANGED flowForeseen /\ \E what \in Refusals : Answer(p, what)
    <2>1. Goto(p, "ended") /\ flowResult' \in [Client -> Results]
      BY <1>2, AnswerTyped DEF FlowInv, Results
    <2>2. QED
      BY <1>1, <1>2, <2>1, ReadingKeeps
  <1>3. CASE UNCHANGED <<flowResult, flowForeseen>> /\ \E l \in {"diagnose", "post"} : Goto(p, l)
    BY <1>1, <1>3, ReadingKeeps DEF FlowInv, FlowTypeOK
  <1>4. CASE PlanFlow(p) /\ entries[cmd[p].entry] # "absent"
             /\ ~(cmd[p].name = "options" /\ entries[cmd[p].entry] = "plain")
    <2>1. Goto(p, "ended") /\ flowResult' \in [Client -> Results]
      BY <1>4, AnswerTyped DEF FlowInv, Results, PlanFlow
    <2>2. cmd[p].name \in OnEntry /\ cmd[p].entry \in Entry
      BY <1>1, CommandsTyped DEF FlowInv, FlowTypeOK, Placed
    <2>3. Supported(cmd[p])
      BY <1>4, <2>2 DEF Supported, FlowInv, FlowTypeOK, OnEntry
    <2>4. QED
      BY <1>1, <1>4, <2>1, <2>3, ReadingKeeps DEF PlanFlow
  <1>5. QED
    BY <1>2, <1>3, <1>4 DEF ResolveEntry, Refusals

LEMMA DiagnoseKeeps == ASSUME FlowInv, NEW p \in Client, Diagnose(p) PROVE FlowInv'
  <1>1. /\ at[p] = "diagnose" /\ UNCHANGED <<ha, cmd, answer, cancelled, probed, left, rewritten>>
        /\ UNCHANGED flowForeseen
    BY DEF Diagnose, told
  <1>2. CASE \E what \in {"diagnostics", "unavailable"} : Answer(p, what)
    <2>1. Goto(p, "ended") /\ flowResult' \in [Client -> Results]
      BY <1>2, AnswerTyped DEF FlowInv, Results
    <2>2. QED
      BY <1>1, <2>1, ReadingKeeps
  <1>3. CASE Goto(p, "post") /\ UNCHANGED flowResult
    BY <1>1, <1>3, ReadingKeeps DEF FlowInv, FlowTypeOK
  <1>4. QED
    BY <1>2, <1>3 DEF Diagnose

LEMMA PlanKeeps ==
    ASSUME FlowInv, NEW p \in Client, ConfigFlowHandlers(p) \/ InspectFlow(p) PROVE FlowInv'
  <1>1. /\ at[p] \in {"handlers", "lookup"}
        /\ UNCHANGED <<ha, cmd, answer, cancelled, probed, left, rewritten>>
    BY DEF ConfigFlowHandlers, InspectFlow
  <1>2. CASE UNCHANGED flowForeseen /\ \E what \in Refusals \cup {"flow"} : Answer(p, what)
    <2>1. Goto(p, "ended") /\ flowResult' \in [Client -> Results]
      BY <1>2, AnswerTyped DEF FlowInv, Results
    <2>2. QED
      BY <1>1, <1>2, <2>1, ReadingKeeps
  <1>3. CASE /\ PlanFlow(p)
             /\ \/ at[p] = "handlers" /\ handler
                \/ cmd[p].name = "step" /\ running[cmd[p].id] = cmd[p].manager
    <2>1. Goto(p, "ended") /\ flowResult' \in [Client -> Results]
      BY <1>3, AnswerTyped DEF FlowInv, Results, PlanFlow
    <2>2. Supported(cmd[p])
      BY <1>3 DEF FlowInv, Placed, Supported
    <2>3. QED
      BY <1>1, <1>3, <2>1, <2>2, ReadingKeeps DEF PlanFlow
  <1>4. QED
    BY <1>2, <1>3 DEF ConfigFlowHandlers, InspectFlow, Refusals

\* What a request that reached a flow leaves of the types.
LEMMA ProgressKeeps ==
    ASSUME FlowInv, NEW p \in Client, NEW f \in FlowId, NEW type \in FlowType,
           Progress(p, f, type),
           UNCHANGED <<entries, handler, cmd, cancelled>>,
           NEW l \in {"abort", "render", "ended"}, Goto(p, l),
           flowResult' \in [Client -> Results],
           UNCHANGED answer \/ Receive(p, f, type)
    PROVE  /\ FlowTypeOK' /\ Placed' /\ Foreseen'
           /\ used' = used \cup {f}
           /\ \A g \in FlowId \ {f} : running'[g] = running[g]
           /\ \A q \in Client \ {p} : at'[q] = at[q] /\ answer'[q] = answer[q]
           /\ at'[p] = l
  <1>1. cmd[p].manager \in Manager
    BY CommandsTyped DEF FlowInv, FlowTypeOK
  <1>2. answer' \in [Client -> [type : FlowType \cup {"none"}, id : FlowId \cup {NoFlow}]]
    BY DEF FlowInv, FlowTypeOK, Receive
  <1>3. running' \in [FlowId -> Manager \cup {"none"}]
    BY <1>1 DEF FlowInv, FlowTypeOK, Progress
  <1>4. FlowTypeOK'
    BY <1>2, <1>3 DEF FlowInv, FlowTypeOK, Progress, Goto
  <1>5. Placed'
    BY AnswerPlaces DEF Goto
  <1>6. Foreseen'
    BY DEF Foreseen, Progress
  <1>7. \A q \in Client \ {p} : at'[q] = at[q] /\ answer'[q] = answer[q]
    BY DEF FlowInv, FlowTypeOK, Goto, Receive
  <1>8. at'[p] = l /\ used' = used \cup {f} /\ \A g \in FlowId \ {f} : running'[g] = running[g]
    BY DEF FlowInv, FlowTypeOK, Goto, Progress
  <1>9. QED
    BY <1>4, <1>5, <1>6, <1>7, <1>8

LEMMA StartFlowKeeps == ASSUME FlowInv, NEW p \in Client, StartFlow(p) PROVE FlowInv'
  <1> DEFINE probe == cmd[p].name = "probe"
  <1>1. /\ at[p] = "post"
        /\ UNCHANGED <<entries, handler, cmd, cancelled>>
    BY DEF StartFlow
  <1>2. PICK f \in FlowId \ used, type \in FlowType :
           /\ Progress(p, f, type)
           /\ probed' = IF probe THEN [probed EXCEPT ![p] = @ \cup {f}] ELSE probed
           /\ \/ /\ Receive(p, f, type)
                 /\ Goto(p, IF probe THEN "abort" ELSE "render")
                 /\ rewritten' = [rewritten EXCEPT ![p] =
                       IF probe /\ type = "create_entry" THEN "unsaid" ELSE @]
                 /\ UNCHANGED <<flowResult, left>>
              \/ /\ Answer(p, IF probe THEN "unavailable" ELSE "failed")
                 /\ left' = left \cup (IF probe THEN {f} ELSE {})
                 /\ UNCHANGED <<answer, rewritten>>
    BY DEF StartFlow
  <1> HIDE DEF probe
  <1>3. PICK l \in {"abort", "render", "ended"} :
           /\ Goto(p, l) /\ flowResult' \in [Client -> Results]
           /\ UNCHANGED answer \/ Receive(p, f, type)
    <2>1. CASE /\ Goto(p, IF probe THEN "abort" ELSE "render") /\ Receive(p, f, type)
               /\ UNCHANGED flowResult
      BY <2>1 DEF FlowInv, FlowTypeOK
    <2>2. CASE Answer(p, IF probe THEN "unavailable" ELSE "failed") /\ UNCHANGED answer
      <3>1. (IF probe THEN "unavailable" ELSE "failed") \in Results
        BY DEF Results, Refusals
      <3>2. QED
        BY <2>2, <3>1, AnswerTyped DEF FlowInv
    <2>3. QED
      BY <1>2, <2>1, <2>2
  <1>4. /\ FlowTypeOK' /\ Placed' /\ Foreseen'
        /\ used' = used \cup {f}
        /\ \A g \in FlowId \ {f} : running'[g] = running[g]
        /\ \A q \in Client \ {p} : at'[q] = at[q] /\ answer'[q] = answer[q]
        /\ at'[p] = l
    BY <1>1, <1>2, <1>3, ProgressKeeps
  <1>5. HistoryTyped'
    BY <1>2 DEF FlowInv, HistoryTyped
  <1>6. rewritten[p] # "unsaid"
    BY <1>1 DEF FlowInv, Untold
  <1>7. Untold'
    <2> SUFFICES ASSUME NEW q \in Client, rewritten'[q] = "unsaid"
                 PROVE  at'[q] \in {"abort", "read"} /\ answer'[q].type = "create_entry"
      BY DEF Untold
    <2>1. CASE q # p
      <3>1. rewritten'[q] = rewritten[q]
        BY <1>2, <2>1 DEF FlowInv, HistoryTyped
      <3>2. QED
        BY <1>4, <2>1, <3>1 DEF FlowInv, Untold
    <2>2. CASE q = p
      <3>1. /\ Receive(p, f, type) /\ probe /\ type = "create_entry"
            /\ Goto(p, IF probe THEN "abort" ELSE "render")
        BY <1>2, <1>6, <2>2 DEF FlowInv, HistoryTyped
      <3>2. QED
        BY <2>2, <3>1 DEF Receive, Goto, FlowInv, FlowTypeOK
    <2>3. QED
      BY <2>1, <2>2
  <1>8. Owned'
    <2>1. /\ \A q \in Client \ {p} : probed'[q] = probed[q]
          /\ probed'[p] = probed[p] \/ (probe /\ probed'[p] = probed[p] \cup {f})
          /\ \A g \in FlowId \ {f} : g \in left' <=> g \in left
          /\ left \subseteq left'
      BY <1>2 DEF FlowInv, HistoryTyped
    <2>2. \A q \in Client : f \notin probed[q]
      BY <1>2 DEF FlowInv, Owned
    <2>3. \A g \in FlowId : running'[g] # "none" => g \in used'
      BY <1>4 DEF FlowInv, Owned
    <2>4. \A q \in Client : /\ probed'[q] \subseteq used'
                            /\ \A r \in Client \ {q} : probed'[q] \cap probed'[r] = {}
      BY <1>4, <2>1, <2>2 DEF FlowInv, Owned
    <2>5. ASSUME NEW q \in Client, NEW g \in probed'[q] \ left', g # f
          PROVE  running'[g] = "none" \/ (at'[q] = "abort" /\ answer'[q].id = g)
      <3>1. g \in probed[q] \ left /\ g \in FlowId
        BY <2>1, <2>5 DEF FlowInv, HistoryTyped
      <3>2. QED
        BY <1>1, <1>4, <2>5, <3>1 DEF FlowInv, Owned
    <2>6. ASSUME NEW q \in Client, f \in probed'[q] \ left'
          PROVE  at'[q] = "abort" /\ answer'[q].id = f
      <3>1. q = p /\ probe
        BY <2>1, <2>2, <2>6
      <3>2. Receive(p, f, type) /\ Goto(p, "abort")
        BY <1>2, <2>6, <3>1
      <3>3. QED
        BY <3>1, <3>2 DEF Receive, Goto, FlowInv, FlowTypeOK
    <2>7. QED
      BY <2>3, <2>4, <2>5, <2>6 DEF Owned
  <1>9. QED
    BY <1>4, <1>5, <1>7, <1>8 DEF FlowInv

LEMMA StepFlowKeeps == ASSUME FlowInv, NEW p \in Client, StepFlow(p) PROVE FlowInv'
  <1>1. /\ at[p] = "post" /\ cmd[p].name = "step" /\ running[cmd[p].id] = cmd[p].manager
        /\ UNCHANGED <<entries, handler, cmd, cancelled, probed, left, rewritten>>
    BY DEF StepFlow
  <1>2. cmd[p].id \in FlowId /\ running[cmd[p].id] # "none"
    BY <1>1, CommandsTyped DEF FlowInv, FlowTypeOK, OnFlow, Manager
  <1>3. PICK type \in FlowType, l \in {"render", "ended"} :
           /\ Progress(p, cmd[p].id, type)
           /\ Goto(p, l) /\ flowResult' \in [Client -> Results]
           /\ UNCHANGED answer \/ Receive(p, cmd[p].id, type)
    <2>1. PICK type \in FlowType :
             /\ Progress(p, cmd[p].id, type)
             /\ \/ Receive(p, cmd[p].id, type) /\ Goto(p, "render") /\ UNCHANGED flowResult
                \/ Answer(p, "failed") /\ UNCHANGED answer
      BY DEF StepFlow
    <2>2. Answer(p, "failed") => Goto(p, "ended") /\ flowResult' \in [Client -> Results]
      BY AnswerTyped DEF FlowInv, Results, Refusals
    <2>3. QED
      BY <2>1, <2>2 DEF FlowInv, FlowTypeOK
  <1>4. /\ FlowTypeOK' /\ Placed' /\ Foreseen'
        /\ used' = used \cup {cmd[p].id}
        /\ \A g \in FlowId \ {cmd[p].id} : running'[g] = running[g]
        /\ \A q \in Client \ {p} : at'[q] = at[q] /\ answer'[q] = answer[q]
        /\ at'[p] = l
    BY <1>1, <1>2, <1>3, ProgressKeeps
  <1>5. HistoryTyped' /\ Untold'
    BY <1>1, <1>4 DEF FlowInv, HistoryTyped, Untold
  <1>6. Owned'
    BY <1>1, <1>2, <1>4 DEF FlowInv, HistoryTyped, Owned
  <1>7. QED
    BY <1>4, <1>5, <1>6 DEF FlowInv

\* The requests that end a command without reaching a flow.
LEMMA EndingKeeps ==
    ASSUME FlowInv, NEW p \in Client, at[p] \in {"post", "render"},
           NEW what \in Results, Answer(p, what),
           UNCHANGED <<running, used, cmd, answer, cancelled, probed, left, rewritten>>,
           handler' \in BOOLEAN, entries' \in [Entry -> {"absent", "plain", "options"}],
           flowForeseen' = {} \/ UNCHANGED <<entries, handler, flowForeseen>>
    PROVE  FlowInv'
  <1>1. Goto(p, "ended") /\ flowResult' \in [Client -> Results]
    BY AnswerTyped DEF FlowInv
  <1>2. FlowTypeOK'
    BY <1>1 DEF FlowInv, FlowTypeOK, Goto
  <1>3. Placed'
    BY <1>1, AnswerPlaces DEF Goto
  <1>4. Owned' /\ Untold' /\ HistoryTyped'
    BY <1>1, QuietKeepsOwned DEF Goto
  <1>5. Foreseen'
    BY ForeseenIfSame DEF FlowInv, Foreseen
  <1>6. QED
    BY <1>2, <1>3, <1>4, <1>5 DEF FlowInv

LEMMA RequestEndsKeep ==
    ASSUME FlowInv, NEW p \in Client, DeleteConfigEntry(p) \/ Rejected(p) \/ RenderFlow(p)
    PROVE  FlowInv'
  <1>1. CASE DeleteConfigEntry(p)
    <2>1. \E what \in Results : Answer(p, what)
      BY <1>1 DEF DeleteConfigEntry, Results, Refusals
    <2>2. entries' \in [Entry -> {"absent", "plain", "options"}] /\ handler' \in BOOLEAN
      BY <1>1 DEF DeleteConfigEntry, FlowInv, FlowTypeOK
    <2>3. QED
      BY <1>1, <2>1, <2>2, EndingKeeps DEF DeleteConfigEntry
  <1>2. CASE Rejected(p)
    <2>1. \E what \in Results : Answer(p, what)
      BY <1>2 DEF Rejected, Results, Refusals
    <2>2. QED
      BY <1>2, <2>1, EndingKeeps DEF Rejected, ha, told, FlowInv, FlowTypeOK
  <1>3. CASE RenderFlow(p)
    <2>1. \E what \in Results : Answer(p, what)
      BY <1>3 DEF RenderFlow, Results, Refusals
    <2>2. QED
      BY <1>3, <2>1, EndingKeeps DEF RenderFlow, ha, told, FlowInv, FlowTypeOK
  <1>4. QED
    BY <1>1, <1>2, <1>3

LEMMA AbortKeeps == ASSUME FlowInv, NEW p \in Client, Abort(p) PROVE FlowInv'
  <1> DEFINE f == answer[p].id
  <1>1. /\ at[p] = "abort" /\ Goto(p, "read")
        /\ \/ /\ running' = [running EXCEPT ![f] = "none"]
              /\ UNCHANGED left /\ flowForeseen' = {}
           \/ left' = left \cup {f} /\ UNCHANGED <<running, flowForeseen>>
        /\ UNCHANGED <<entries, handler, used, cmd, answer, cancelled, flowResult>>
        /\ UNCHANGED <<probed, rewritten>>
    BY DEF Abort
  <1> HIDE DEF f
  <1>2. FlowTypeOK' /\ HistoryTyped'
    BY <1>1 DEF FlowInv, FlowTypeOK, HistoryTyped, Goto
  <1>3. Placed'
    BY <1>1, AnswerPlaces DEF Goto
  <1>4. Foreseen'
    BY <1>1, ForeseenIfSame DEF FlowInv, Foreseen
  <1>5. \A q \in Client : at'[q] = IF q = p THEN "read" ELSE at[q]
    BY <1>1 DEF FlowInv, FlowTypeOK, Goto
  <1>6. Untold'
    BY <1>1, <1>5 DEF FlowInv, Untold
  <1>7. Owned'
    <2>1. \A g \in FlowId : running'[g] \in {running[g], "none"}
      BY <1>1 DEF FlowInv, FlowTypeOK
    <2>2. f \notin left' /\ f \in FlowId => running'[f] = "none"
      BY <1>1 DEF FlowInv, FlowTypeOK
    <2>3. left \subseteq left'
      BY <1>1
    <2>4. ASSUME NEW q \in Client, NEW g \in probed'[q] \ left'
          PROVE  running'[g] = "none" \/ (at'[q] = "abort" /\ answer'[q].id = g)
      <3>1. g \in probed[q] \ left /\ g \in FlowId
        BY <1>1, <2>3, <2>4 DEF FlowInv, HistoryTyped
      <3>2. CASE running[g] = "none"
        BY <2>1, <3>1, <3>2
      <3>3. CASE at[q] = "abort" /\ answer[q].id = g
        BY <1>1, <1>5, <2>2, <2>4, <3>1, <3>3 DEF f
      <3>4. QED
        BY <3>1, <3>2, <3>3 DEF FlowInv, Owned
    <2>5. QED
      BY <1>1, <2>1, <2>4 DEF FlowInv, Owned
  <1>8. QED
    BY <1>2, <1>3, <1>4, <1>6, <1>7 DEF FlowInv

LEMMA ReadValuesKeeps == ASSUME FlowInv, NEW p \in Client, ReadValues(p) PROVE FlowInv'
  <1>1. /\ at[p] = "read"
        /\ rewritten' = IF rewritten[p] = "unsaid" /\ answer[p].type = "create_entry"
                        THEN [rewritten EXCEPT ![p] = "said"] ELSE rewritten
        /\ UNCHANGED <<entries, handler, running, used, cmd, answer, cancelled, probed, left,
                       flowForeseen>>
    BY DEF ReadValues, ha
  <1>2. Goto(p, "ended") /\ flowResult' \in [Client -> Results]
    <2>1. \E what \in Results : Answer(p, what)
      BY DEF ReadValues, Results
    <2>2. QED
      BY <2>1, AnswerTyped DEF FlowInv
  <1>3. FlowTypeOK' /\ HistoryTyped'
    BY <1>1, <1>2 DEF FlowInv, FlowTypeOK, HistoryTyped, Goto
  <1>4. Placed'
    BY <1>1, <1>2, AnswerPlaces DEF Goto
  <1>5. Foreseen'
    BY <1>1, ForeseenIfSame DEF FlowInv
  <1>6. \A q \in Client : at'[q] = IF q = p THEN "ended" ELSE at[q]
    BY <1>2 DEF FlowInv, FlowTypeOK, Goto
  <1>7. Untold'
    BY <1>1, <1>6 DEF FlowInv, HistoryTyped, Untold
  <1>8. Owned'
    BY <1>1, <1>6 DEF FlowInv, Owned
  <1>9. QED
    BY <1>3, <1>4, <1>5, <1>7, <1>8 DEF FlowInv

LEMMA CancelKeeps == ASSUME FlowInv, NEW p \in Client, Cancel(p) PROVE FlowInv'
  BY DEF Cancel, ha, told, FlowInv, FlowTypeOK, HistoryTyped, Placed, Owned, Untold, Foreseen,
         Supported

LEMMA FlowElsewhereKeeps == FlowInv /\ FlowElsewhere => FlowInv'
  <1> SUFFICES ASSUME FlowInv, FlowElsewhere PROVE FlowInv'
    OBVIOUS
  <1>1. /\ flowForeseen' = {}
        /\ UNCHANGED <<used, at, cmd, answer, cancelled, flowResult, probed, left, rewritten>>
    BY DEF FlowElsewhere
  <1>2. /\ entries' \in [Entry -> {"absent", "plain", "options"}] /\ handler' \in BOOLEAN
        /\ running' \in [FlowId -> Manager \cup {"none"}]
        /\ \A f \in FlowId : running'[f] \in {running[f], "none"}
    BY DEF FlowElsewhere, FlowInv, FlowTypeOK
  <1>3. FlowTypeOK' /\ HistoryTyped' /\ Placed' /\ Untold' /\ Foreseen'
    BY <1>1, <1>2 DEF FlowInv, FlowTypeOK, HistoryTyped, Placed, Untold, Foreseen
  <1>4. Owned'
    BY <1>1, <1>2 DEF FlowInv, HistoryTyped, Owned
  <1>5. QED
    BY <1>3, <1>4 DEF FlowInv

LEMMA FlowStepKeeps == FlowInv /\ [FlowNext]_flowVars => FlowInv'
  <1> SUFFICES ASSUME FlowInv, [FlowNext]_flowVars PROVE FlowInv'
    OBVIOUS
  <1>1. CASE UNCHANGED flowVars
    BY <1>1 DEF flowVars, ha, told, FlowInv, FlowTypeOK, HistoryTyped, Placed, Owned, Untold,
                Foreseen, Supported
  <1>2. ASSUME NEW p \in Client,
               \/ InvokeFlow(p) \/ ResolveEntry(p) \/ Diagnose(p) \/ ConfigFlowHandlers(p)
               \/ InspectFlow(p) \/ StartFlow(p) \/ StepFlow(p) \/ DeleteConfigEntry(p)
               \/ Rejected(p) \/ Abort(p) \/ ReadValues(p) \/ RenderFlow(p) \/ Cancel(p)
        PROVE  FlowInv'
    BY <1>2, InvokeFlowKeeps, ResolveEntryKeeps, DiagnoseKeeps, PlanKeeps, StartFlowKeeps,
       StepFlowKeeps, RequestEndsKeep, AbortKeeps, ReadValuesKeeps, CancelKeeps
  <1>3. QED
    BY <1>1, <1>2, FlowElsewhereKeeps DEF FlowNext

\* Entries, flows and ids of flows have their types, and every process is where its command
\* may be, with an answer of the kind it waits for.
THEOREM FlowTypeCorrect == FlowSpec => []FlowTypeOK
  BY FlowBegins, FlowStepKeeps, PTL DEF FlowSpec, FlowInv

\* `config show` is a read (probeOptionsFlow): whatever the answers, cancellations and lost
\* requests, for any number of processes, a probe that has ended left no flow in progress,
\* but one whose id or whose abort was lost, and no rewritten entry unsaid.
THEOREM ProbesClean == FlowSpec => []ProbeLeavesNoTrace
  <1>1. FlowInv => ProbeLeavesNoTrace
    BY DEF FlowInv, Owned, Untold, ProbeLeavesNoTrace
  <1>2. QED
    BY <1>1, FlowBegins, FlowStepKeeps, PTL DEF FlowSpec

\* A confirmed command whose preview stands is answered by none of the refusals.
LEMMA ForeseenIsNotRefused ==
    ASSUME FlowInv, NEW p \in Client, cmd[p].confirm,
           [cmd[p] EXCEPT !.confirm = FALSE] \in flowForeseen,
           FlowNext, at[p] # "ended", at'[p] = "ended"
    PROVE  flowResult'[p] \notin {"unknown entry", "no options flow", "no config flow",
                                  "no such flow"}
  <1>1. Supported(cmd[p]) /\ cmd[p].name \in {"delete", "options", "start", "step"}
    <2>1. Supported([cmd[p] EXCEPT !.confirm = FALSE])
      BY DEF FlowInv, Foreseen
    <2>2. cmd[p] \in Commands
      BY DEF FlowInv, FlowTypeOK
    <2>3. cmd[p].name \in {"delete", "options", "start", "step"}
      BY <2>2, CommandsTyped DEF OnEntry, OnFlow
    <2>4. /\ [cmd[p] EXCEPT !.confirm = FALSE].name = cmd[p].name
          /\ [cmd[p] EXCEPT !.confirm = FALSE].entry = cmd[p].entry
          /\ [cmd[p] EXCEPT !.confirm = FALSE].id = cmd[p].id
          /\ [cmd[p] EXCEPT !.confirm = FALSE].manager = cmd[p].manager
      BY <2>2, CommandsTyped
    <2>5. QED
      BY <2>1, <2>3, <2>4 DEF Supported
  <1>2. ASSUME NEW what, Answer(p, what) PROVE flowResult'[p] = what
    BY <1>2 DEF Answer, FlowInv, FlowTypeOK
  <1>12. ASSUME NEW l, Goto(p, l) PROVE l = "ended"
    BY <1>12 DEF Goto, FlowInv, FlowTypeOK
  <1>3. PICK q \in Client :
           \/ InvokeFlow(q) \/ ResolveEntry(q) \/ Diagnose(q) \/ ConfigFlowHandlers(q)
           \/ InspectFlow(q) \/ StartFlow(q) \/ StepFlow(q) \/ DeleteConfigEntry(q)
           \/ Rejected(q) \/ Abort(q) \/ ReadValues(q) \/ RenderFlow(q) \/ Cancel(q)
    BY DEF FlowNext, FlowElsewhere
  <1>4. q = p
    <2>1. \/ UNCHANGED at
          \/ \E l : at' = [at EXCEPT ![q] = l]
      BY <1>3 DEF InvokeFlow, ResolveEntry, Diagnose, ConfigFlowHandlers, InspectFlow, StartFlow,
                  StepFlow, DeleteConfigEntry, Rejected, Abort, ReadValues, RenderFlow, Cancel,
                  Answer, Goto, PlanFlow
    <2>2. QED
      BY <2>1 DEF FlowInv, FlowTypeOK
  <1>5. CASE ResolveEntry(p)
    <2>1. cmd[p].name \in {"delete", "options"}
      BY <1>1, <1>5 DEF ResolveEntry, FlowInv, Placed, OnEntry
    <2>2. entries[cmd[p].entry] # "absent"
      BY <1>1, <2>1 DEF Supported
    <2>3. Answer(p, "fetch") \/ Goto(p, "post")
      BY <1>1, <1>5, <2>1, <2>2 DEF ResolveEntry, Supported
    <2>4. QED
      BY <1>2, <1>12, <2>3
  <1>6. CASE ConfigFlowHandlers(p) \/ InspectFlow(p)
    BY <1>6 DEF ConfigFlowHandlers, InspectFlow, FlowInv, Placed
  <1>7. CASE Rejected(p)
    <2>1. Answer(p, "failed")
      <3>1. CASE cmd[p].name = "step"
        BY <1>1, <1>7, <3>1 DEF Rejected, Supported
      <3>2. CASE cmd[p].name = "start"
        BY <1>1, <1>7, <3>2 DEF Rejected, Supported
      <3>3. CASE cmd[p].name = "delete"
        BY <1>1, <1>7, <3>3 DEF Rejected, Supported
      <3>4. CASE cmd[p].name = "options"
        BY <1>1, <1>7, <3>4 DEF Rejected, Supported
      <3>5. QED
        BY <1>1, <3>1, <3>2, <3>3, <3>4
    <2>2. QED
      BY <1>2, <2>1
  <1>8. CASE Diagnose(p) \/ DeleteConfigEntry(p) \/ ReadValues(p) \/ RenderFlow(p)
    <2>1. \/ Goto(p, "post")
          \/ \E what \in {"diagnostics", "unavailable", "done", "failed", "options_flow",
                           "warned", "flow"} : Answer(p, what)
      BY <1>8 DEF Diagnose, DeleteConfigEntry, ReadValues, RenderFlow
    <2>2. QED
      BY <1>2, <1>12, <2>1
  <1>9. CASE StartFlow(p) \/ StepFlow(p)
    <2>1. \E l \in {"abort", "render"}, what \in {"unavailable", "failed"} :
             Goto(p, l) \/ Answer(p, what)
      BY <1>9 DEF StartFlow, StepFlow
    <2>2. QED
      BY <1>2, <1>12, <2>1
  <1>10. CASE InvokeFlow(p) \/ Abort(p) \/ Cancel(p)
    <2>1. Goto(p, "read") \/ UNCHANGED at \/ flowResult' = [flowResult EXCEPT ![p] = "none"]
      BY <1>10 DEF InvokeFlow, Abort, Cancel
    <2>2. QED
      BY <1>12, <2>1 DEF FlowInv, FlowTypeOK
  <1>11. QED
    BY <1>3, <1>4, <1>5, <1>6, <1>7, <1>8, <1>9, <1>10

\* H-2, "a preview fails exactly where the confirmed run would": a confirmed command whose
\* preview passed is not refused for the entry, handler or flow it names, however processes
\* and other clients interleave, while Home Assistant is as it was.
THEOREM FlowPreviewsForetell == FlowSpec => PreviewForetells
  <1>1. FlowInv /\ [FlowNext]_flowVars =>
          [\A p \in Client :
             /\ cmd[p].confirm /\ [cmd[p] EXCEPT !.confirm = FALSE] \in flowForeseen
             /\ at[p] # "ended" /\ at'[p] = "ended"
             => flowResult'[p] \notin {"unknown entry", "no options flow", "no config flow",
                                       "no such flow"}]_flowVars
    BY ForeseenIsNotRefused
  <1>2. QED
    BY <1>1, FlowBegins, FlowStepKeeps, PTL DEF FlowSpec, PreviewForetells

-----------------------------------------------------------------------------
(* Dashboards.                                                                *)

LEMMA CommandNonempty == (CHOOSE c \in Command : TRUE) \in Command
  <1>1. [name |-> "show", url |-> Default, confirm |-> FALSE] \in Command
    BY DashboardAssumption DEF Command
  <1>2. QED
    BY <1>1

LEMMA CommandTyped ==
    \A c \in Command :
        /\ c.name \in {"show", "save", "replace", "create", "delete", "grep"}
        /\ c.url \in Dashboard /\ c.confirm \in BOOLEAN
        /\ [c EXCEPT !.confirm = FALSE].name = c.name
        /\ [c EXCEPT !.confirm = FALSE].url = c.url
        /\ c.confirm => c.name \in {"save", "replace", "create", "delete"}
        /\ c.name \in {"create", "delete"} => c.url # Default
  BY DashboardAssumption DEF Command

LEMMA RewrittenTyped == \A c \in Hit : Rewritten[c] \in Config
  BY DashboardAssumption

LEMMA ReadingParts ==
    \A p \in Dashboard \X (Config \cup {NoConfig}) :
        p = <<p[1], p[2]>> /\ p[2] \in Config \cup {NoConfig}
  OBVIOUS

\* What Home Assistant must be like for the write of a command to be accepted.
Accepted(c) ==
    /\ c.name \in {"save", "replace"} =>
          mode[c.url] = "storage" \/ (c.url = Default /\ mode[c.url] = "unlisted")
    /\ c.name = "replace" => config[c.url] \in Hit
    /\ c.name = "create" => Gone(c.url)
    /\ c.name = "delete" => mode[c.url] = "storage"

\* A dashboard that is not there has nothing stored; a replacement reads one no file defines,
\* and writes only what it has found something in.
Stored ==
    /\ \A d \in Dashboard : mode[d] = "unlisted" /\ d # Default => config[d] = NoConfig
    /\ step = "fetch" => \/ command.name = "show"
                         \/ command.name = "replace" /\ mode[command.url] # "yaml"
    /\ step \in {"snapshot", "write"} /\ command.name = "replace" => fetched \in Hit

StandingPreviews == \A c \in sighted : Accepted(c)

\* A refusal was of a command that no preview standing since had announced otherwise.
RefusalsUnforeseen ==
    /\ step # "ended" => result = "none"
    /\ command.confirm /\ result \in {"refused", "not found", "exists", "unchanged"} =>
          [command EXCEPT !.confirm = FALSE] \notin sighted

DashInv ==
    DashTypeOK /\ Stored /\ StandingPreviews /\ RefusalsUnforeseen /\ NoHitsIsComplete

LEMMA DashBegins == DashInit => DashInv
  <1> SUFFICES ASSUME DashInit PROVE DashInv
    OBVIOUS
  <1>1. command \in Command
    BY CommandNonempty DEF DashInit
  <1>2. DashTypeOK
    BY <1>1 DEF DashInit, DashTypeOK, Mode, Outcome
  <1>3. Stored /\ StandingPreviews /\ RefusalsUnforeseen /\ NoHitsIsComplete
    BY DEF DashInit, Stored, StandingPreviews, RefusalsUnforeseen, NoHitsIsComplete
  <1>4. QED
    BY <1>2, <1>3 DEF DashInv

LEMMA InvokeDashKeeps == DashInv /\ InvokeDash => DashInv'
  <1> SUFFICES ASSUME DashInv, InvokeDash PROVE DashInv'
    OBVIOUS
  <1>1. DashTypeOK'
    BY DEF InvokeDash, DashInv, DashTypeOK, Mode, Outcome, dashHA, previews
  <1>2. Stored' /\ StandingPreviews' /\ RefusalsUnforeseen' /\ NoHitsIsComplete'
    BY DEF InvokeDash, DashInv, Stored, StandingPreviews, Accepted, Gone, RefusalsUnforeseen,
           NoHitsIsComplete, dashHA, previews
  <1>3. QED
    BY <1>1, <1>2 DEF DashInv

\* A step of the command that leaves Home Assistant, its preview and the scan alone.
LEMMA DashMoves ==
    ASSUME DashInv, step # "ended",
           UNCHANGED <<dashHA, command, sighted, scanned>>,
           \/ UNCHANGED <<step, result>>
           \/ \E next \in {"fetch", "scan", "snapshot", "write", "recheck"} : Then(next)
           \/ \E what \in Outcome \ {"none", "no hits"} : End(what),
           step' = "fetch" => \/ command.name = "show"
                              \/ command.name = "replace" /\ mode[command.url] # "yaml",
           step' \in {"snapshot", "write"} /\ command.name = "replace" => fetched' \in Hit,
           command.confirm /\ result' \in {"refused", "not found", "exists", "unchanged"} =>
              [command EXCEPT !.confirm = FALSE] \notin sighted,
           socket' \in BOOLEAN, listed' \in [Dashboard -> Mode],
           fetched' \in Config \cup {NoConfig}, keptCopy' \in Config \cup {NoConfig},
           toScan' \subseteq Dashboard
    PROVE  DashInv'
  <1>1. result = "none"
    BY DEF DashInv, RefusalsUnforeseen
  <1>2. DashTypeOK'
    BY DEF DashInv, DashTypeOK, Then, End, dashHA
  <1>3. Stored' /\ StandingPreviews'
    BY DEF DashInv, Stored, StandingPreviews, Accepted, Gone, dashHA
  <1>4. result' # "no hits" /\ (step' # "ended" => result' = "none")
    BY <1>1 DEF Then, End
  <1>5. RefusalsUnforeseen' /\ NoHitsIsComplete'
    BY <1>4 DEF RefusalsUnforeseen, NoHitsIsComplete
  <1>6. QED
    BY <1>2, <1>3, <1>5 DEF DashInv

\* A plan of what Home Assistant would accept now.
LEMMA PlanKept ==
    ASSUME DashInv, step # "ended", Accepted(command),
           NEW next \in {"snapshot", "write"}, Plan(next),
           command.name = "replace" => fetched' \in Hit,
           UNCHANGED <<dashHA, command, socket, scanned>>,
           listed' \in [Dashboard -> Mode], fetched' \in Config \cup {NoConfig},
           keptCopy' \in Config \cup {NoConfig}, toScan' \subseteq Dashboard
    PROVE  DashInv'
  <1>1. result = "none" /\ command \in Command
    BY DEF DashInv, RefusalsUnforeseen, DashTypeOK
  <1>2. CASE command.confirm
    <2>1. Then(next) /\ UNCHANGED sighted
      BY <1>2 DEF Plan, Proceed, Shown
    <2>2. QED
      BY <1>1, <2>1, DashMoves DEF DashInv, DashTypeOK, Then, dashHA
  <1>3. CASE ~command.confirm
    <2>1. End("planned") /\ sighted' = sighted \cup {command}
      BY <1>3 DEF Plan, Proceed, Shown
    <2>2. DashTypeOK'
      BY <2>1 DEF DashInv, DashTypeOK, End, Outcome, dashHA
    <2>3. Stored' /\ StandingPreviews'
      BY <2>1 DEF DashInv, Stored, StandingPreviews, Accepted, Gone, dashHA, End
    <2>4. RefusalsUnforeseen' /\ NoHitsIsComplete'
      BY <1>3, <2>1 DEF RefusalsUnforeseen, NoHitsIsComplete, End
    <2>5. QED
      BY <2>2, <2>3, <2>4 DEF DashInv
  <1>4. QED
    BY <1>2, <1>3

\* A refusal that Home Assistant as it is gives rise to.
LEMMA StopKept ==
    ASSUME DashInv, step # "ended",
           NEW what \in Outcome \ {"none", "no hits"}, Stop(what),
           what \in {"refused", "not found", "exists", "unchanged"} => ~Accepted(command),
           UNCHANGED <<dashHA, command, socket, scanned>>,
           listed' \in [Dashboard -> Mode], fetched' \in Config \cup {NoConfig},
           keptCopy' \in Config \cup {NoConfig}, toScan' \subseteq Dashboard
    PROVE  DashInv'
  <1>1. command \in Command /\ socket' \in BOOLEAN
    BY DEF DashInv, DashTypeOK
  <1>2. End(what) /\ UNCHANGED sighted
    BY DEF Stop, previews
  <1>3. ASSUME [command EXCEPT !.confirm = FALSE] \in sighted PROVE Accepted(command)
    <2>1. Accepted([command EXCEPT !.confirm = FALSE])
      BY <1>3 DEF DashInv, StandingPreviews
    <2>2. QED
      BY <1>1, <2>1, CommandTyped DEF Accepted
  <1>4. step' \notin {"fetch", "snapshot", "write"}
    BY <1>2 DEF End
  <1>5. command.confirm /\ result' \in {"refused", "not found", "exists", "unchanged"} =>
              [command EXCEPT !.confirm = FALSE] \notin sighted
    BY <1>2, <1>3 DEF End
  <1>6. QED
    BY <1>1, <1>2, <1>4, <1>5, DashMoves

LEMMA ListKeeps == DashInv /\ ListDashboards => DashInv'
  <1> SUFFICES ASSUME DashInv, ListDashboards PROVE DashInv'
    OBVIOUS
  <1> DEFINE d == command.url
  <1>1. /\ step = "list" /\ UNCHANGED <<dashHA, command, socket, fetched, scanned, keptCopy>>
        /\ listed' \in {mode, listed}
    BY DEF ListDashboards
  <1>2. /\ command \in Command /\ d \in Dashboard /\ mode[d] \in Mode
        /\ listed' \in [Dashboard -> Mode] /\ toScan' \subseteq Dashboard
        /\ fetched' \in Config \cup {NoConfig} /\ keptCopy' \in Config \cup {NoConfig}
        /\ socket' \in BOOLEAN
    BY <1>1, CommandTyped DEF ListDashboards, ScanTargets, DashInv, DashTypeOK
  <1>3. ASSUME NEW next \in {"fetch", "scan", "write"}, GoOn(next),
               next = "fetch" => \/ command.name = "show"
                                 \/ command.name = "replace" /\ mode[d] # "yaml",
               next = "write" => command.name = "create"
        PROVE  DashInv'
    <2>1. Then(next) /\ UNCHANGED sighted /\ result' = "none" /\ step' = next
      BY <1>1, <1>3 DEF GoOn, previews, Then, DashInv, RefusalsUnforeseen
    <2>2. QED
      BY <1>1, <1>2, <1>3, <2>1, DashMoves
  <1>4. CASE Stop("failed")
    <2>1. "failed" \in Outcome \ {"none", "no hits"}
      BY DEF Outcome
    <2>2. QED
      BY <1>1, <1>2, <1>4, <2>1, StopKept
  <1>5. ASSUME NEW what \in {"refused", "not found", "exists"}, Stop(what), ~Accepted(command)
        PROVE  DashInv'
    <2>1. what \in Outcome \ {"none", "no hits"}
      BY DEF Outcome
    <2>2. QED
      BY <1>1, <1>2, <1>5, <2>1, StopKept
  <1>6. ASSUME NEW next \in {"snapshot", "write"}, Plan(next), Accepted(command),
               command.name # "replace"
        PROVE  DashInv'
    BY <1>1, <1>2, <1>6, PlanKept
  <1>7. CASE socket /\ listed' = mode /\ AfterList
    <2>1. CASE command.name = "show"
      <3>1. GoOn("fetch") \/ (Stop("not found") /\ ~command.confirm)
        BY <1>2, <1>7, <2>1, CommandTyped DEF AfterList, ShowTarget
      <3>2. CASE Stop("not found") /\ ~command.confirm
        <4>1. End("not found") /\ UNCHANGED sighted
          BY <3>2 DEF Stop, previews
        <4>2. "not found" \in Outcome \ {"none", "no hits"}
          BY DEF Outcome
        <4>3. step' = "ended"
          BY <4>1 DEF End
        <4>4. QED
          BY <1>1, <1>2, <3>2, <4>1, <4>2, <4>3, DashMoves
      <3>3. QED
        BY <1>3, <2>1, <3>1, <3>2
    <2>2. CASE command.name = "save"
      <3>1. SaveTarget(d)
        BY <1>7, <2>2 DEF AfterList
      <3>2. CASE mode[d] = "yaml" \/ (d # Default /\ mode[d] = "unlisted")
        BY <1>5, <1>7, <2>2, <3>1, <3>2 DEF SaveTarget, YamlPinned, Resolved, Found, Accepted
      <3>3. CASE ~(mode[d] = "yaml" \/ (d # Default /\ mode[d] = "unlisted"))
        BY <1>2, <1>6, <1>7, <2>2, <3>1, <3>3
           DEF SaveTarget, YamlPinned, Resolved, Found, Accepted, Mode
      <3>4. QED
        BY <3>2, <3>3
    <2>3. CASE command.name = "replace"
      <3>1. ReplaceTarget(d)
        BY <1>7, <2>3 DEF AfterList
      <3>2. CASE mode[d] = "yaml" \/ (d # Default /\ mode[d] = "unlisted")
        BY <1>5, <1>7, <2>3, <3>1, <3>2 DEF ReplaceTarget, YamlPinned, Resolved, Found, Accepted
      <3>3. CASE ~(mode[d] = "yaml" \/ (d # Default /\ mode[d] = "unlisted"))
        BY <1>2, <1>3, <1>7, <2>3, <3>1, <3>3 DEF ReplaceTarget, YamlPinned, Resolved, Found
      <3>4. QED
        BY <3>2, <3>3
    <2>4. CASE command.name = "create"
      <3>1. CreateTarget(d)
        BY <1>7, <2>4 DEF AfterList
      <3>2. QED
        BY <1>5, <1>6, <1>7, <2>4, <3>1 DEF CreateTarget, Found, Accepted, Gone
    <2>5. CASE command.name = "delete"
      <3>1. DeleteTarget(d)
        BY <1>7, <2>5 DEF AfterList
      <3>2. QED
        BY <1>2, <1>5, <1>6, <1>7, <2>5, <3>1 DEF DeleteTarget, YamlPinned, Found, Accepted, Mode
    <2>6. CASE command.name = "grep"
      BY <1>3, <1>7, <2>6 DEF AfterList
    <2>7. QED
      BY <1>2, <2>1, <2>2, <2>3, <2>4, <2>5, <2>6, CommandTyped
  <1>8. CASE command.name = "create" /\ PlanUnseen("write")
    <2>1. /\ Then("write") \/ End("planned")
          /\ UNCHANGED sighted
      BY <1>8 DEF PlanUnseen, Proceed
    <2>2. "planned" \in Outcome \ {"none", "no hits"}
      BY DEF Outcome
    <2>3. result' \in {"none", "planned"} /\ step' # "fetch"
      BY <1>1, <2>1 DEF Then, End, DashInv, RefusalsUnforeseen
    <2>4. QED
      BY <1>1, <1>2, <1>8, <2>1, <2>2, <2>3, DashMoves
  <1>9. QED
    BY <1>4, <1>7, <1>8 DEF ListDashboards

LEMMA FetchKeeps == DashInv /\ Fetch => DashInv'
  <1> SUFFICES ASSUME DashInv, Fetch PROVE DashInv'
    OBVIOUS
  <1> DEFINE d == command.url
  <1>1. /\ step = "fetch"
        /\ UNCHANGED <<dashHA, command, socket, listed, toScan, scanned, keptCopy>>
        /\ fetched' \in {fetched, config[d]}
    BY DEF Fetch
  <1>2. /\ command \in Command /\ d \in Dashboard /\ mode[d] \in Mode
        /\ listed' \in [Dashboard -> Mode] /\ toScan' \subseteq Dashboard
        /\ fetched' \in Config \cup {NoConfig} /\ keptCopy' \in Config \cup {NoConfig}
    BY <1>1, CommandTyped DEF DashInv, DashTypeOK
  <1>3. ASSUME NEW what \in {"failed", "no stored config", "shown"}, Stop(what) PROVE DashInv'
    <2>1. what \in Outcome \ {"none", "no hits"}
      BY DEF Outcome
    <2>2. QED
      BY <1>1, <1>2, <1>3, <2>1, StopKept
  <1>4. CASE command.name # "show" /\ config[d] \notin Hit /\ Stop("unchanged")
    <2>1. "unchanged" \in Outcome \ {"none", "no hits"}
      BY DEF Outcome
    <2>2. ~Accepted(command)
      BY <1>1, <1>4 DEF Accepted, DashInv, Stored
    <2>3. QED
      BY <1>1, <1>2, <1>4, <2>1, <2>2, StopKept
  <1>5. CASE command.name # "show" /\ config[d] \in Hit /\ fetched' = config[d] /\ Plan("snapshot")
    <2>1. Accepted(command)
      BY <1>1, <1>2, <1>5, DashboardAssumption DEF Accepted, DashInv, Stored, Mode
    <2>2. QED
      BY <1>1, <1>2, <1>5, <2>1, PlanKept
  <1>6. QED
    BY <1>3, <1>4, <1>5 DEF Fetch

LEMMA SocketKeeps == DashInv /\ (LoseSocket \/ Snapshot) => DashInv'
  <1> SUFFICES ASSUME DashInv, LoseSocket \/ Snapshot PROVE DashInv'
    OBVIOUS
  <1>1. CASE LoseSocket
    BY <1>1, DashMoves DEF LoseSocket, previews, DashInv, DashTypeOK, Stored, RefusalsUnforeseen, dashHA
  <1>2. CASE Snapshot
    <2>1. /\ step = "snapshot" /\ Then("write")
          /\ UNCHANGED <<dashHA, command, socket, listed, fetched, toScan, scanned, sighted>>
      BY <1>2 DEF Snapshot, previews
    <2>2. command \in Command /\ keptCopy' \in Config \cup {NoConfig}
      BY <1>2, CommandTyped DEF Snapshot, DashInv, DashTypeOK
    <2>3. step' = "write" /\ result' = "none"
      BY <2>1 DEF Then, DashInv, RefusalsUnforeseen
    <2>4. QED
      BY <2>1, <2>2, <2>3, DashMoves DEF DashInv, DashTypeOK, Stored
  <1>3. QED
    BY <1>1, <1>2

LEMMA ScanKeeps == DashInv /\ (Scan \/ ReportScan) => DashInv'
  <1> SUFFICES ASSUME DashInv, Scan \/ ReportScan PROVE DashInv'
    OBVIOUS
  <1>1. CASE Scan
    <2>1. /\ step = "scan" /\ result = "none"
          /\ UNCHANGED <<dashHA, step, command, socket, listed, fetched, keptCopy>>
          /\ UNCHANGED <<result, sighted>>
      BY <1>1 DEF Scan, DashInv, RefusalsUnforeseen, previews
    <2>2. toScan' \subseteq Dashboard /\ scanned' \subseteq Dashboard \X (Config \cup {NoConfig})
      BY <1>1 DEF Scan, DashInv, DashTypeOK
    <2>3. DashTypeOK'
      BY <2>1, <2>2 DEF DashInv, DashTypeOK, dashHA
    <2>4. Stored' /\ StandingPreviews' /\ RefusalsUnforeseen' /\ NoHitsIsComplete'
      BY <2>1 DEF DashInv, Stored, StandingPreviews, Accepted, Gone, RefusalsUnforeseen,
                  NoHitsIsComplete, dashHA
    <2>5. QED
      BY <2>3, <2>4 DEF DashInv
  <1>2. CASE ReportScan
    <2>1. /\ step' = "ended"
          /\ UNCHANGED <<dashHA, command, socket, listed, fetched, toScan, scanned>>
          /\ UNCHANGED <<keptCopy, sighted>>
      BY <1>2 DEF ReportScan, End, previews
    <2>2. /\ result' \in {"incomplete", "hits", "no hits"}
          /\ result' = "no hits" => ~Hits /\ ~Partial
      BY <1>2 DEF ReportScan, End
    <2>3. DashTypeOK'
      BY <2>1, <2>2 DEF DashInv, DashTypeOK, dashHA, Outcome
    <2>4. Stored' /\ StandingPreviews' /\ RefusalsUnforeseen'
      BY <2>1, <2>2
         DEF DashInv, Stored, StandingPreviews, Accepted, Gone, RefusalsUnforeseen, dashHA
    <2>5. NoHitsIsComplete'
      <3> SUFFICES ASSUME result' = "no hits",
                          NEW d \in Dashboard, d = Default \/ Found(listed, d)
                   PROVE  \E c \in (Config \ Hit) \cup {NoConfig} : <<d, c>> \in scanned
        BY <2>1 DEF NoHitsIsComplete, Found
      <3>1. PICK p \in scanned : p[1] = d
        BY <2>2 DEF Partial, ScanTargets, Found
      <3>2. p[2] \notin Hit
        BY <2>2 DEF Hits
      <3>3. p = <<p[1], p[2]>> /\ p[2] \in Config \cup {NoConfig}
        BY ReadingParts DEF DashInv, DashTypeOK
      <3>4. QED
        BY <3>1, <3>2, <3>3
    <2>6. QED
      BY <2>3, <2>4, <2>5 DEF DashInv
  <1>3. QED
    BY <1>1, <1>2

\* A write by anyone leaves no preview standing, and pins no dashboard to a file.
LEMMA ChangesKeep ==
    ASSUME DashInv, sighted' = {}, UNCHANGED <<command, listed, scanned>>,
           DashTypeOK',
           \A d \in Dashboard : mode'[d] = "yaml" => mode[d] = "yaml",
           \A d \in Dashboard : mode'[d] = "unlisted" /\ d # Default => config'[d] = NoConfig,
           UNCHANGED fetched,
           \/ UNCHANGED <<step, result>>
           \/ step # "ended" /\ Then("recheck")
           \/ \E what \in {"done", "failed"} : End(what)
    PROVE  DashInv'
  <1>1. Stored'
    BY CommandTyped DEF DashInv, DashTypeOK, Stored, Then, End
  <1>2. StandingPreviews' /\ RefusalsUnforeseen' /\ NoHitsIsComplete'
    BY DEF DashInv, StandingPreviews, RefusalsUnforeseen, NoHitsIsComplete, Then, End
  <1>3. QED
    BY <1>1, <1>2 DEF DashInv

LEMMA WriteKeeps == DashInv /\ Write => DashInv'
  <1> SUFFICES ASSUME DashInv, Write PROVE DashInv'
    OBVIOUS
  <1> DEFINE d == command.url
  <1>1. /\ step = "write"
        /\ UNCHANGED <<command, socket, listed, fetched, toScan, scanned, keptCopy>>
        /\ command \in Command /\ d \in Dashboard
    BY CommandTyped DEF Write, DashInv, DashTypeOK
  <1>2. Then("recheck") \/ \E what \in {"done", "failed"} : End(what)
    BY DEF Write, WriteFails
  <1>3. CASE UNCHANGED <<dashHA, sighted>>
    <2>1. Then("recheck") \/ \E what \in Outcome \ {"none", "no hits"} : End(what)
      BY <1>2 DEF Outcome
    <2>2. /\ step' \in {"recheck", "ended"}
          /\ result' \notin {"refused", "not found", "exists", "unchanged"}
      BY <1>1, <1>2 DEF Then, End, DashInv, RefusalsUnforeseen
    <2>3. QED
      BY <1>1, <1>3, <2>1, <2>2, DashMoves DEF DashInv, DashTypeOK
  <1>4. CASE DashPermitted /\ Execute
    <2>1. sighted' = {}
      BY <1>4 DEF Execute
    <2>2. /\ mode' \in [Dashboard -> Mode] /\ config' \in [Dashboard -> Config \cup {NoConfig}]
          /\ \A e \in Dashboard : mode'[e] = "yaml" => mode[e] = "yaml"
          /\ \A e \in Dashboard : mode'[e] = "unlisted" /\ e # Default => config'[e] = NoConfig
      <3>1. CASE command.name \in {"save", "replace"}
        <4>1. UNCHANGED mode /\ (d = Default \/ mode[d] = "storage")
          BY <1>4, <3>1 DEF Execute, DashPermitted
        <4>2. \E c \in Config \cup {NoConfig} : config' = [config EXCEPT ![d] = c]
          BY <1>1, <1>4, <3>1, RewrittenTyped DEF Execute, DashInv, Stored
        <4>3. QED
          BY <1>1, <4>1, <4>2 DEF DashInv, DashTypeOK, Stored
      <3>2. CASE command.name = "create"
        <4>1. mode' = [mode EXCEPT ![d] = "storage"] /\ UNCHANGED config
          BY <1>4, <3>2 DEF Execute
        <4>2. QED
          BY <1>1, <4>1 DEF DashInv, DashTypeOK, Stored, Mode
      <3>3. CASE command.name \notin {"save", "replace", "create"}
        <4>1. /\ mode' = [mode EXCEPT ![d] = "unlisted"]
              /\ config' = [config EXCEPT ![d] = NoConfig]
          BY <1>4, <3>3 DEF Execute
        <4>2. QED
          BY <1>1, <4>1 DEF DashInv, DashTypeOK, Stored, Mode
      <3>4. QED
        BY <3>1, <3>2, <3>3
    <2>3. DashTypeOK'
      BY <1>1, <1>2, <2>2 DEF DashInv, DashTypeOK, Then, End, Outcome
    <2>4. QED
      BY <1>1, <1>2, <2>1, <2>2, <2>3, ChangesKeep
  <1>5. QED
    BY <1>3, <1>4 DEF Write, previews

LEMMA RecheckKeeps == DashInv /\ Recheck => DashInv'
  <1> SUFFICES ASSUME DashInv, Recheck PROVE DashInv'
    OBVIOUS
  <1>1. /\ step = "recheck" /\ \E what \in {"gone", "failed"} : End(what)
        /\ UNCHANGED <<dashHA, command, socket, fetched, toScan, scanned, keptCopy, sighted>>
        /\ listed' \in {mode, listed}
    BY DEF Recheck, previews
  <1>2. \E what \in Outcome \ {"none", "no hits"} : End(what)
    BY <1>1 DEF Outcome
  <1>3. step' = "ended" /\ result' \notin {"refused", "not found", "exists", "unchanged"}
    BY <1>1 DEF End
  <1>4. QED
    BY <1>1, <1>2, <1>3, DashMoves DEF DashInv, DashTypeOK

LEMMA EditElsewhereKeeps == DashInv /\ EditElsewhere => DashInv'
  <1> SUFFICES ASSUME DashInv, EditElsewhere PROVE DashInv'
    OBVIOUS
  <1>1. /\ sighted' = {}
        /\ UNCHANGED <<step, command, socket, listed, fetched, toScan, scanned, keptCopy, result>>
    BY DEF EditElsewhere
  <1>2. /\ mode' \in [Dashboard -> Mode] /\ config' \in [Dashboard -> Config \cup {NoConfig}]
        /\ \A e \in Dashboard : mode'[e] = "yaml" => mode[e] = "yaml"
        /\ \A e \in Dashboard : mode'[e] = "unlisted" /\ e # Default => config'[e] = NoConfig
    <2>1. PICK d \in Dashboard :
            \/ /\ mode[d] = "storage"
               /\ \E c \in Config \ {config[d]} : config' = [config EXCEPT ![d] = c]
               /\ UNCHANGED mode
            \/ /\ d # Default /\ mode[d] = "storage"
               /\ mode' = [mode EXCEPT ![d] = "unlisted"]
               /\ config' = [config EXCEPT ![d] = NoConfig]
            \/ /\ d # Default /\ mode[d] = "unlisted"
               /\ mode' = [mode EXCEPT ![d] = "storage"]
               /\ UNCHANGED config
      BY DEF EditElsewhere
    <2>2. QED
      BY <2>1 DEF DashInv, DashTypeOK, Stored, Mode
  <1>3. DashTypeOK'
    BY <1>1, <1>2 DEF DashInv, DashTypeOK
  <1>4. QED
    BY <1>1, <1>2, <1>3, ChangesKeep

LEMMA DashStepKeeps == DashInv /\ [DashNext]_dashVars => DashInv'
  <1>1. DashInv /\ UNCHANGED dashVars => DashInv'
    BY DEF dashVars, dashHA, previews, DashInv, DashTypeOK, Stored, StandingPreviews, Accepted,
           Gone, RefusalsUnforeseen, NoHitsIsComplete, Found
  <1>2. QED
    BY <1>1, InvokeDashKeeps, SocketKeeps, ListKeeps, FetchKeeps, ScanKeeps, WriteKeeps,
       RecheckKeeps, EditElsewhereKeeps DEF DashNext

\* Dashboards, their configurations and what a command has read of them have their types.
THEOREM DashTypeCorrect == DashSpec => []DashTypeOK
  BY DashBegins, DashStepKeeps, PTL DEF DashSpec, DashInv

\* H-2 for dashboards: a confirmed command whose preview passed and had the list of dashboards,
\* with nothing changed at Home Assistant since, is not refused for its target, and Home
\* Assistant accepts what it writes, although preview and write read the list over sockets of
\* their own.  A `dash create` previewed over a failed list is not among them: of that one the
\* same is false.
THEOREM DashPreviewsForetell == DashSpec => []SightedPreviewForetells
  <1>1. DashInv => SightedPreviewForetells
    <2> SUFFICES ASSUME DashInv, command.confirm, [command EXCEPT !.confirm = FALSE] \in sighted
                 PROVE  /\ result \notin {"refused", "not found", "exists", "unchanged"}
                        /\ step = "write" => DashPermitted
      BY DEF SightedPreviewForetells, GoesThrough
    <2>1. command \in Command
      BY DEF DashInv, DashTypeOK
    <2>2. Accepted(command)
      <3>1. Accepted([command EXCEPT !.confirm = FALSE])
        BY DEF DashInv, StandingPreviews
      <3>2. QED
        BY <2>1, <3>1, CommandTyped DEF Accepted
    <2>3. DashPermitted
      <3>1. command.name \in {"save", "replace", "create", "delete"}
        BY <2>1, CommandTyped
      <3>2. CASE command.name \in {"save", "replace"}
        BY <2>2, <3>2 DEF Accepted, DashPermitted
      <3>3. CASE command.name = "create"
        BY <2>2, <3>3 DEF Accepted, DashPermitted
      <3>4. CASE command.name = "delete"
        BY <2>2, <3>4 DEF Accepted, DashPermitted
      <3>5. QED
        BY <3>1, <3>2, <3>3, <3>4
    <2>4. QED
      BY <2>3 DEF DashInv, RefusalsUnforeseen
  <1>2. QED
    BY <1>1, DashBegins, DashStepKeeps, PTL DEF DashSpec

\* D-7: `dash grep` says that nothing was found only after it has read every dashboard of the
\* list and the default one; a lost socket or an unread dashboard is never an empty result.
THEOREM NoHitsComplete == DashSpec => []NoHitsIsComplete
  BY DashBegins, DashStepKeeps, PTL DEF DashSpec, DashInv

-----------------------------------------------------------------------------
(* Registries and devices: what a reference finds in a listing.               *)

LEMMA MinIsIn == \A S \in SUBSET Nat : S # {} => Min(S) \in S
  <1> SUFFICES ASSUME NEW S \in SUBSET Nat, S # {} PROVE Min(S) \in S
    OBVIOUS
  <1>1. PICK x \in S : \A y \in S : ~(<<y, x>> \in OpToRel(<, Nat))
    BY WFMin, NatLessThanWellFounded
  <1>2. ASSUME NEW y \in S PROVE x =< y
    <2>1. x \in Nat /\ y \in Nat /\ ~(y < x)
      BY <1>1 DEF OpToRel
    <2>2. QED
      BY <2>1
  <1>3. QED
    BY <1>2 DEF Min

LEMMA MaxIsIn == \A n \in Nat : \A S \in SUBSET (1 .. n) : S # {} => Max(S) \in S
  <1> SUFFICES ASSUME NEW n \in Nat, NEW S \in SUBSET (1 .. n), S # {} PROVE Max(S) \in S
    OBVIOUS
  <1> DEFINE T == {n - i : i \in S}
  <1>1. T \in SUBSET Nat /\ T # {}
    <2>1. \A i \in S : n - i \in Nat
      OBVIOUS
    <2>2. QED
      BY <2>1
  <1>2. PICK x \in T : \A y \in T : ~(<<y, x>> \in OpToRel(<, Nat))
    BY <1>1, WFMin, NatLessThanWellFounded
  <1>3. PICK i \in S : x = n - i
    OBVIOUS
  <1>4. ASSUME NEW j \in S PROVE i >= j
    <2>1. n - j \in T /\ n - j \in Nat
      OBVIOUS
    <2>2. ~(n - j < n - i)
      BY <1>1, <1>2, <1>3, <2>1 DEF OpToRel
    <2>3. QED
      BY <2>2
  <1>5. QED
    BY <1>4 DEF Max

LEMMA EntryOf ==
    ASSUME NEW s \in Seq(RegEntry), NEW i \in DOMAIN s
    PROVE  s[i] \in RegEntry /\ s[i].id \in Text /\ s[i].id \in Ids(s)
  <1>1. s[i] \in RegEntry
    BY LenProperties
  <1>2. QED
    BY <1>1 DEF RegEntry, Ids

LEMMA FoundInList ==
    ASSUME NEW s \in Seq(RegEntry), NEW w, Candidates(s, w) # {}
    PROVE  /\ resolveRegistryTarget(s, w) \in Text \cap Ids(s)
           /\ resolveAreaEntry(s, w) \in Text \cap Ids(s)
           /\ labelIndex(s, w) \in Text \cap Ids(s)
  <1>1. /\ Len(s) \in Nat /\ DOMAIN s = 1 .. Len(s)
        /\ ById(s, w) \subseteq DOMAIN s /\ Candidates(s, w) \subseteq DOMAIN s
        /\ DOMAIN s \subseteq Nat
    BY LenProperties DEF ById, Candidates
  <1>2. /\ Min(IF ById(s, w) # {} THEN ById(s, w) ELSE Candidates(s, w)) \in DOMAIN s
        /\ Min(Candidates(s, w)) \in DOMAIN s
    <2>1. CASE ById(s, w) # {}
      BY <1>1, <2>1, MinIsIn
    <2>2. CASE ById(s, w) = {}
      BY <1>1, <2>2, MinIsIn
    <2>3. QED
      BY <2>1, <2>2
  <1>3. Max(Candidates(s, w)) \in DOMAIN s
    BY <1>1, MaxIsIn
  <1>4. QED
    BY <1>2, <1>3, EntryOf DEF resolveRegistryTarget, resolveAreaEntry, labelIndex

LEMMA IdsCounted ==
    ASSUME NEW s \in Seq(RegEntry)
    PROVE  IsFiniteSet(Ids(s)) /\ Cardinality(Ids(s)) <= Len(s) /\ Ids(s) \subseteq Text
  <1> DEFINE f == [i \in 1 .. Len(s) |-> s[i].id]
  <1>1. Len(s) \in Nat /\ DOMAIN s = 1 .. Len(s)
    BY LenProperties
  <1>2. f \in Surjection(1 .. Len(s), Ids(s))
    BY <1>1 DEF Surjection, Ids
  <1>3. IsFiniteSet(1 .. Len(s)) /\ Cardinality(1 .. Len(s)) = Len(s)
    BY <1>1, FS_Interval
  <1>4. IsFiniteSet(Ids(s)) /\ Cardinality(Ids(s)) <= Len(s)
    BY <1>2, <1>3, FS_Surjection
  <1>5. QED
    BY <1>4, EntryOf DEF Ids

\* The entries of a listing have ids of their own.
Distinct(s) == s \in Seq(RegEntry) /\ Cardinality(Ids(s)) = Len(s)

LEMMA CreatedDistinct ==
    ASSUME NEW s, Distinct(s), NEW e \in RegEntry, e.id \notin Ids(s)
    PROVE  Distinct(Append(s, e))
  <1>1. Len(s) \in Nat /\ DOMAIN s = 1 .. Len(s)
    BY LenProperties DEF Distinct
  <1>2. /\ Append(s, e) \in Seq(RegEntry) /\ Len(Append(s, e)) = Len(s) + 1
        /\ \A i \in 1 .. Len(s) : Append(s, e)[i] = s[i]
        /\ Append(s, e)[Len(s) + 1] = e
        /\ DOMAIN Append(s, e) = 1 .. Len(s) + 1
    BY AppendProperties, LenProperties DEF Distinct
  <1>3. Ids(Append(s, e)) = Ids(s) \cup {e.id}
    BY <1>1, <1>2 DEF Ids
  <1>4. Cardinality(Ids(s) \cup {e.id}) = Len(s) + 1
    BY <1>1, IdsCounted, FS_AddElement DEF Distinct
  <1>5. QED
    BY <1>2, <1>3, <1>4 DEF Distinct

LEMMA DeletedDistinct ==
    ASSUME NEW s, Distinct(s), NEW k \in DOMAIN s
    PROVE  Distinct(RemoveAt(s, k))
  <1> DEFINE l == SubSeq(s, 1, k - 1)
             r == SubSeq(s, k + 1, Len(s))
             t == RemoveAt(s, k)
  <1>1. /\ s \in Seq(RegEntry) /\ Len(s) \in Nat /\ DOMAIN s = 1 .. Len(s)
        /\ k \in 1 .. Len(s) /\ \A i \in 1 .. Len(s) : s[i] \in RegEntry
    BY LenProperties DEF Distinct
  <1>2. /\ l \in Seq(RegEntry) /\ Len(l) = k - 1
        /\ \A i \in 1 .. k - 1 : l[i] = s[i]
    <2>1. \A i \in 1 .. k - 1 : s[i] \in RegEntry
      BY <1>1
    <2>2. /\ l \in Seq(RegEntry) /\ Len(l) = IF 1 <= k - 1 THEN (k - 1) - 1 + 1 ELSE 0
          /\ \A i \in 1 .. (k - 1) - 1 + 1 : l[i] = s[1 + i - 1]
      BY <1>1, <2>1, SubSeqProperties
    <2>3. QED
      BY <1>1, <2>2
  <1>3. /\ r \in Seq(RegEntry) /\ Len(r) = Len(s) - k
        /\ \A i \in 1 .. Len(s) - k : r[i] = s[k + i]
    <2>1. \A i \in k + 1 .. Len(s) : s[i] \in RegEntry
      BY <1>1
    <2>2. /\ r \in Seq(RegEntry)
          /\ Len(r) = IF k + 1 <= Len(s) THEN Len(s) - (k + 1) + 1 ELSE 0
          /\ \A i \in 1 .. Len(s) - (k + 1) + 1 : r[i] = s[(k + 1) + i - 1]
      BY <1>1, <2>1, SubSeqProperties
    <2> HIDE DEF r
    <2>3. /\ Len(s) - (k + 1) + 1 = Len(s) - k
          /\ (IF k + 1 <= Len(s) THEN Len(s) - (k + 1) + 1 ELSE 0) = Len(s) - k
          /\ \A i \in 1 .. Len(s) - k : (k + 1) + i - 1 = k + i
      BY <1>1
    <2>4. QED
      BY <2>2, <2>3
  <1> HIDE DEF l, r
  <1>4. /\ t \in Seq(RegEntry) /\ Len(t) = Len(s) - 1
        /\ \A i \in 1 .. Len(s) - 1 : t[i] = IF i < k THEN s[i] ELSE s[i + 1]
    <2>1. t = l \o r
      BY DEF RemoveAt, l, r
    <2>2. /\ t \in Seq(RegEntry) /\ Len(t) = Len(l) + Len(r)
          /\ \A i \in 1 .. Len(l) + Len(r) : t[i] = IF i <= Len(l) THEN l[i] ELSE r[i - Len(l)]
      <3>1. l \in Seq(RegEntry) /\ r \in Seq(RegEntry)
        BY <1>2, <1>3
      <3> HIDE DEF t
      <3>2. QED
        BY <2>1, <3>1, ConcatProperties
    <2>3. ASSUME NEW i \in 1 .. Len(s) - 1 PROVE t[i] = IF i < k THEN s[i] ELSE s[i + 1]
      <3>1. CASE i < k
        BY <1>1, <1>2, <1>3, <2>2, <3>1
      <3>2. CASE i >= k
        <4>1. i - (k - 1) \in 1 .. Len(s) - k /\ k + (i - (k - 1)) = i + 1
          BY <1>1, <3>2
        <4>2. t[i] = r[i - (k - 1)]
          BY <1>1, <1>2, <1>3, <2>2, <3>2
        <4>3. QED
          BY <1>3, <3>2, <4>1, <4>2
      <3>3. QED
        BY <1>1, <3>1, <3>2
    <2>4. QED
      BY <1>1, <1>2, <1>3, <2>2, <2>3
  <1> HIDE DEF t
  <1>5. Ids(s) \subseteq Ids(t) \cup {s[k].id}
    <2> SUFFICES ASSUME NEW j \in 1 .. Len(s), j # k PROVE s[j].id \in Ids(t)
      BY <1>1 DEF Ids
    <2>1. DOMAIN t = 1 .. Len(s) - 1
      BY <1>4, LenProperties
    <2>2. CASE j < k
      BY <1>1, <1>4, <2>1, <2>2 DEF Ids
    <2>3. CASE j > k
      <3>1. j - 1 \in 1 .. Len(s) - 1 /\ t[j - 1] = s[j]
        BY <1>1, <1>4, <2>3
      <3>2. QED
        BY <2>1, <3>1 DEF Ids
    <2>4. QED
      BY <1>1, <2>2, <2>3
  <1>6. /\ IsFiniteSet(Ids(t)) /\ Cardinality(Ids(t)) <= Len(s) - 1 /\ Cardinality(Ids(t)) \in Nat
        /\ IsFiniteSet(Ids(t) \cup {s[k].id})
        /\ Cardinality(Ids(t) \cup {s[k].id}) <= Cardinality(Ids(t)) + 1
    <2>1. IsFiniteSet(Ids(t)) /\ Cardinality(Ids(t)) <= Len(s) - 1
      BY <1>4, IdsCounted
    <2>2. Cardinality(Ids(t)) \in Nat
      BY <2>1, FS_CardinalityType
    <2>3. QED
      <3>1. /\ IsFiniteSet(Ids(t) \cup {s[k].id})
            /\ Cardinality(Ids(t) \cup {s[k].id}) =
                  IF s[k].id \in Ids(t) THEN Cardinality(Ids(t)) ELSE Cardinality(Ids(t)) + 1
        BY <2>1, FS_AddElement
      <3>2. QED
        BY <2>1, <2>2, <3>1
  <1>7. Len(s) <= Cardinality(Ids(t) \cup {s[k].id})
    BY <1>5, <1>6, FS_Subset DEF Distinct
  <1>8. Cardinality(Ids(t)) = Len(s) - 1
    BY <1>1, <1>6, <1>7, FS_CardinalityType
  <1>9. QED
    BY <1>4, <1>8 DEF Distinct, t

LEMMA RenamedDistinct ==
    ASSUME NEW s, Distinct(s), NEW k \in DOMAIN s, NEW n \in Text
    PROVE  Distinct([s EXCEPT ![k].name = n])
  <1> DEFINE t == [s EXCEPT ![k].name = n]
  <1>1. /\ s \in Seq(RegEntry) /\ Len(s) \in Nat /\ DOMAIN s = 1 .. Len(s) /\ k \in 1 .. Len(s)
        /\ s[k] \in RegEntry
    BY LenProperties DEF Distinct
  <1>2. [s[k] EXCEPT !.name = n] \in RegEntry /\ [s[k] EXCEPT !.name = n].id = s[k].id
    BY <1>1 DEF RegEntry
  <1>3. t = [s EXCEPT ![k] = [s[k] EXCEPT !.name = n]]
    OBVIOUS
  <1>4. /\ t \in Seq(RegEntry) /\ Len(t) = Len(s)
        /\ \A j \in 1 .. Len(s) : t[j] = IF j = k THEN [s[k] EXCEPT !.name = n] ELSE s[j]
    BY <1>1, <1>2, <1>3, ExceptSeq
  <1>5. DOMAIN t = DOMAIN s /\ \A j \in DOMAIN s : t[j].id = s[j].id
    BY <1>1, <1>2, <1>4
  <1> HIDE DEF t
  <1>6. Ids(t) = Ids(s)
    BY <1>5 DEF Ids
  <1>7. QED
    BY <1>4, <1>6 DEF Distinct, t

-----------------------------------------------------------------------------
(* The processes that write a registry.                                       *)

\* What a command refers to in the listing it reads.
Wanted(c) == IF c.name = "label" THEN c.add \cup c.remove ELSE c.add

\* A command's plan as it would be made now, with nothing to refuse it for.
Foretold(c, plan) ==
    /\ Resolves(registry, Wanted(c))
    /\ c.name = "label" => ~refuseAddRemoveOverlap(registry, c)
    /\ IF c.name = "delete"
       THEN plan = {resolveRegistryTarget(registry, w) : w \in c.add}
       ELSE c.target \in known /\ plan = Planned(c, registry)

\* What a run's record says of the command, of the lock and, while nothing has changed at
\* Home Assistant, of what it will write.
Suits(p, x) ==
    LET c == x.command
        planned == x.step \in {"plan", "await"}
        fresh == x.still \/ x.promised # None
    IN  /\ c.name = "create" => x.plan = c.add
        /\ planned => x.plan \subseteq Text
        /\ x.step = "blank" => c.name = "create"
        /\ x.step \in {"list", "target"} => c.name # "create"
        /\ x.step = "target" =>
              /\ c.name \in {"label", "area", "clear"}
              /\ Resolves(x.seen, Wanted(c))
              /\ fresh => /\ x.seen = registry \/ (c.name # "label" /\ c.add = {})
                          /\ Resolves(registry, Wanted(c))
                          /\ c.name = "label" => ~refuseAddRemoveOverlap(registry, c)
        /\ x.step = "await" => c.confirm
        /\ c.confirm /\ x.step # "lock" => holder = p
        /\ planned /\ c.name = "label" /\ c.confirm /\ ~x.disturbed =>
              x.plan = applyLabelDelta(carried[c.target], x.seen, c)
        /\ planned /\ c.name # "create" /\ x.still => Foretold(c, x.plan)
        /\ c.name # "create" /\ x.promised # None =>
              /\ Foretold(c, x.promised)
              /\ planned => x.plan = x.promised

Fits(p) == run[p] \in Run => Suits(p, run[p])

WireRequest == [by : Proc \cup {None}, name : {"label", "area", "clear", "create", "delete"},
                target : Target, plan : SUBSET Text]

\* A request on the wire is the one its sender waits for, or nobody waits for it.
InFlight ==
    \A r \in wire : r.by \in Proc => At(r.by, "await") /\ r = Request(r.by)

PreviewTyped == rforeseen \in {None} \cup [asked : RegCommand, plan : SUBSET (Text \cup {Blank})]
PreviewHolds ==
    rforeseen # None /\ rforeseen.asked.name # "create" =>
        Foretold(rforeseen.asked, rforeseen.plan)

RegInv ==
    /\ RegTypeOK /\ PreviewTyped /\ PreviewHolds
    /\ wire \subseteq WireRequest /\ InFlight
    /\ \A p \in Proc : Fits(p)

LEMMA RegBegins == RegInit => RegInv
  <1> SUFFICES ASSUME RegInit PROVE RegInv
    OBVIOUS
  <1>1. Distinct(registry)
    <2>1. Ids(<<>>) = {}
      BY DEF Ids
    <2>2. Cardinality({}) = 0 /\ <<>> \in Seq(RegEntry) /\ Len(<<>>) = 0
      BY FS_EmptySet, EmptySeq
    <2>3. QED
      BY <2>1, <2>2 DEF RegInit, Distinct
  <1>2. RegTypeOK
    BY <1>1 DEF RegInit, RegTypeOK, Distinct
  <1>3. Idle \notin Run
    BY DEF Idle, Run
  <1>4. QED
    BY <1>2, <1>3 DEF RegInit, RegInv, PreviewTyped, PreviewHolds, InFlight, Fits

LEMMA StepOfRun ==
    ASSUME RegTypeOK, NEW p \in Proc
    PROVE  /\ run[p] \in Run <=> run[p].step \notin {"idle", "refused"}
           /\ run[p] \notin Run <=> run[p] \in {Idle, Refused}
           /\ Idle \notin Run /\ Refused \notin Run
  <1>1. Idle \notin Run /\ Refused \notin Run /\ Idle.step = "idle" /\ Refused.step = "refused"
    BY DEF Idle, Refused, Run
  <1>2. run[p] \in Run \cup {Idle, Refused}
    BY DEF RegTypeOK
  <1>3. run[p] \in Run => run[p].step \in {"lock", "blank", "list", "target", "plan", "await"}
    BY DEF Run
  <1>4. QED
    BY <1>1, <1>2, <1>3

\* A process steps and Home Assistant's registries stay.
LEMMA OwnStep ==
    ASSUME RegInv, NEW p \in Proc, UNCHANGED regHA,
           NEW x \in Run \cup {Idle, Refused}, run' = [run EXCEPT ![p] = x],
           holder' \in Proc \cup {None}, \A q \in Proc \ {p} : holder = q => holder' = q,
           Fits(p)',
           wire' \subseteq WireRequest, InFlight',
           PreviewTyped', PreviewHolds'
    PROVE  RegInv'
  <1>1. RegTypeOK'
    BY DEF RegInv, RegTypeOK, regHA
  <1>2. ASSUME NEW q \in Proc \ {p} PROVE Fits(q)'
    <2>1. run'[q] = run[q] /\ Fits(q)
      BY DEF RegInv, RegTypeOK
    <2>2. QED
      BY <2>1 DEF Fits, Suits, Asks, Foretold, Planned, regHA
  <1>3. QED
    BY <1>1, <1>2 DEF RegInv

LEMMA PreviewKept ==
    ASSUME PreviewTyped, PreviewHolds, UNCHANGED <<regHA, rforeseen>>
    PROVE  PreviewTyped' /\ PreviewHolds'
  BY DEF PreviewTyped, PreviewHolds, Foretold, Planned, regHA

LEMMA SuitsKept ==
    ASSUME NEW p, NEW x, Suits(p, x), UNCHANGED regHA, holder = p => holder' = p
    PROVE  Suits(p, x)'
  BY DEF Suits, Foretold, Planned, regHA

LEMMA FitsFrom ==
    ASSUME NEW p, NEW x, run'[p] = x, Suits(p, x)'
    PROVE  Fits(p)'
  BY DEF Fits, Suits, Foretold, Planned

\* The lock is taken: all that was promised still stands.
LEMMA SuitsLocked ==
    ASSUME NEW p, NEW x, NEW y, Suits(p, y), y.step = "lock", UNCHANGED regHA, holder' = p,
           x.command = y.command, x.plan = y.plan, x.promised = y.promised, x.still = y.still,
           x.step \in {"blank", "list", "plan"}, x.step = "blank" => x.command.name = "create",
           x.step = "list" => x.command.name # "create",
           x.step = "plan" => x.command.name = "create" /\ x.plan \subseteq Text
    PROVE  Suits(p, x)'
  BY DEF Suits, Foretold, Planned, regHA

\* No request of a process that is not waiting is on the wire.
LEMMA NotWaiting ==
    ASSUME RegInv, NEW p \in Proc, ~At(p, "await"), UNCHANGED wire,
           NEW x, run' = [run EXCEPT ![p] = x]
    PROVE  InFlight' /\ wire' \subseteq WireRequest
  <1> SUFFICES ASSUME NEW r \in wire, r.by \in Proc
               PROVE  At(r.by, "await")' /\ r = Request(r.by)'
    BY DEF RegInv, InFlight, WireRequest
  <1>1. At(r.by, "await") /\ r = Request(r.by)
    BY DEF RegInv, InFlight
  <1>2. r.by # p
    BY <1>1
  <1>3. run'[r.by] = run[r.by]
    BY <1>2 DEF RegInv, RegTypeOK
  <1>4. QED
    BY <1>1, <1>3 DEF At, Request, Asks

LEMMA StopKeeps ==
    ASSUME RegInv, NEW p \in Proc, NEW how \in {Idle, Refused}, Stops(p, how),
           wire' \subseteq WireRequest, InFlight', PreviewTyped', PreviewHolds', UNCHANGED regHA
    PROVE  RegInv'
  <1>1. /\ run' = [run EXCEPT ![p] = how] /\ holder' \in Proc \cup {None}
        /\ \A q \in Proc \ {p} : holder = q => holder' = q
    BY DEF Stops, RegInv, RegTypeOK
  <1>2. run'[p] \notin Run
    BY <1>1, StepOfRun DEF RegInv, RegTypeOK
  <1>3. Fits(p)'
    BY <1>2 DEF Fits, Suits
  <1>4. QED
    BY <1>1, <1>3, OwnStep

LEMMA LeavingKeeps ==
    ASSUME RegInv, NEW p \in Proc, RefuseBlank(p) \/ Fail(p) PROVE RegInv'
  <1>1. /\ ~At(p, "await") /\ UNCHANGED <<regHA, wire, rforeseen>>
        /\ \E how \in {Idle, Refused} : Stops(p, how)
    BY DEF RefuseBlank, Fail, At
  <1>2. InFlight' /\ wire' \subseteq WireRequest
    BY <1>1, NotWaiting DEF Stops
  <1>3. PreviewTyped' /\ PreviewHolds'
    BY <1>1, PreviewKept DEF RegInv
  <1>4. QED
    BY <1>1, <1>2, <1>3, StopKeeps

LEMMA CommandParts ==
    ASSUME NEW c \in RegCommand
    PROVE  /\ [c EXCEPT !.confirm = FALSE] \in RegCommand
           /\ c.name \in {"label", "area", "clear", "create", "delete"} /\ c.target \in Target
           /\ c.add \in SUBSET (Text \cup {Blank}) /\ c.remove \in SUBSET Text
           /\ c.confirm \in BOOLEAN
           /\ [c EXCEPT !.confirm = FALSE].name = c.name
           /\ [c EXCEPT !.confirm = FALSE].target = c.target
           /\ [c EXCEPT !.confirm = FALSE].add = c.add
           /\ [c EXCEPT !.confirm = FALSE].remove = c.remove
  BY DEF RegCommand

\* Whether a command confirms is no part of its plan.
LEMMA SamePlan ==
    ASSUME NEW c \in RegCommand, NEW plan
    PROVE  Foretold([c EXCEPT !.confirm = FALSE], plan) <=> Foretold(c, plan)
  BY CommandParts
     DEF Foretold, Wanted, refuseAddRemoveOverlap, Planned, applyLabelDelta

LEMMA CallKeeps == ASSUME RegInv, NEW p \in Proc, Call(p) PROVE RegInv'
  <1>1. /\ run[p] \in {Idle, Refused} /\ UNCHANGED <<regHA, wire, holder, rforeseen>>
        /\ RegTypeOK /\ PreviewTyped /\ PreviewHolds
    BY DEF Call, RegInv
  <1>2. PICK c \in Asked[p] :
          run' = [run EXCEPT ![p] =
                [step |-> IF LocksFirst(c) THEN "lock" ELSE FirstOf(c), command |-> c,
                 seen |-> <<>>,
                 plan |-> IF c.name = "create" THEN c.add ELSE {},
                 promised |-> IF rforeseen # None /\ rforeseen.asked = [c EXCEPT !.confirm = FALSE]
                              THEN rforeseen.plan ELSE None,
                 still |-> ~c.confirm, disturbed |-> FALSE]]
    BY DEF Call
  <1> DEFINE x == [step |-> IF LocksFirst(c) THEN "lock" ELSE FirstOf(c), command |-> c,
                 seen |-> <<>>,
                 plan |-> IF c.name = "create" THEN c.add ELSE {},
                 promised |-> IF rforeseen # None /\ rforeseen.asked = [c EXCEPT !.confirm = FALSE]
                              THEN rforeseen.plan ELSE None,
                 still |-> ~c.confirm, disturbed |-> FALSE]
  <1>3. c \in RegCommand
    BY RegistryAssumption
  <1>4. /\ x.step \in {"lock", "blank", "list", "plan"} /\ x.command = c /\ x.seen = <<>>
        /\ x.step = "lock" <=> c.confirm
        /\ x.step = "plan" => c.name = "create" /\ Blank \notin c.add
        /\ x.step = "blank" => c.name = "create"
        /\ x.step = "list" => c.name # "create"
        /\ x.plan = IF c.name = "create" THEN c.add ELSE {}
        /\ x.promised = IF rforeseen # None /\ rforeseen.asked = [c EXCEPT !.confirm = FALSE]
                        THEN rforeseen.plan ELSE None
        /\ x.still = ~c.confirm /\ x.disturbed = FALSE
    BY <1>3, CommandParts DEF LocksFirst, FirstOf
  <1>5. x.promised \in {None} \cup SUBSET (Text \cup {Blank})
    BY <1>1, <1>4 DEF PreviewTyped
  <1>6. x \in Run
    <2>1. <<>> \in Seq(RegEntry) /\ x.plan \in SUBSET (Text \cup {Blank}) /\ x.still \in BOOLEAN
      BY <1>3, <1>4, CommandParts, EmptySeq
    <2>2. QED
      BY <1>3, <1>4, <1>5, <2>1 DEF Run
  <1>7. c.name # "create" /\ x.promised # None => Foretold(c, x.promised)
    <2> SUFFICES ASSUME c.name # "create", x.promised # None PROVE Foretold(c, x.promised)
      OBVIOUS
    <2>1. /\ rforeseen # None /\ rforeseen.asked = [c EXCEPT !.confirm = FALSE]
          /\ x.promised = rforeseen.plan
      BY <1>4
    <2>2. Foretold([c EXCEPT !.confirm = FALSE], rforeseen.plan)
      BY <1>1, <1>3, <2>1, CommandParts DEF PreviewHolds
    <2>3. QED
      BY <1>3, <2>1, <2>2, SamePlan
  <1> HIDE DEF x
  <1>8. run' = [run EXCEPT ![p] = x] /\ run'[p] = x
    BY <1>1, <1>2 DEF x, RegTypeOK
  <1>9. Fits(p)'
    <2>1. c.name # "create" /\ x.promised # None =>
             /\ Resolves(registry', Wanted(c))
             /\ c.name = "label" => ~refuseAddRemoveOverlap(registry', c)
             /\ IF c.name = "delete"
                THEN x.promised = {resolveRegistryTarget(registry', w) : w \in c.add}
                ELSE c.target \in known' /\ x.promised = Planned(c, registry)'
      BY <1>1, <1>7 DEF Foretold, Planned, regHA
    <2>2. x.step = "plan" => x.plan \subseteq Text
      BY <1>3, <1>4, CommandParts
    <2>3. QED
      BY <1>3, <1>4, <1>8, <2>1, <2>2, CommandParts DEF Fits, Suits, Asks, Foretold, Planned
  <1>10. InFlight' /\ wire' \subseteq WireRequest
    <2>1. ~At(p, "await")
      BY <1>1 DEF At, Idle, Refused
    <2>2. QED
      BY <1>1, <1>8, <2>1, NotWaiting
  <1>11. PreviewTyped' /\ PreviewHolds'
    BY <1>1, PreviewKept
  <1>12. QED
    BY <1>1, <1>6, <1>8, <1>9, <1>10, <1>11, OwnStep DEF RegTypeOK

LEMMA LockKeeps == ASSUME RegInv, NEW p \in Proc, Lock(p) PROVE RegInv'
  <1> DEFINE x == [run[p] EXCEPT !.step = FirstOf(Asks(p))]
  <1>1. /\ run[p].step = "lock" /\ holder = None /\ holder' = p
        /\ run' = [run EXCEPT ![p] = x] /\ UNCHANGED <<regHA, wire, rforeseen>>
        /\ RegTypeOK /\ PreviewTyped /\ PreviewHolds /\ Fits(p)
    BY DEF Lock, At, RegInv
  <1>2. run[p] \in Run
    BY <1>1, StepOfRun
  <1>3. /\ x \in Run /\ x.command = Asks(p) /\ x.seen = run[p].seen /\ x.plan = run[p].plan
        /\ x.promised = run[p].promised /\ x.still = run[p].still /\ x.disturbed = run[p].disturbed
        /\ x.step \in {"blank", "list", "plan"}
        /\ x.step = "plan" => Asks(p).name = "create" /\ Blank \notin Asks(p).add
        /\ x.step = "blank" => Asks(p).name = "create"
        /\ x.step = "list" => Asks(p).name # "create"
    BY <1>2 DEF Run, FirstOf, Asks
  <1> HIDE DEF x
  <1>4. run'[p] = x /\ Asks(p) \in RegCommand
    BY <1>1, <1>2 DEF RegTypeOK, Run, Asks
  <1>5. Fits(p)'
    <2>1. Suits(p, run[p])
      BY <1>1, <1>2 DEF Fits
    <2>2. Asks(p).name = "create" => run[p].plan = Asks(p).add
      BY <2>1 DEF Suits, Asks
    <2>3. ASSUME x.step = "plan" PROVE x.plan \subseteq Text
      <3>1. Asks(p).add \in SUBSET (Text \cup {Blank})
        BY <1>4, CommandParts
      <3>2. QED
        BY <1>3, <2>2, <2>3, <3>1
    <2>4. x.step = "plan" => x.command.name = "create" /\ x.plan \subseteq Text
      BY <1>3, <2>3
    <2>5. x.command = run[p].command
      BY <1>3 DEF Asks
    <2>6. QED
      BY <1>1, <1>3, <1>4, <2>1, <2>4, <2>5, SuitsLocked, FitsFrom
  <1>6. InFlight' /\ wire' \subseteq WireRequest
    BY <1>1, NotWaiting DEF At
  <1>7. PreviewTyped' /\ PreviewHolds'
    BY <1>1, PreviewKept
  <1>8. QED
    BY <1>1, <1>3, <1>5, <1>6, <1>7, OwnStep, RegistryAssumption

\* A listing that refuses, or a target that is not there.
LEMMA RefusalKeeps ==
    ASSUME RegInv, NEW p \in Proc, run[p].step # "await", Stops(p, Refused),
           UNCHANGED <<regHA, wire, rforeseen>>
    PROVE  RegInv'
  <1>1. InFlight' /\ wire' \subseteq WireRequest
    BY NotWaiting DEF Stops, At
  <1>2. PreviewTyped' /\ PreviewHolds'
    BY PreviewKept DEF RegInv
  <1>3. QED
    BY <1>1, <1>2, StopKeeps

\* A step of a run that goes on.
LEMMA GoingOnKeeps ==
    ASSUME RegInv, NEW p \in Proc, run[p] \in Run, run[p].step # "await",
           UNCHANGED <<regHA, wire, rforeseen, holder>>,
           NEW x \in Run, run' = [run EXCEPT ![p] = x], Fits(p)'
    PROVE  RegInv'
  <1>1. InFlight' /\ wire' \subseteq WireRequest
    BY NotWaiting DEF At
  <1>2. PreviewTyped' /\ PreviewHolds'
    BY PreviewKept DEF RegInv
  <1>3. holder' \in Proc \cup {None}
    BY DEF RegInv, RegTypeOK
  <1>4. QED
    BY <1>1, <1>2, <1>3, OwnStep

LEMMA ListTargetKeeps ==
    ASSUME RegInv, NEW p \in Proc, ListLabels(p) \/ ListAreas(p) PROVE RegInv'
  <1>1. /\ run[p].step = "list" /\ UNCHANGED <<regHA, wire, rforeseen>>
        /\ RegTypeOK /\ Fits(p)
    BY DEF ListLabels, ListAreas, At, RegInv
  <1>2. run[p] \in Run /\ registry \in Seq(RegEntry)
    BY <1>1, StepOfRun DEF RegTypeOK
  <1>3. CASE Stops(p, Refused)
    BY <1>1, <1>3, RefusalKeeps
  <1>4. ASSUME NEW seen \in {registry, <<>>}, Reads(p, "target", seen, {}),
               Asks(p).name \in {"label", "area", "clear"},
               Resolves(registry, Wanted(Asks(p))), Resolves(seen, Wanted(Asks(p))),
               Asks(p).name = "label" => ~refuseAddRemoveOverlap(registry, Asks(p)),
               seen = registry \/ (Asks(p).name # "label" /\ Asks(p).add = {})
        PROVE  RegInv'
    <2> DEFINE x == [run[p] EXCEPT !.step = "target", !.seen = seen, !.plan = {}]
    <2>1. /\ x \in Run /\ x.command = Asks(p) /\ x.seen = seen
          /\ x.promised = run[p].promised /\ x.still = run[p].still
          /\ x.step = "target" /\ x.plan = {}
      <3>1. seen \in Seq(RegEntry)
        BY <1>2, EmptySeq
      <3>2. QED
        BY <1>2, <3>1 DEF Run, Asks
    <2>2. run' = [run EXCEPT ![p] = x] /\ UNCHANGED holder
      BY <1>4 DEF Reads
    <2> HIDE DEF x
    <2>3. run'[p] = x
      BY <1>1, <2>2 DEF RegTypeOK
    <2>4. Fits(p)'
      <3>1. Suits(p, run[p])
        BY <1>1, <1>2 DEF Fits
      <3>2. Suits(p, x)
        BY <1>1, <1>4, <2>1, <3>1 DEF Suits, Asks
      <3>3. QED
        BY <1>1, <2>2, <2>3, <3>2, SuitsKept, FitsFrom
    <2>5. QED
      BY <1>1, <1>2, <2>1, <2>2, <2>4, GoingOnKeeps
  <1>5. CASE ListLabels(p)
    BY <1>3, <1>4, <1>5 DEF ListLabels, Wanted
  <1>6. CASE ListAreas(p)
    <2>1. Wanted(Asks(p)) = Asks(p).add
      BY <1>6 DEF ListAreas, Wanted
    <2>2. CASE Asks(p).add = {}
      BY <1>3, <1>4, <1>6, <2>1, <2>2 DEF ListAreas, Resolves
    <2>3. CASE Asks(p).add # {}
      BY <1>3, <1>4, <1>6, <2>1, <2>3 DEF ListAreas
    <2>4. QED
      BY <2>2, <2>3
  <1>7. QED
    BY <1>5, <1>6

LEMMA ListEntriesKeeps == ASSUME RegInv, NEW p \in Proc, ListEntries(p) PROVE RegInv'
  <1>1. /\ run[p].step = "list" /\ Asks(p).name = "delete" /\ UNCHANGED <<regHA, wire, rforeseen>>
        /\ RegTypeOK /\ Fits(p)
    BY DEF ListEntries, At, RegInv
  <1>2. run[p] \in Run /\ registry \in Seq(RegEntry)
    BY <1>1, StepOfRun DEF RegTypeOK
  <1>3. CASE Stops(p, Refused)
    BY <1>1, <1>3, RefusalKeeps
  <1>4. CASE /\ Resolves(registry, Asks(p).add)
             /\ Reads(p, "plan", <<>>, {resolveRegistryTarget(registry, w) : w \in Asks(p).add})
    <2> DEFINE plan == {resolveRegistryTarget(registry, w) : w \in Asks(p).add}
               x == [run[p] EXCEPT !.step = "plan", !.seen = <<>>, !.plan = plan]
    <2>1. plan \subseteq Text
      BY <1>2, <1>4, FoundInList DEF Resolves
    <2>2. Foretold(Asks(p), plan)
      BY <1>1, <1>4 DEF Foretold, Wanted
    <2>3. run' = [run EXCEPT ![p] = x] /\ UNCHANGED holder
      BY <1>4 DEF Reads
    <2> HIDE DEF plan
    <2>4. /\ x \in Run /\ x.command = Asks(p) /\ x.plan = plan
          /\ x.promised = run[p].promised /\ x.still = run[p].still /\ x.step = "plan"
      <3>1. <<>> \in Seq(RegEntry) /\ plan \in SUBSET (Text \cup {Blank})
        BY <2>1, EmptySeq
      <3>2. QED
        BY <1>2, <3>1 DEF Run, Asks
    <2> HIDE DEF x
    <2>5. run'[p] = x
      BY <1>1, <2>3 DEF RegTypeOK
    <2>6. x.promised # None => x.promised = plan
      <3>1. Suits(p, run[p])
        BY <1>1, <1>2 DEF Fits
      <3>2. run[p].promised # None => Foretold(Asks(p), run[p].promised)
        BY <1>1, <3>1 DEF Suits, Asks
      <3>3. QED
        BY <1>1, <2>2, <2>4, <3>2 DEF Foretold
    <2>7. Fits(p)'
      <3>1. Suits(p, run[p])
        BY <1>1, <1>2 DEF Fits
      <3>2. Suits(p, x)
        BY <1>1, <2>1, <2>2, <2>4, <2>6, <3>1 DEF Suits, Asks
      <3>3. QED
        BY <1>1, <2>3, <2>5, <3>2, SuitsKept, FitsFrom
    <2>8. QED
      BY <1>1, <1>2, <2>3, <2>4, <2>7, GoingOnKeeps
  <1>5. QED
    BY <1>3, <1>4 DEF ListEntries

\* What a command plans is made of the registry's own ids.
LEMMA PlannedIsText ==
    ASSUME RegTypeOK, NEW c \in RegCommand, NEW s \in Seq(RegEntry), Resolves(s, Wanted(c))
    PROVE  Planned(c, s) \subseteq Text
  <1>1. CASE c.name = "label"
    <2>1. Planned(c, s) = applyLabelDelta(carried[c.target], s, c)
      BY <1>1 DEF Planned
    <2>2. carried[c.target] \subseteq Text
      BY CommandParts DEF RegTypeOK
    <2>3. resolveLabelRefs(s, c.add) \subseteq Text
      BY <1>1, FoundInList DEF resolveLabelRefs, Resolves, Wanted
    <2>4. QED
      BY <2>1, <2>2, <2>3 DEF applyLabelDelta
  <1>2. CASE c.name = "area"
    <2>1. Planned(c, s) = {resolveAreaEntry(s, w) : w \in c.add}
      BY <1>2 DEF Planned
    <2>2. \A w \in c.add : resolveAreaEntry(s, w) \in Text
      BY <1>2, FoundInList DEF Resolves, Wanted
    <2>3. QED
      BY <2>1, <2>2
  <1>3. CASE c.name \notin {"label", "area"}
    BY <1>3 DEF Planned
  <1>4. QED
    BY <1>1, <1>2, <1>3

\* Nothing to look up, nothing found: any listing gives the same plan.
LEMMA EmptyPlan ==
    ASSUME NEW c, c.name # "label", c.add = {}, NEW s, NEW t
    PROVE  Planned(c, s) = Planned(c, t)
  BY DEF Planned

LEMMA FindTargetKeeps == ASSUME RegInv, NEW p \in Proc, FindTarget(p) PROVE RegInv'
  <1> DEFINE c == Asks(p)
             plan == Planned(c, run[p].seen)
             x == [run[p] EXCEPT !.step = "plan", !.disturbed = FALSE, !.plan = plan]
  <1>1. /\ run[p].step = "target" /\ UNCHANGED <<regHA, wire, rforeseen>>
        /\ RegTypeOK /\ Fits(p)
    BY DEF FindTarget, At, RegInv
  <1>2. run[p] \in Run /\ c \in RegCommand /\ run[p].seen \in Seq(RegEntry)
    BY <1>1, StepOfRun DEF Run, Asks
  <1>3. CASE Stops(p, Refused)
    BY <1>1, <1>3, RefusalKeeps
  <1>4. CASE c.target \in known /\ run' = [run EXCEPT ![p] = x] /\ UNCHANGED holder
    <2>1. /\ c.name \in {"label", "area", "clear"} /\ Resolves(run[p].seen, Wanted(c))
          /\ run[p].still \/ run[p].promised # None =>
                /\ run[p].seen = registry \/ (c.name # "label" /\ c.add = {})
                /\ Resolves(registry, Wanted(c))
                /\ c.name = "label" => ~refuseAddRemoveOverlap(registry, c)
      <3>1. Suits(p, run[p])
        BY <1>1, <1>2 DEF Fits
      <3>2. QED
        BY <1>1, <3>1 DEF Suits, Asks
    <2>2. plan \subseteq Text
      BY <1>1, <1>2, <2>1, PlannedIsText
    <2>3. run[p].still \/ run[p].promised # None => Foretold(c, plan)
      <3>1. run[p].still \/ run[p].promised # None => plan = Planned(c, registry)
        BY <2>1, EmptyPlan
      <3>2. QED
        BY <1>4, <2>1, <3>1 DEF Foretold
    <2>4. c.name = "label" => plan = applyLabelDelta(carried[c.target], run[p].seen, c)
      BY DEF Planned
    <2> HIDE DEF plan
    <2>5. /\ x \in Run /\ x.command = c /\ x.plan = plan /\ x.seen = run[p].seen
          /\ x.promised = run[p].promised /\ x.still = run[p].still /\ x.step = "plan"
      BY <1>2, <2>2 DEF Run, Asks
    <2> HIDE DEF x
    <2>6. run'[p] = x
      BY <1>1, <1>4 DEF RegTypeOK
    <2>7. x.promised # None => x.promised = plan
      <3>1. Suits(p, run[p])
        BY <1>1, <1>2 DEF Fits
      <3>2. run[p].promised # None => Foretold(c, run[p].promised)
        BY <1>1, <2>1, <3>1 DEF Suits, Asks
      <3>3. QED
        BY <2>1, <2>3, <2>5, <3>2 DEF Foretold
    <2>8. x.promised # None => Foretold(c, x.promised)
      BY <2>3, <2>5, <2>7
    <2> HIDE DEF c
    <2>9. Fits(p)'
      <3>1. Suits(p, run[p])
        BY <1>1, <1>2 DEF Fits
      <3>2. c.confirm => holder = p
        BY <1>1, <3>1 DEF Suits, Asks, c
      <3>3. Suits(p, x)
        BY <2>1, <2>2, <2>3, <2>4, <2>5, <2>7, <2>8, <3>2 DEF Suits
      <3>4. QED
        BY <1>1, <1>4, <2>6, <3>3, SuitsKept, FitsFrom
    <2>10. QED
      BY <1>1, <1>2, <1>4, <2>5, <2>9, GoingOnKeeps
  <1>5. QED
    BY <1>3, <1>4 DEF FindTarget

LEMMA PreviewKeeps == ASSUME RegInv, NEW p \in Proc, Preview(p) PROVE RegInv'
  <1>1. /\ run[p].step = "plan" /\ Stops(p, Idle) /\ UNCHANGED <<regHA, wire>>
        /\ rforeseen' = IF run[p].still THEN [asked |-> Asks(p), plan |-> run[p].plan] ELSE None
        /\ RegTypeOK /\ Fits(p)
    BY DEF Preview, At, RegInv
  <1>2. run[p] \in Run /\ Asks(p) \in RegCommand /\ run[p].plan \in SUBSET (Text \cup {Blank})
    BY <1>1, StepOfRun DEF Run, Asks
  <1>3. InFlight' /\ wire' \subseteq WireRequest
    BY <1>1, NotWaiting DEF Stops, At
  <1>4. PreviewTyped'
    BY <1>1, <1>2 DEF PreviewTyped
  <1>5. run[p].still /\ Asks(p).name # "create" => Foretold(Asks(p), run[p].plan)
    <2>1. Suits(p, run[p])
      BY <1>1, <1>2 DEF Fits
    <2>2. QED
      BY <1>1, <2>1 DEF Suits, Asks
  <1>6. PreviewHolds'
    <2> SUFFICES ASSUME rforeseen' # None, rforeseen'.asked.name # "create"
                 PROVE  Foretold(rforeseen.asked, rforeseen.plan)'
      BY DEF PreviewHolds
    <2>1. rforeseen'.asked = Asks(p) /\ rforeseen'.plan = run[p].plan /\ run[p].still
      BY <1>1
    <2>2. QED
      BY <1>1, <1>5, <2>1 DEF Foretold, Planned, regHA
  <1>7. QED
    BY <1>1, <1>3, <1>4, <1>6, StopKeeps

LEMMA SendKeeps == ASSUME RegInv, NEW p \in Proc, Send(p) PROVE RegInv'
  <1> DEFINE x == [run[p] EXCEPT !.step = "await"]
  <1>1. /\ run[p].step = "plan" /\ Asks(p).confirm
        /\ run' = [run EXCEPT ![p] = x] /\ UNCHANGED holder
        /\ wire' = wire \cup {Request(p)} /\ UNCHANGED <<regHA, rforeseen>>
        /\ RegTypeOK /\ Fits(p) /\ PreviewTyped /\ PreviewHolds
    BY DEF Send, Goes, At, RegInv
  <1>2. run[p] \in Run /\ Asks(p) \in RegCommand
    BY <1>1, StepOfRun DEF Run, Asks
  <1>3. /\ x \in Run /\ x.command = Asks(p) /\ x.seen = run[p].seen /\ x.plan = run[p].plan
        /\ x.promised = run[p].promised /\ x.still = run[p].still /\ x.disturbed = run[p].disturbed
        /\ x.step = "await"
    BY <1>2 DEF Run, Asks
  <1> HIDE DEF x
  <1>4. run'[p] = x
    BY <1>1 DEF RegTypeOK
  <1>5. Fits(p)'
    <2>1. Suits(p, run[p])
      BY <1>1, <1>2 DEF Fits
    <2>2. Suits(p, x)
      BY <1>1, <1>3, <2>1 DEF Suits, Asks
    <2>3. QED
      BY <1>1, <1>4, <2>2, SuitsKept, FitsFrom
  <1>6. wire' \subseteq WireRequest
    <2>1. run[p].plan \subseteq Text
      BY <1>1, <1>2 DEF Fits, Suits
    <2>2. Request(p) \in WireRequest
      BY <1>2, <2>1, CommandParts DEF Request, WireRequest
    <2>3. QED
      BY <1>1, <2>2 DEF RegInv
  <1>7. InFlight'
    <2> SUFFICES ASSUME NEW r \in wire', r.by \in Proc
                 PROVE  At(r.by, "await")' /\ r = Request(r.by)'
      BY DEF InFlight
    <2>1. CASE r \in wire
      <3>1. At(r.by, "await") /\ r = Request(r.by)
        BY <2>1 DEF RegInv, InFlight
      <3>2. r.by # p
        BY <1>1, <3>1 DEF At
      <3>3. run'[r.by] = run[r.by]
        BY <1>1, <3>2 DEF RegTypeOK
      <3>4. QED
        BY <3>1, <3>3 DEF At, Request, Asks
    <2>2. CASE r = Request(p)
      <3>1. r.by = p
        BY <2>2 DEF Request
      <3>2. QED
        BY <1>3, <1>4, <2>2, <3>1 DEF At, Request, Asks
    <2>3. QED
      BY <1>1, <2>1, <2>2
  <1>8. PreviewTyped' /\ PreviewHolds'
    BY <1>1, PreviewKept
  <1>9. holder' \in Proc \cup {None}
    BY <1>1 DEF RegTypeOK
  <1>10. QED
    BY <1>1, <1>3, <1>5, <1>6, <1>7, <1>8, <1>9, OwnStep

\* What the run of another process is after a change: nothing is foreseen any more.
LEMMA OvertakenRun ==
    ASSUME RegInv, NEW w \in Proc \cup {None}, Changed(w), NEW q \in Proc, q # w, run[q] \in Run
    PROVE  /\ run'[q] \in Run
           /\ run'[q].step = run[q].step /\ run'[q].command = run[q].command
           /\ run'[q].seen = run[q].seen /\ run'[q].plan = run[q].plan
           /\ run'[q].still = FALSE /\ run'[q].promised = None
           /\ ~run'[q].disturbed =>
                 /\ ~run[q].disturbed
                 /\ w = None => carried'[Asks(q).target] = carried[Asks(q).target]
  <1> DEFINE d == run[q].disturbed
                     \/ (w = None /\ carried'[Asks(q).target] # carried[Asks(q).target])
             x == [run[q] EXCEPT !.still = FALSE, !.promised = None, !.disturbed = d]
  <1>1. run'[q] = x
    <2>1. run[q].step \notin {"idle", "refused"}
      BY StepOfRun DEF RegInv
    <2>2. QED
      BY <2>1 DEF Changed, Overtaken
  <1>2. d \in BOOLEAN
    OBVIOUS
  <1>3. ~d => /\ ~run[q].disturbed
              /\ w = None => carried'[Asks(q).target] = carried[Asks(q).target]
    OBVIOUS
  <1> HIDE DEF d
  <1>4. /\ x \in Run /\ x.step = run[q].step /\ x.command = run[q].command
        /\ x.seen = run[q].seen /\ x.plan = run[q].plan /\ x.still = FALSE /\ x.promised = None
        /\ x.disturbed = d
    BY <1>2 DEF Run
  <1> HIDE DEF x
  <1>5. QED
    BY <1>1, <1>3, <1>4

\* Home Assistant's registries change, through a command that waits or through no command.
LEMMA ChangeKeeps ==
    ASSUME RegInv, NEW w \in Proc \cup {None}, Changed(w), UNCHANGED <<kind, known>>,
           w \in Proc => At(w, "await"),
           wire' \subseteq wire, w \in Proc => Request(w) \notin wire',
           Distinct(registry'), carried' \in [Target -> SUBSET Text]
    PROVE  RegInv'
  <1>1. RegTypeOK /\ \A q \in Proc : Fits(q)
    BY DEF RegInv
  <1>2. ASSUME w \in Proc PROVE holder = w
    <2>1. run[w] \in Run /\ run[w].step = "await"
      BY <1>1, <1>2, StepOfRun DEF At
    <2>2. Suits(w, run[w])
      BY <1>1, <1>2, <2>1 DEF Fits
    <2>3. QED
      BY <2>1, <2>2 DEF Suits
  <1>3. ASSUME NEW q \in Proc
        PROVE  /\ run'[q] \in Run \cup {Idle}
               /\ run'[q] \in Run => q # w /\ run[q] \in Run
    <2>1. CASE run[q] \in Run /\ q # w
      BY <2>1, OvertakenRun
    <2>2. CASE run[q] \notin Run \/ q = w
      <3>1. run'[q] = Idle
        BY <1>1, <2>2, StepOfRun DEF Changed, Overtaken
      <3>2. QED
        BY <1>1, <3>1, StepOfRun
    <2>3. QED
      BY <2>1, <2>2
  <1>4. RegTypeOK'
    <2>1. DOMAIN run' = Proc /\ run' = [q \in Proc |-> run'[q]]
      BY DEF Changed, Overtaken
    <2>2. run' \in [Proc -> Run \cup {Idle, Refused}]
      BY <1>3, <2>1
    <2>3. holder' \in Proc \cup {None}
      BY <1>1 DEF Changed, RegTypeOK
    <2>4. QED
      BY <1>1, <2>2, <2>3 DEF RegTypeOK, Distinct
  <1>5. ASSUME NEW q \in Proc, run'[q] \in Run PROVE Fits(q)'
    <2>1. run[q] \in Run /\ q # w
      BY <1>3, <1>5
    <2>2. Suits(q, run[q])
      BY <1>1, <2>1 DEF Fits
    <2>3. /\ run'[q].step = run[q].step /\ run'[q].command = run[q].command
          /\ run'[q].seen = run[q].seen /\ run'[q].plan = run[q].plan
          /\ run'[q].still = FALSE /\ run'[q].promised = None
          /\ ~run'[q].disturbed =>
                /\ ~run[q].disturbed
                /\ w = None => carried'[Asks(q).target] = carried[Asks(q).target]
      BY <2>1, OvertakenRun
    <2>4. ASSUME Asks(q).confirm, run[q].step # "lock" PROVE holder' = q /\ w = None
      <3>1. holder = q
        BY <2>2, <2>4 DEF Suits, Asks
      <3>2. w = None
        BY <1>2, <2>1, <3>1
      <3>3. QED
        BY <3>1, <3>2, RegistryAssumption DEF Changed
    <2>5. ASSUME run[q].step \in {"plan", "await"}, Asks(q).name = "label", Asks(q).confirm,
                 ~run'[q].disturbed
          PROVE  run'[q].plan = applyLabelDelta(carried'[Asks(q).target], run'[q].seen, Asks(q))
      <3>1. w = None /\ carried'[Asks(q).target] = carried[Asks(q).target]
        BY <2>3, <2>4, <2>5
      <3>2. run[q].plan = applyLabelDelta(carried[Asks(q).target], run[q].seen, Asks(q))
        BY <2>2, <2>3, <2>5 DEF Suits, Asks
      <3>3. QED
        BY <2>3, <3>1, <3>2
    <2>6. Suits(q, run[q])'
      BY <2>2, <2>3, <2>4, <2>5 DEF Suits, Asks, applyLabelDelta
    <2>7. QED
      BY <2>6 DEF Fits
  <1>6. \A q \in Proc : Fits(q)'
    BY <1>5 DEF Fits
  <1>7. InFlight' /\ wire' \subseteq WireRequest
    <2> SUFFICES ASSUME NEW r \in wire', r.by \in Proc
                 PROVE  At(r.by, "await")' /\ r = Request(r.by)'
      BY DEF RegInv, InFlight
    <2>1. At(r.by, "await") /\ r = Request(r.by)
      BY DEF RegInv, InFlight
    <2>2. run[r.by] \in Run /\ r.by # w
      BY <1>1, <2>1, StepOfRun DEF At
    <2>3. QED
      BY <2>1, <2>2, OvertakenRun DEF At, Request, Asks
  <1>8. PreviewTyped' /\ PreviewHolds'
    BY DEF Changed, PreviewTyped, PreviewHolds
  <1>9. QED
    BY <1>4, <1>6, <1>7, <1>8 DEF RegInv

LEMMA AbandonKeeps == ASSUME RegInv, NEW p \in Proc, Abandon(p) PROVE RegInv'
  <1>1. /\ At(p, "await") /\ Stops(p, Idle) /\ UNCHANGED <<regHA, rforeseen>>
        /\ \/ wire' = wire \ {Request(p)}
           \/ wire' = (wire \ {Request(p)}) \cup {[Request(p) EXCEPT !.by = None]}
        /\ RegTypeOK /\ Fits(p)
    BY DEF Abandon, RegInv
  <1>2. run[p] \in Run /\ Asks(p) \in RegCommand /\ run[p].plan \subseteq Text
    <2>1. run[p] \in Run /\ run[p].step = "await"
      BY <1>1, StepOfRun DEF At
    <2>2. QED
      BY <1>1, <2>1 DEF Fits, Suits, Run, Asks
  <1>3. [Request(p) EXCEPT !.by = None] \in WireRequest /\ [Request(p) EXCEPT !.by = None].by = None
    BY <1>2, CommandParts DEF Request, WireRequest
  <1>4. wire' \subseteq WireRequest
    BY <1>1, <1>3 DEF RegInv
  <1>5. InFlight'
    <2> SUFFICES ASSUME NEW r \in wire', r.by \in Proc
                 PROVE  At(r.by, "await")' /\ r = Request(r.by)'
      BY DEF InFlight
    <2>1. r \in wire /\ r # Request(p)
      BY <1>1, <1>3, RegistryAssumption
    <2>2. At(r.by, "await") /\ r = Request(r.by)
      BY <2>1 DEF RegInv, InFlight
    <2>3. run'[r.by] = run[r.by]
      BY <1>1, <2>1, <2>2 DEF Stops, RegTypeOK
    <2>4. QED
      BY <2>2, <2>3 DEF At, Request, Asks
  <1>6. PreviewTyped' /\ PreviewHolds'
    BY <1>1, PreviewKept DEF RegInv
  <1>7. QED
    BY <1>1, <1>4, <1>5, <1>6, StopKeeps

LEMMA RefusedKeeps ==
    ASSUME RegInv, NEW r \in wire, wire' = wire \ {r}, UNCHANGED <<regHA, rforeseen>>,
           IF r.by = None THEN UNCHANGED <<run, holder>> ELSE Stops(r.by, Idle)
    PROVE  RegInv'
  <1>1. PreviewTyped' /\ PreviewHolds' /\ RegTypeOK
    BY PreviewKept DEF RegInv
  <1>2. r \in WireRequest
    BY DEF RegInv
  <1>3. CASE r.by = None
    <2>1. RegTypeOK' /\ wire' \subseteq WireRequest
      BY <1>1, <1>3 DEF RegTypeOK, RegInv, regHA
    <2>2. InFlight'
      BY <1>3 DEF RegInv, InFlight, At, Request, Asks
    <2>3. ASSUME NEW q \in Proc PROVE Fits(q)'
      BY <1>3, SuitsKept DEF RegInv, Fits, Suits, Foretold, Planned, regHA
    <2>4. QED
      BY <1>1, <2>1, <2>2, <2>3 DEF RegInv
  <1>4. CASE r.by \in Proc
    <2>1. Stops(r.by, Idle) /\ r = Request(r.by)
      BY <1>4, RegistryAssumption DEF RegInv, InFlight
    <2>2. InFlight' /\ wire' \subseteq WireRequest
      <3> SUFFICES ASSUME NEW m \in wire', m.by \in Proc
                   PROVE  At(m.by, "await")' /\ m = Request(m.by)'
        BY DEF InFlight, RegInv
      <3>1. At(m.by, "await") /\ m = Request(m.by) /\ m.by # r.by
        BY <2>1 DEF RegInv, InFlight
      <3>2. run'[m.by] = run[m.by]
        BY <1>1, <2>1, <3>1 DEF Stops, RegTypeOK
      <3>3. QED
        BY <3>1, <3>2 DEF At, Request, Asks
    <2>3. QED
      BY <1>1, <1>4, <2>1, <2>2, StopKeeps
  <1>5. QED
    BY <1>2, <1>3, <1>4 DEF WireRequest

LEMMA EffectTyped ==
    ASSUME RegInv, NEW r \in WireRequest, Effect(r)
    PROVE  Distinct(registry') /\ carried' \in [Target -> SUBSET Text]
  <1>1. Distinct(registry) /\ carried \in [Target -> SUBSET Text]
    BY DEF RegInv, RegTypeOK, Distinct
  <1>2. r.plan \subseteq Text /\ r.target \in Target
    BY DEF WireRequest
  <1>3. CASE r.name = "create"
    <2>1. /\ UNCHANGED carried
          /\ \E n \in r.plan : \E i \in FreshId(n) :
                registry' = Append(registry, [id |-> i, name |-> n])
      BY <1>3 DEF Effect
    <2>2. PICK n \in r.plan :
             \E i \in FreshId(n) : registry' = Append(registry, [id |-> i, name |-> n])
      BY <2>1
    <2>3. PICK i \in FreshId(n) : registry' = Append(registry, [id |-> i, name |-> n])
      BY <2>2
    <2>4. n \in Text /\ i \in Text /\ i \notin Ids(registry)
      BY <1>2 DEF FreshId
    <2>5. [id |-> i, name |-> n] \in RegEntry /\ [id |-> i, name |-> n].id \notin Ids(registry)
      BY <2>4 DEF RegEntry
    <2>6. QED
      BY <1>1, <2>1, <2>3, <2>5, CreatedDistinct
  <1>4. CASE r.name = "delete"
    <2>1. /\ \E i \in DOMAIN registry : registry' = RemoveAt(registry, i)
          /\ carried' = [t \in Target |-> carried[t] \ r.plan]
      BY <1>4 DEF Effect
    <2>2. Distinct(registry')
      BY <1>1, <2>1, DeletedDistinct
    <2>3. QED
      BY <1>1, <2>1, <2>2
  <1>5. CASE r.name \notin {"create", "delete"}
    BY <1>1, <1>2, <1>5 DEF Effect
  <1>6. QED
    BY <1>3, <1>4, <1>5

LEMMA ServeKeeps == ASSUME RegInv, Serve PROVE RegInv'
  <1>1. PICK r \in wire :
          /\ wire' = wire \ {r}
          /\ IF RegPermitted(r) THEN Effect(r) /\ Changed(r.by)
             ELSE /\ IF r.by = None THEN UNCHANGED <<run, holder>> ELSE Stops(r.by, Idle)
                  /\ UNCHANGED <<registry, carried, rforeseen>>
          /\ UNCHANGED <<kind, known>>
    BY DEF Serve
  <1>2. r \in WireRequest /\ r.by \in Proc \cup {None}
    BY DEF RegInv, WireRequest
  <1>3. CASE RegPermitted(r)
    <2>1. Distinct(registry') /\ carried' \in [Target -> SUBSET Text]
      BY <1>1, <1>2, <1>3, EffectTyped
    <2>2. r.by \in Proc => At(r.by, "await") /\ r = Request(r.by)
      BY DEF RegInv, InFlight
    <2>3. QED
      BY <1>1, <1>2, <1>3, <2>1, <2>2, ChangeKeeps
  <1>4. CASE ~RegPermitted(r)
    BY <1>1, <1>4, RefusedKeeps DEF regHA
  <1>5. QED
    BY <1>3, <1>4

LEMMA RegElsewhereKeeps == ASSUME RegInv, RegElsewhere PROVE RegInv'
  <1>1. Distinct(registry) /\ carried \in [Target -> SUBSET Text] /\ known \subseteq Target
    BY DEF RegInv, RegTypeOK, Distinct
  <1>2. Ids(registry) \subseteq Text
    BY <1>1, IdsCounted DEF Distinct
  <1>3. Distinct(registry') /\ carried' \in [Target -> SUBSET Text]
    <2>1. CASE /\ \E i \in DOMAIN registry, n \in Text \ Names(registry) :
                     registry' = [registry EXCEPT ![i].name = n]
               /\ UNCHANGED carried
      <3>1. PICK i \in DOMAIN registry, n \in Text : registry' = [registry EXCEPT ![i].name = n]
        BY <2>1
      <3>2. QED
        BY <1>1, <2>1, <3>1, RenamedDistinct
    <2>2. CASE /\ \E t \in known, s \in SUBSET Ids(registry) : carried' = [carried EXCEPT ![t] = s]
               /\ UNCHANGED registry
      BY <1>1, <1>2, <2>2
    <2>3. QED
      BY <2>1, <2>2 DEF RegElsewhere
  <1>4. Changed(None) /\ UNCHANGED <<kind, known, wire>>
    BY DEF RegElsewhere
  <1>5. QED
    BY <1>3, <1>4, RegistryAssumption, ChangeKeeps

LEMMA RegStepKeeps == RegInv /\ [RegNext]_regVars => RegInv'
  <1> SUFFICES ASSUME RegInv, [RegNext]_regVars PROVE RegInv'
    OBVIOUS
  <1>1. CASE Serve
    BY <1>1, ServeKeeps
  <1>2. CASE RegElsewhere
    BY <1>2, RegElsewhereKeeps
  <1>3. ASSUME NEW p \in Proc,
               \/ Call(p) \/ Lock(p) \/ RefuseBlank(p) \/ Fail(p)
               \/ ListLabels(p) \/ ListAreas(p) \/ ListEntries(p) \/ FindTarget(p) \/ Preview(p)
               \/ Send(p) \/ Abandon(p)
        PROVE  RegInv'
    <2>1. CASE Call(p)
      BY <2>1, CallKeeps
    <2>2. CASE Lock(p)
      BY <2>2, LockKeeps
    <2>3. CASE RefuseBlank(p) \/ Fail(p)
      BY <2>3, LeavingKeeps
    <2>4. CASE ListLabels(p) \/ ListAreas(p)
      BY <2>4, ListTargetKeeps
    <2>5. CASE ListEntries(p)
      BY <2>5, ListEntriesKeeps
    <2>6. CASE FindTarget(p)
      BY <2>6, FindTargetKeeps
    <2>7. CASE Preview(p)
      BY <2>7, PreviewKeeps
    <2>8. CASE Send(p)
      BY <2>8, SendKeeps
    <2>9. CASE Abandon(p)
      BY <2>9, AbandonKeeps
    <2>10. QED
      BY <1>3, <2>1, <2>2, <2>3, <2>4, <2>5, <2>6, <2>7, <2>8, <2>9
  <1>4. CASE UNCHANGED regVars
    <2>1. RegTypeOK' /\ PreviewTyped' /\ wire' \subseteq WireRequest
      BY <1>4 DEF RegInv, RegTypeOK, PreviewTyped, regVars, regHA
    <2>2. PreviewHolds' /\ InFlight'
      BY <1>4, PreviewKept DEF RegInv, InFlight, At, Request, Asks, regVars
    <2>3. ASSUME NEW q \in Proc PROVE Fits(q)'
      BY <1>4 DEF RegInv, Fits, Suits, Foretold, Planned, regVars, regHA
    <2>4. QED
      BY <2>1, <2>2, <2>3 DEF RegInv
  <1>5. QED
    BY <1>1, <1>2, <1>3, <1>4 DEF RegNext

\* Home Assistant's registries keep well-formed entries, each with an id of its own, the
\* targets carry what is text, and every command is where it may be.
THEOREM RegTypeCorrect == RegSpec => []RegTypeOK
  <1>1. RegInv => RegTypeOK
    BY DEF RegInv
  <1>2. QED
    BY <1>1, RegBegins, RegStepKeeps, PTL DEF RegSpec

\* A confirmed set-label undoes no label that another hactl put on or took off, whatever
\* several of them do at once and whatever fails: the lock is held from before the target is
\* read until its answer, so what is written over what was read changes the named labels
\* only (runEntSetLabel, writelock.go).
THEOREM LabelsKept == RegSpec => NoLabelUndone
  <1>1. ASSUME RegInv, RegNext, NEW p \in Proc,
               At(p, "await"), run'[p] = Idle, Asks(p).name = "label", ~run[p].disturbed
        PROVE  NamedOnly(p)
    <2>1. RegTypeOK /\ run[p] \in Run /\ run[p].step = "await" /\ Suits(p, run[p])
      BY <1>1, StepOfRun DEF At, RegInv, Fits
    <2>2. /\ Asks(p) \in RegCommand /\ Asks(p).target \in Target
          /\ run[p].plan = applyLabelDelta(carried[Asks(p).target], run[p].seen, Asks(p))
          /\ holder = p
      <3>1. Asks(p) \in RegCommand /\ Asks(p).target \in Target
        BY <2>1, CommandParts DEF Run, Asks
      <3>2. QED
        BY <1>1, <2>1, <3>1 DEF Suits, Asks
    <2>3. CASE UNCHANGED carried
      BY <2>3 DEF NamedOnly
    <2>4. ASSUME NEW w \in Proc \cup {None}, Changed(w) PROVE w = p
      BY <1>1, <2>1, <2>4, OvertakenRun, StepOfRun
    <2>5. CASE Serve
      <3>1. PICK r \in wire :
              IF RegPermitted(r) THEN Effect(r) /\ Changed(r.by) ELSE UNCHANGED carried
        BY <2>5 DEF Serve
      <3>2. CASE RegPermitted(r)
        <4>1. r.by = p /\ r = Request(p)
          <5>1. r.by \in Proc \cup {None}
            BY <1>1 DEF RegInv, WireRequest
          <5>2. QED
            BY <1>1, <2>4, <3>1, <3>2, <5>1 DEF RegInv, InFlight
        <4>2. r.name = "label" /\ r.target = Asks(p).target /\ r.plan = run[p].plan
          BY <1>1, <4>1 DEF Request
        <4>3. carried' = [carried EXCEPT ![Asks(p).target] = run[p].plan]
          BY <3>1, <3>2, <4>2 DEF Effect
        <4>4. carried'[Asks(p).target] = run[p].plan
          BY <2>1, <2>2, <4>3 DEF RegTypeOK
        <4>5. QED
          BY <2>2, <4>4 DEF NamedOnly, applyLabelDelta
      <3>3. QED
        BY <2>3, <3>1, <3>2
    <2>6. CASE RegElsewhere
      BY <2>4, <2>6, RegistryAssumption DEF RegElsewhere
    <2>7. CASE ~Serve /\ ~RegElsewhere
      <3>1. UNCHANGED carried
        BY <1>1, <2>7
           DEF RegNext, Call, Lock, RefuseBlank, Fail, ListLabels, ListAreas, ListEntries,
               FindTarget, Preview, Send, Abandon, regHA
      <3>2. QED
        BY <2>3, <3>1
    <2>8. QED
      BY <2>5, <2>6, <2>7
  <1>2. RegInv /\ [RegNext]_regVars =>
          [\A p \in Proc :
              At(p, "await") /\ run'[p] = Idle /\ Asks(p).name = "label" /\ ~run[p].disturbed
                  => NamedOnly(p)]_regVars
    BY <1>1
  <1>3. QED
    BY <1>2, RegBegins, RegStepKeeps, PTL DEF RegSpec, NoLabelUndone

\* While nothing has changed at Home Assistant, what the preview of a set- command or a
\* deletion planned is what its confirmed command sends; no listing refuses it, and Home
\* Assistant accepts it (runEntSetLabel, runEntSetArea, the deletions).  A creation, whose
\* preview asks nothing, is not among them.
THEOREM RegPreviewsForetell == RegSpec => RegPreviewForetells
  <1>1. ASSUME RegInv, RegNext, NEW p \in Proc,
               run[p].step \notin {"idle", "refused"}, Asks(p).confirm, Asks(p).name # "create",
               run[p].promised # None
        PROVE  /\ run'[p] # Refused
               /\ At(p, "await") => run[p].plan = run[p].promised /\ RegPermitted(Request(p))
    <2>1. RegTypeOK /\ run[p] \in Run /\ Suits(p, run[p]) /\ Asks(p) \in RegCommand
      <3>1. RegTypeOK /\ run[p] \in Run
        BY <1>1, StepOfRun DEF RegInv
      <3>2. QED
        BY <1>1, <3>1 DEF RegInv, Fits, Run, Asks
    <2>2. Foretold(Asks(p), run[p].promised)
      BY <1>1, <2>1 DEF Suits, Asks
    <2>3. run'[p] # Refused
      <3>1. ~RefuseBlank(p)
        BY <1>1, <2>1 DEF RefuseBlank, At, Suits, Asks
      <3>2. SUFFICES ASSUME run'[p] = Refused PROVE FALSE
        OBVIOUS
      <3>3. run'[p].step = "refused"
        BY <3>2 DEF Refused
      <3>4. run'[p] # Idle /\ run'[p] # run[p] /\ run'[p] \notin Run
        BY <1>1, <2>1, <3>2, StepOfRun DEF Idle, Refused
      <3>5. ~Serve /\ ~RegElsewhere
        <4>1. ASSUME NEW w \in Proc \cup {None}, Changed(w) PROVE FALSE
          <5>1. w # p
            BY <1>1, <3>4, <4>1 DEF Changed, Overtaken
          <5>2. QED
            BY <1>1, <2>1, <3>4, <4>1, <5>1, OvertakenRun
        <4>2. ~RegElsewhere
          BY <4>1 DEF RegElsewhere
        <4>3. ASSUME NEW r \in wire, Stops(r.by, Idle) PROVE FALSE
          BY <2>1, <3>4, <4>3 DEF Stops, RegTypeOK
        <4>4. \A r \in wire : r.by \in Proc \cup {None}
          BY <1>1 DEF RegInv, WireRequest
        <4>5. ~Serve
          BY <3>4, <4>1, <4>3, <4>4 DEF Serve
        <4>6. QED
          BY <4>2, <4>5
      <3>6. PICK q \in Proc :
               \/ Call(q) \/ Lock(q) \/ RefuseBlank(q) \/ Fail(q)
               \/ ListLabels(q) \/ ListAreas(q) \/ ListEntries(q) \/ FindTarget(q) \/ Preview(q)
               \/ Send(q) \/ Abandon(q)
        BY <1>1, <3>5 DEF RegNext
      <3>7. q = p
        <4>1. \E x : run' = [run EXCEPT ![q] = x]
          BY <3>6
             DEF Call, Lock, RefuseBlank, Fail, ListLabels, ListAreas, ListEntries, FindTarget,
                 Preview, Send, Abandon, Goes, Stops, Reads
        <4>2. QED
          BY <2>1, <3>4, <4>1 DEF RegTypeOK
      <3>8. ASSUME NEW next, run' = [run EXCEPT ![p].step = next] PROVE next = "refused"
        BY <2>1, <3>3, <3>8 DEF RegTypeOK, Run
      <3>9. ~Call(p) /\ ~Lock(p) /\ ~Send(p)
        <4>1. ~Call(p)
          BY <1>1 DEF Call, Idle, Refused
        <4>2. FirstOf(Asks(p)) # "refused"
          BY DEF FirstOf
        <4>3. QED
          BY <3>8, <4>1, <4>2 DEF Lock, Send, Goes
      <3>10. ~Stops(p, Idle)
        BY <2>1, <3>4 DEF Stops, RegTypeOK
      <3>11. ~Fail(p) /\ ~Preview(p) /\ ~Abandon(p)
        BY <3>10 DEF Fail, Preview, Abandon
      <3>12. ~ListLabels(p) /\ ~ListAreas(p) /\ ~ListEntries(p)
        <4>1. /\ Resolves(registry, Wanted(Asks(p)))
              /\ Asks(p).name = "label" => ~refuseAddRemoveOverlap(registry, Asks(p))
          BY <1>1, <2>2 DEF Foretold
        <4>2. ASSUME NEW next \in {"target", "plan"}, NEW s, NEW t, Reads(p, next, s, t) PROVE FALSE
          BY <2>1, <3>3, <4>2 DEF Reads, RegTypeOK, Run
        <4>3. Asks(p).name # "label" => Wanted(Asks(p)) = Asks(p).add
          BY DEF Wanted
        <4>4. ~ListLabels(p)
          BY <4>1, <4>2 DEF ListLabels, Wanted
        <4>5. ~ListAreas(p)
          BY <4>1, <4>2, <4>3 DEF ListAreas
        <4>6. ~ListEntries(p)
          BY <4>1, <4>2, <4>3 DEF ListEntries
        <4>7. QED
          BY <4>4, <4>5, <4>6
      <3>13. ~FindTarget(p)
        <4>1. ASSUME FindTarget(p) PROVE Asks(p).target \in known
          BY <1>1, <2>1, <2>2, <4>1 DEF FindTarget, At, Suits, Asks, Foretold
        <4>2. ASSUME FindTarget(p) PROVE run'[p].step = "plan"
          BY <2>1, <4>1, <4>2 DEF FindTarget, RegTypeOK, Run
        <4>3. QED
          BY <3>3, <4>2
      <3>14. QED
        BY <3>1, <3>6, <3>7, <3>9, <3>11, <3>12, <3>13
    <2>4. ASSUME At(p, "await")
          PROVE  run[p].plan = run[p].promised /\ RegPermitted(Request(p))
      <3>1. run[p].plan = run[p].promised
        BY <1>1, <2>1, <2>4 DEF Suits, At, Asks
      <3>2. /\ Request(p).name = Asks(p).name /\ Request(p).target = Asks(p).target
            /\ Request(p).plan = run[p].plan
        BY DEF Request
      <3>3. CASE Asks(p).name = "delete"
        <4>1. run[p].plan = {resolveRegistryTarget(registry, w) : w \in Asks(p).add}
          BY <2>2, <3>1, <3>3 DEF Foretold
        <4>2. \A w \in Asks(p).add : resolveRegistryTarget(registry, w) \in Ids(registry)
          BY <2>1, <2>2, <3>3, FoundInList DEF Foretold, Wanted, Resolves, RegTypeOK
        <4>3. run[p].plan \subseteq Ids(registry)
          BY <4>1, <4>2
        <4>4. QED
          BY <3>1, <3>2, <3>3, <4>3 DEF RegPermitted
      <3>4. CASE Asks(p).name # "delete"
        BY <1>1, <2>2, <3>1, <3>2, <3>4 DEF Foretold, RegPermitted
      <3>5. QED
        BY <3>3, <3>4
    <2>5. QED
      BY <2>3, <2>4
  <1>2. RegInv /\ [RegNext]_regVars =>
          [\A p \in Proc :
              run[p].step \notin {"idle", "refused"} /\ Asks(p).confirm /\ Asks(p).name # "create"
                  => KeptAsPromised(p)]_regVars
    BY <1>1 DEF KeptAsPromised
  <1>3. QED
    BY <1>2, RegBegins, RegStepKeeps, PTL DEF RegSpec, RegPreviewForetells

-----------------------------------------------------------------------------
(* The families together: they share no state, so a step of one is a stutter  *)
(* of the others.                                                             *)

writesVars == <<part, flowVars, dashVars, regVars, defVars>>

\* Each family behaves, beside the others, as it does alone: the four specifications are
\* implemented by the commands of all the families together.
THEOREM FamiliesImplemented == WritesSpec => FlowSpec /\ DashSpec /\ RegSpec /\ DefSpec
  <1>1. WritesInit => FlowInit /\ DashInit /\ RegInit /\ DefInit
    BY DEF WritesInit
  <1>2. [WritesNext]_writesVars =>
          /\ [FlowNext]_flowVars /\ [DashNext]_dashVars
          /\ [RegNext]_regVars /\ [DefNext]_defVars
    BY DEF WritesNext, writesVars
  <1>3. QED
    BY <1>1, <1>2, PTL DEF WritesSpec, FlowSpec, DashSpec, RegSpec, DefSpec, writesVars

\* Whatever the commands of the four families do, the state of each has its type.
THEOREM WritesTypeCorrect == WritesSpec => []WritesTypeOK
  <1>1. FlowTypeOK /\ DashTypeOK /\ RegTypeOK /\ DefTypeOK => WritesTypeOK
    BY DEF WritesTypeOK
  <1>2. QED
    BY <1>1, FamiliesImplemented, FlowTypeCorrect, DashTypeCorrect, RegTypeCorrect,
       DefTypeCorrect, PTL

\* H-2 (INVARIANTS.md) in the three families whose previews look something up: while
\* nothing has changed at Home Assistant, a confirmed flow command, a dashboard write whose
\* preview had the list of dashboards, and a set- command or deletion of a registry do what
\* their preview said and are not refused.  A `dash create` previewed over a failed list and
\* the creations of the registries, for which the code breaks H-2, are not among them
\* (DashPreviewForetells; label.go:128).
THEOREM WritesPreviewsForetell == WritesSpec => PreviewsForetell
  BY FamiliesImplemented, FlowPreviewsForetell, DashPreviewsForetell, RegPreviewsForetell, PTL
     DEF PreviewsForetell

\* What the families promise on their own they keep beside the others: no trace of a probed
\* flow, no empty search that was not complete, no ghost of what a deletion took, no label
\* undone, and no live definition's entity taken out of the registry.
THEOREM WritesKeepTheirPromises ==
    WritesSpec => /\ []ProbeLeavesNoTrace /\ []NoHitsIsComplete /\ []NoGhost
                  /\ NoLabelUndone /\ LiveKeepsItsEntity
  BY FamiliesImplemented, ProbesClean, NoHitsComplete, DeletionLeavesNoGhost, LabelsKept,
     CleanUpSparesTheLive, PTL

=============================================================================
