------------------------ MODULE ConfirmGuard_proofs ------------------------
(***************************************************************************)
(* That the guard's two promises hold for every number of processes,        *)
(* sessions and writes.  GInv relates the record, the updates under way and  *)
(* what was noted; each action is shown to preserve it, and the properties   *)
(* are read off at the guard's step.                                         *)
(***************************************************************************)
EXTENDS ConfirmGuard, TLAPS

USE GuardAssumption

(* A command that runs is about one key of the record (witnessKey). *)
LEMMA KeyInKey ==
    ASSUME GInv, NEW p \in Process, pc[p] # "idle"
    PROVE  KeyOf(p) \in Key
  BY DEF GInv, TypeOK, KeyOf, Key

(* The program starts in the invariant: nothing is recorded or noted. *)
LEMMA Initially == Init => GInv
  <1> SUFFICES ASSUME Init PROVE GInv
    OBVIOUS
  <1>1. TypeOK
    BY DEF Init, TypeOK, Nowhere, PC, Form
  <1>2. NotAhead
    BY DEF Init, NotAhead, Nowhere
  <1>3. NotBehind
    BY DEF Init, NotBehind, Nowhere, Fresh
  <1> QED
    BY <1>1, <1>2, <1>3 DEF Init, GInv

(* Time passing makes records old, never new. *)
LEMMA TickStep == GInv /\ Tick => GInv'
  <1> SUFFICES ASSUME GInv, Tick PROVE GInv'
    OBVIOUS
  <1> USE DEF Tick, call, history
  <1>1. TypeOK'
    BY DEF GInv, TypeOK
  <1>2. \A p \in Process : KeyOf(p)' = KeyOf(p) /\ Stamp(p)' = Stamp(p)
    BY DEF KeyOf, Stamp
  <1>3. NotAhead'
    <2>1. \A k \in Key : (witness[k] <= noted[k] /\ noted[k] <= now)'
      BY DEF GInv, NotAhead, TypeOK
    <2>2. ASSUME NEW p \in Process, pc'[p] = "save"
          PROVE  /\ Stamp(p)' \in 1 .. now' /\ target'[p] \in Write
                 /\ \A k \in Key \ {KeyOf(p)'} : copy'[p][k] <= noted'[k]
      BY <1>2, <2>2 DEF GInv, NotAhead, TypeOK
    <2> QED
      BY <2>1, <2>2 DEF NotAhead
  <1>4. ASSUME NEW k \in Key, Fresh(noted[k])'
        PROVE  Fresh(noted[k])
    BY <1>4 DEF Fresh, GInv, TypeOK
  <1>5. NotBehind'
    BY <1>4 DEF GInv, NotBehind
  <1> QED
    BY <1>1, <1>3, <1>5 DEF GInv

(* A step of p that leaves the record, the updates and the history alone and *)
(* starts no update preserves what is said about them.                       *)
LEMMA QuietStep ==
    ASSUME GInv, TypeOK', NEW p \in Process,
           UNCHANGED <<now, witness, noted, overtaken>>,
           pc'[p] # "save", pc'[p] # "idle" => target'[p] \in Write,
           \A q \in Process \ {p} :
              pc'[q] = pc[q] /\ target'[q] = target[q] /\ copy'[q] = copy[q]
    PROVE  GInv'
  <1>1. \A q \in Process : pc'[q] # "idle" => target'[q] \in Write
    BY DEF GInv
  <1>2. ASSUME NEW q \in Process, pc'[q] = "save"
        PROVE  /\ q # p /\ pc[q] = "save" /\ target'[q] = target[q] /\ copy'[q] = copy[q]
               /\ KeyOf(q)' = KeyOf(q) /\ Stamp(q)' = Stamp(q)
    BY <1>2 DEF KeyOf, Stamp
  <1>3. NotAhead'
    <2>1. \A k \in Key : (witness[k] <= noted[k] /\ noted[k] <= now)'
      BY DEF GInv, NotAhead
    <2>2. ASSUME NEW q \in Process, pc'[q] = "save"
          PROVE  /\ Stamp(q)' \in 1 .. now' /\ target'[q] \in Write
                 /\ \A k \in Key \ {KeyOf(q)'} : copy'[q][k] <= noted'[k]
      BY <1>2, <2>2 DEF GInv, NotAhead
    <2> QED
      BY <2>1, <2>2 DEF NotAhead
  <1>4. NotBehind'
    BY <1>2 DEF GInv, NotBehind, Fresh
  <1> QED
    BY <1>1, <1>3, <1>4 DEF GInv

(* Typing a command touches nothing that is shared. *)
LEMMA StartStep == ASSUME GInv, NEW p \in Process, Start(p) PROVE GInv'
  <1>1. TypeOK'
    BY DEF GInv, TypeOK, Start, history, PC, Form
  <1>2. pc'[p] \in {"done", "guard"} /\ target'[p] \in Write
    BY DEF GInv, TypeOK, Start
  <1> QED
    BY <1>1, <1>2, QuietStep DEF GInv, TypeOK, Start, history

(* The guard reads. *)
LEMMA GuardStep == ASSUME GInv, NEW p \in Process, Guard(p) PROVE GInv'
  <1>1. TypeOK'
    BY DEF GInv, TypeOK, Guard, Goto, history, call, PC
  <1>2. pc'[p] \in {"refused", "write", "run"} /\ target'[p] \in Write
    BY DEF GInv, TypeOK, Guard, Goto, call
  <1> QED
    BY <1>1, <1>2, QuietStep DEF GInv, TypeOK, Guard, Goto, history, call

(* A preview prints. *)
LEMMA RunStep == ASSUME GInv, NEW p \in Process, Run(p) PROVE GInv'
  <1>0. KeyOf(p) \in Key
    BY KeyInKey DEF Run
  <1>1. TypeOK'
    <2>1. shown' \in [Key -> 0 .. MaxTime]
      BY <1>0 DEF GInv, TypeOK, Run
    <2>2. CASE Goto(p, "done")
      BY <2>1, <2>2 DEF GInv, TypeOK, Run, Goto, call, PC
    <2>3. CASE End(p)
      BY <2>1, <2>3 DEF GInv, TypeOK, Run, End, PC, Form, Nowhere
    <2> QED
      BY <2>2, <2>3 DEF Run
  <1>2. pc'[p] = "idle" \/ (pc'[p] = "done" /\ target'[p] \in Write)
    BY DEF GInv, TypeOK, Run, Goto, End, call
  <1> QED
    BY <1>1, <1>2, QuietStep DEF GInv, TypeOK, Run, Goto, End, call

(* A command ends, or its process is killed. *)
LEMMA FinishStep == ASSUME GInv, NEW p \in Process, Finish(p) PROVE GInv'
  <1>1. TypeOK'
    BY DEF GInv, TypeOK, Finish, End, history, PC, Form, Nowhere
  <1>2. pc'[p] = "idle"
    BY DEF GInv, TypeOK, Finish, End
  <1> QED
    BY <1>1, <1>2, QuietStep DEF GInv, TypeOK, Finish, End, history

(* loadWitness: an update starts from all that is fresh. *)
LEMMA LoadStep == ASSUME GInv, NEW p \in Process, NoteLoad(p) PROVE GInv'
  <1> USE DEF NoteLoad, call, history
  <1>0. KeyOf(p) \in Key /\ KeyOf(p)' = KeyOf(p) /\ now \in 1 .. MaxTime
    BY KeyInKey DEF KeyOf, GInv, TypeOK
  <1>1. Loaded \in [Key -> 0 .. MaxTime]
    BY DEF Loaded, GInv, TypeOK
  <1>2. copy' \in [Process -> [Key -> 0 .. MaxTime]]
    BY <1>0, <1>1 DEF GInv, TypeOK
  <1>3. TypeOK'
    BY <1>2 DEF GInv, TypeOK, PC
  <1>4. /\ copy'[p] = [Loaded EXCEPT ![KeyOf(p)] = now]
        /\ \A q \in Process \ {p} : pc'[q] = pc[q] /\ copy'[q] = copy[q]
    BY DEF GInv, TypeOK
  <1>5. copy'[p][KeyOf(p)] = now /\ \A k \in Key \ {KeyOf(p)} : copy'[p][k] = Loaded[k]
    <2> DEFINE key == KeyOf(p)
    <2>1. copy'[p] = [Loaded EXCEPT ![key] = now] /\ key \in Key
      BY <1>0, <1>4
    <2> HIDE DEF key
    <2>2. copy'[p][key] = now /\ \A k \in Key \ {key} : copy'[p][k] = Loaded[k]
      BY <1>1, <2>1
    <2> QED
      BY <2>2 DEF key
  <1>6. NotAhead'
    <2>1. \A k \in Key : (witness[k] <= noted[k] /\ noted[k] <= now)'
      BY DEF GInv, NotAhead
    <2>2. ASSUME NEW q \in Process, pc'[q] = "save"
          PROVE  /\ Stamp(q)' \in 1 .. now' /\ target'[q] \in Write
                 /\ \A k \in Key \ {KeyOf(q)'} : copy'[q][k] <= noted'[k]
      <3>1. CASE q = p
        <4>1. Stamp(p)' \in 1 .. now' /\ target'[p] \in Write
          BY <1>0, <1>5 DEF Stamp, GInv
        <4>2. ASSUME NEW k \in Key \ {KeyOf(p)} PROVE copy'[p][k] <= noted'[k]
          BY <1>5 DEF Loaded, GInv, NotAhead, TypeOK
        <4> QED
          BY <3>1, <4>1, <4>2, <1>0
      <3>2. CASE q # p
        <4>1. pc[q] = "save" /\ KeyOf(q)' = KeyOf(q) /\ Stamp(q)' = Stamp(q)
          BY <1>4, <2>2, <3>2 DEF KeyOf, Stamp
        <4> QED
          BY <4>1, <1>4, <3>2 DEF GInv, NotAhead
      <3> QED
        BY <3>1, <3>2
    <2> QED
      BY <2>1, <2>2 DEF NotAhead
  <1>7. NotBehind'
    <2>1. ASSUME NEW k \in Key, Fresh(noted[k]), k \notin overtaken
          PROVE  witness[k] = noted[k]
      BY <2>1 DEF GInv, NotBehind
    <2>2. ASSUME NEW k \in Key, Fresh(noted[k]), k \notin overtaken,
                 NEW q \in Process, pc'[q] = "save"
          PROVE  copy'[q][k] >= noted[k]
      <3>1. CASE q # p
        BY <1>4, <2>2, <3>1 DEF GInv, NotBehind
      <3>2. CASE q = p /\ k = KeyOf(p)
        BY <1>5, <3>2 DEF GInv, NotAhead, TypeOK
      <3>3. CASE q = p /\ k # KeyOf(p)
        <4>1. copy'[p][k] = Loaded[k] /\ Loaded[k] = witness[k]
          BY <1>5, <2>1, <2>2, <3>3 DEF Loaded
        <4> QED
          BY <4>1, <2>1, <2>2, <3>3 DEF GInv, TypeOK
      <3> QED
        BY <3>1, <3>2, <3>3
    <2> QED
      BY <2>1, <2>2 DEF NotBehind, Fresh
  <1> QED
    BY <1>3, <1>6, <1>7 DEF GInv

(* saveWitness: the rename replaces the record by p's copy. *)
LEMMA SaveStep == ASSUME GInv, NEW p \in Process, NoteSave(p) PROVE GInv'
  <1> DEFINE key == KeyOf(p)
  <1>0. /\ key \in Key /\ Stamp(p) \in 1 .. now /\ pc[p] = "save"
        /\ Stamp(p) = copy[p][key] /\ now \in 1 .. MaxTime
        /\ \A k \in Key \ {key} : copy[p][k] <= noted[k]
    BY KeyInKey DEF NoteSave, GInv, NotAhead, Stamp, TypeOK
  <1>1. /\ witness' = copy[p] /\ now' = now /\ shown' = shown
        /\ noted' = [noted EXCEPT ![key] = IF @ > Stamp(p) THEN @ ELSE Stamp(p)]
        /\ pc'[p] = "idle"
        /\ \A q \in Process \ {p} :
              pc'[q] = pc[q] /\ target'[q] = target[q] /\ copy'[q] = copy[q]
    BY DEF NoteSave, End, GInv, TypeOK
  <1>2. /\ noted'[key] = IF noted[key] > Stamp(p) THEN noted[key] ELSE Stamp(p)
        /\ \A k \in Key \ {key} : noted'[k] = noted[k]
        /\ noted' \in [Key -> 0 .. MaxTime]
    BY <1>0, <1>1 DEF GInv, TypeOK
  <1>3. TypeOK'
    <2>1. witness' \in [Key -> 0 .. MaxTime] /\ overtaken' \subseteq Key
      BY <1>0, <1>1 DEF GInv, TypeOK, NoteSave
    <2> QED
      BY <1>1, <1>2, <2>1 DEF GInv, TypeOK, NoteSave, End, PC, Form, Nowhere
  <1>4. \A k \in Key : noted[k] <= noted'[k] /\ noted'[k] <= now /\ noted[k] \in Nat
    BY <1>0, <1>2 DEF GInv, NotAhead, TypeOK
  <1>5. ASSUME NEW q \in Process, pc'[q] = "save"
        PROVE  /\ q # p /\ pc[q] = "save" /\ copy'[q] = copy[q] /\ target'[q] = target[q]
               /\ KeyOf(q)' = KeyOf(q) /\ Stamp(q)' = Stamp(q)
    BY <1>1, <1>5 DEF KeyOf, Stamp
  <1>6. NotAhead'
    <2>1. ASSUME NEW k \in Key PROVE witness'[k] <= noted'[k] /\ noted'[k] <= now'
      <3>1. CASE k = key
        BY <1>0, <1>1, <1>2, <1>4, <3>1
      <3>2. CASE k # key
        BY <1>0, <1>1, <1>2, <1>4, <3>2
      <3> QED
        BY <3>1, <3>2
    <2>2. ASSUME NEW q \in Process, pc'[q] = "save"
          PROVE  /\ Stamp(q)' \in 1 .. now' /\ target'[q] \in Write
                 /\ \A k \in Key \ {KeyOf(q)'} : copy'[q][k] <= noted'[k]
      <3>1. /\ Stamp(q) \in 1 .. now /\ target[q] \in Write
            /\ \A k \in Key \ {KeyOf(q)} : copy[q][k] <= noted[k] /\ copy[q][k] \in Nat
        BY <1>5, <2>2 DEF GInv, NotAhead, TypeOK
      <3> QED
        BY <1>1, <1>4, <1>5, <2>2, <3>1, <1>3 DEF TypeOK
    <2> QED
      BY <2>1, <2>2 DEF NotAhead
  <1>7. NotBehind'
    <2>1. ASSUME NEW k \in Key, Fresh(noted[k])', k \notin overtaken'
          PROVE  /\ witness'[k] = noted'[k]
                 /\ \A q \in Process : pc'[q] = "save" => copy'[q][k] >= noted'[k]
      <3>1. CASE k = key
        <4>1. ~(\E q \in Process \ {p} : pc[q] = "save") /\ ~(Stamp(p) < noted[key])
          BY <2>1, <3>1 DEF NoteSave
        <4>2. noted'[key] = Stamp(p) /\ witness'[key] = Stamp(p)
          BY <1>0, <1>1, <1>2, <4>1 DEF GInv, TypeOK
        <4> QED
          BY <1>5, <3>1, <4>1, <4>2
      <3>2. CASE k # key
        <4>1. noted'[k] = noted[k] /\ k \notin overtaken /\ Fresh(noted[k])
          BY <1>1, <1>2, <2>1, <3>2 DEF NoteSave, Fresh
        <4>2. copy[p][k] >= noted[k] /\ copy[p][k] <= noted[k]
          BY <1>0, <3>2, <4>1 DEF GInv, NotBehind
        <4>3. witness'[k] = noted'[k]
          <5>1. copy[p][k] \in Nat /\ noted[k] \in Nat
            BY DEF GInv, TypeOK
          <5> QED
            BY <1>1, <4>1, <4>2, <5>1
        <4>4. \A q \in Process : pc'[q] = "save" => copy'[q][k] >= noted'[k]
          BY <1>5, <4>1 DEF GInv, NotBehind
        <4> QED
          BY <4>3, <4>4
      <3> QED
        BY <3>1, <3>2
    <2> QED
      BY <2>1 DEF NotBehind, Fresh
  <1>8. \A q \in Process : pc'[q] # "idle" => target'[q] \in Write
    BY <1>1 DEF GInv
  <1> QED
    BY <1>3, <1>6, <1>7, <1>8 DEF GInv

(* Every step preserves the invariant. *)
LEMMA Step == GInv /\ [Next]_vars => GInv'
  <1> SUFFICES ASSUME GInv, [Next]_vars PROVE GInv'
    OBVIOUS
  <1>1. CASE Tick
    BY <1>1, TickStep
  <1>2. ASSUME NEW p \in Process,
               Start(p) \/ Guard(p) \/ Run(p) \/ Finish(p) \/ NoteLoad(p) \/ NoteSave(p)
        PROVE  GInv'
    BY <1>2, StartStep, GuardStep, RunStep, FinishStep, LoadStep, SaveStep
  <1>3. CASE UNCHANGED vars
    BY <1>3 DEF vars, call, history, GInv, TypeOK, NotAhead, NotBehind, KeyOf, Stamp, Fresh
  <1> QED
    BY <1>1, <1>2, <1>3 DEF Next

(* The record, the updates under way and what was noted stay in step, for     *)
(* any number of processes (saveWitness, loadWitness).                        *)
THEOREM GuardInvariance == Spec => []GInv
  BY Initially, Step, PTL DEF Spec

(* A confirmed write of an agent that passes the guard has been noted: the     *)
(* record is never ahead of what ran (confirmGuard, hasWitness).               *)
THEOREM PassedMeansNoted == Spec => Informed
  <1>1. ASSUME GInv, NEW p \in Process, [Next]_vars,
               pc[p] = "guard", pc'[p] = "write", p \notin Unguarded
        PROVE  Fresh(noted[KeyOf(p)])
    <2>1. Guard(p)
      BY <1>1 DEF Next, vars, Tick, Start, Guard, Run, Finish, NoteLoad, NoteSave,
                  Goto, End, GInv, TypeOK
    <2>2. ~Refused(p) /\ form[p] = "confirm"
      BY <1>1, <2>1 DEF Guard, Goto, GInv, TypeOK
    <2>3. HasWitness(p) /\ KeyOf(p) \in Key
      BY <1>1, <2>2, KeyInKey DEF Refused
    <2>4. Fresh(witness[KeyOf(p)])
      BY <2>3 DEF HasWitness, Loaded, Fresh
    <2> QED
      BY <2>3, <2>4, <1>1 DEF Fresh, GInv, NotAhead, TypeOK
  <1>2. GInv /\ [Next]_vars =>
          [\A p \in Process : pc[p] = "guard" /\ pc'[p] = "write" /\ p \notin Unguarded
              => Fresh(noted[KeyOf(p)])]_vars
    BY <1>1
  <1> QED
    BY <1>2, GuardInvariance, PTL DEF Spec, Informed

(* A refusal is deserved unless updates overtook one another (saveWitness).    *)
THEOREM RefusedMeansForgotten == Spec => NothingElseForgets
  <1>1. ASSUME GInv, NEW p \in Process, [Next]_vars,
               pc[p] = "guard", pc'[p] = "refused"
        PROVE  ~Fresh(noted[KeyOf(p)]) \/ KeyOf(p) \in overtaken
    <2>1. Guard(p)
      BY <1>1 DEF Next, vars, Tick, Start, Guard, Run, Finish, NoteLoad, NoteSave,
                  Goto, End, GInv, TypeOK
    <2>2. ~HasWitness(p) /\ KeyOf(p) \in Key
      BY <1>1, <2>1, KeyInKey DEF Guard, Goto, Refused, GInv, TypeOK
    <2>3. ~Fresh(witness[KeyOf(p)])
      BY <2>2 DEF HasWitness, Loaded
    <2> QED
      BY <1>1, <2>2, <2>3 DEF GInv, NotBehind
  <1>2. GInv /\ [Next]_vars =>
          [\A p \in Process : pc[p] = "guard" /\ pc'[p] = "refused"
              => ~Fresh(noted[KeyOf(p)]) \/ KeyOf(p) \in overtaken]_vars
    BY <1>1
  <1> QED
    BY <1>2, GuardInvariance, PTL DEF Spec, NothingElseForgets

=============================================================================
