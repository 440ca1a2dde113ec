------------------------ MODULE InstanceWrite_proofs ------------------------
(***************************************************************************)
(* What InstanceWrite promises for any number of processes, entries and    *)
(* versions, and for any bounds.                                           *)
(***************************************************************************)
EXTENDS InstanceWrite, TLAPS

-----------------------------------------------------------------------------
(* The write lock *)

\* Nobody is behind the lock at first.
LEMMA LockHeldInit == Init => LockHeld
  BY DistinctAssumption DEF Init, LockHeld, Locked, PC

\* A step changes the holder only as it enters or leaves the locked steps.
LEMMA LockHeldStep ==
  ASSUME LockHeld, [Next]_vars,
         pc \in [Process -> PC]
  PROVE  LockHeld'
<1> USE DEF LockHeld, Locked, PC
<1>1. ASSUME NEW p \in Process, Invoke(p) PROVE LockHeld'
  BY <1>1 DEF Invoke, Goto
<1>2. ASSUME NEW p \in Process, AcquireLock(p) PROVE LockHeld'
  BY <1>2, DistinctAssumption DEF AcquireLock, Goto
<1>3. ASSUME NEW p \in Process, PollAgain(p) PROVE LockHeld'
  BY <1>3 DEF PollAgain, control
<1>4. ASSUME NEW p \in Process,
             GiveUp(p) \/ Abort(p) \/ NeverSent(p) \/ FillFails(p)
      PROVE  LockHeld'
  BY <1>4 DEF GiveUp, Abort, NeverSent, FillFails, End
<1>5. ASSUME NEW p \in Process, Read(p) PROVE LockHeld'
  BY <1>5 DEF Read, Diff, DiffAutomation, DiffScript, ResolveAutomation, ResolveScript,
     Goto, End
<1>6. ASSUME NEW p \in Process,
             Validate(p) \/ Reread(p) \/ CreateBackup(p) \/ FillBackup(p)
               \/ FindBackup(p) \/ Send(p)
      PROVE  LockHeld'
  BY <1>6 DEF Validate, ValidateAutomation, ValidateScript, ParseScript, Reread,
     CreateBackup, FillBackup, FindBackup, Send, Goto
<1>7. ASSUME NEW p \in Process, Fault(p) PROVE LockHeld'
  BY <1>7 DEF Fault, Goto, End
<1>8. ASSUME NEW p \in Process, Exit(p) \/ Crash(p) PROVE LockHeld'
  BY <1>8 DEF Exit, Crash, Leave
<1>9. ASSUME NEW p \in Process, Cancel(p) PROVE LockHeld'
  BY <1>9 DEF Cancel, control
<1>10. ASSUME NEW r \in wire, Serve(r) PROVE LockHeld'
  BY <1>10 DEF Serve, End, control
<1>11. ASSUME NEW r \in wire, Lose(r) PROVE LockHeld'
  BY <1>11 DEF Lose, control
<1>12. ASSUME NEW t \in Target, ForeignWrite(t) PROVE LockHeld'
  BY <1>12 DEF ForeignWrite, control
<1>13. CASE UNCHANGED vars
  BY <1>13 DEF vars, control
<1>14. QED
  BY <1>1, <1>2, <1>3, <1>4, <1>5, <1>6, <1>7, <1>8, <1>9, <1>10, <1>11, <1>12, <1>13
  DEF Next, Step

-----------------------------------------------------------------------------
(* Types, and what a command may be doing at each of its steps *)

\* What the type of a job says of its fields.
LEMMA JobFields ==
  ASSUME NEW j \in Job, j # NoJob
  PROVE  /\ j.op \in Ops /\ j.target \in Target \cup Key \cup {AnyBackup} /\ j.new \in Stored
         /\ j.op \in {"apply", "create", "delete", "rollback"}
  BY InstanceAssumption DEF Job

\* A job handed to a command is well formed.
LEMMA JobsAreWellFormed ==
  ASSUME NEW j \in Jobs
  PROVE  /\ j \in Job /\ j # NoJob
         /\ j.op # "rollback" => j.target \in Target
         /\ j.op \in {"apply", "create"} => j.new \in Content
<1>1. /\ j.op \in Ops /\ j.target \in Target \cup Key \cup {AnyBackup} /\ j.new \in Stored
      /\ j.op # "rollback" => j.target \in Target
      /\ j.op \in {"apply", "create"} => j.new \in Content
      /\ j = [op |-> j.op, target |-> j.target, new |-> j.new]
  BY DEF Jobs, Target, Stored
<1>2. j \in [op : Ops, target : Target \cup Key \cup {AnyBackup}, new : Stored]
  BY <1>1
<1>3. QED
  BY <1>1, <1>2, NoJobAssumption DEF Job

\* A rollback that found its backup still runs a well-formed command.
LEMMA FoundJob ==
  ASSUME NEW j \in Job, j # NoJob, NEW k \in Key, NEW c \in Content
  PROVE  LET f == [j EXCEPT !.target = IF @ = AnyBackup THEN k ELSE @, !.new = c] IN
         f \in Job /\ f # NoJob /\ f.op = j.op
<1> DEFINE f == [j EXCEPT !.target = IF @ = AnyBackup THEN k ELSE @, !.new = c]
<1>1. f \in [op : Ops, target : Target \cup Key \cup {AnyBackup}, new : Stored]
  BY DEF Job, Stored
<1>2. f # NoJob /\ f \in Job
  BY <1>1, NoJobAssumption DEF Job
<1>3. f.op = j.op
  BY DEF Job
<1>4. QED
  BY <1>2, <1>3

Typed == TypeOK /\ WellFormed

\* Nothing has been invoked and nothing saved.
LEMMA TypedInit == Init => Typed
  BY InstanceAssumption, BoundAssumption
  DEF Init, Typed, TypeOK, WellFormed, PC, Job, Result, Stored

\* Every step keeps the types and takes a command only where its kind goes.
LEMMA TypedStep == Typed /\ [Next]_vars => Typed'
<1> SUFFICES ASSUME Typed, [Next]_vars PROVE Typed'
  OBVIOUS
<1> USE BoundAssumption DEF Typed
<1>1. ASSUME NEW p \in Process, Invoke(p) PROVE Typed'
  <2>1. PICK j \in Jobs : job' = [job EXCEPT ![p] = j]
    BY <1>1 DEF Invoke
  <2>2. TypeOK'
    BY <1>1, <2>1, JobsAreWellFormed DEF Invoke, Goto, PC, store, TypeOK
  <2>3. WellFormed'
    BY <1>1, <2>1, JobsAreWellFormed DEF Invoke, Goto, PC, TypeOK, WellFormed
  <2>4. QED
    BY <2>2, <2>3
<1>2. ASSUME NEW p \in Process, AcquireLock(p) PROVE Typed'
  <2>1. /\ job[p] \in Job /\ job[p] # NoJob
        /\ job[p].op \in {"apply", "create", "delete", "rollback"}
    BY <1>2, JobFields DEF AcquireLock, TypeOK, WellFormed
  <2>2. TypeOK'
    BY <1>2, <2>1 DEF AcquireLock, Goto, FirstStep, PC, private, TypeOK
  <2>3. WellFormed'
    BY <1>2, <2>1 DEF AcquireLock, Goto, FirstStep, private, TypeOK, WellFormed
  <2>4. QED
    BY <2>2, <2>3
<1>3. ASSUME NEW p \in Process, PollAgain(p) PROVE Typed'
  <2>1. TypeOK'
    BY <1>3 DEF PollAgain, control, store, TypeOK
  <2>2. WellFormed'
    BY <1>3 DEF PollAgain, control, TypeOK, WellFormed
  <2>3. QED
    BY <2>1, <2>2
<1>4. ASSUME NEW p \in Process, GiveUp(p) \/ Abort(p) \/ NeverSent(p) PROVE Typed'
  <2>1. TypeOK'
    BY <1>4 DEF GiveUp, Abort, NeverSent, End, PC, Result, private, store, TypeOK
  <2>2. WellFormed'
    <3>1. CASE GiveUp(p)
      BY <3>1 DEF GiveUp, End, private, TypeOK, WellFormed
    <3>2. CASE Abort(p)
      BY <3>2 DEF Abort, End, private, TypeOK, WellFormed
    <3>3. CASE NeverSent(p)
      BY <3>3 DEF NeverSent, End, private, TypeOK, WellFormed
    <3>4. QED
      BY <1>4, <3>1, <3>2, <3>3
  <2>3. QED
    BY <2>1, <2>2
<1>5. ASSUME NEW p \in Process, Read(p) PROVE Typed'
  <2>1. TypeOK'
    BY <1>5 DEF Read, Diff, DiffAutomation, DiffScript, ResolveAutomation, ResolveScript,
       Goto, End, PC, Result, store, StoredAt, Stored, TypeOK
  <2>2. WellFormed'
    BY <1>5 DEF Read, Diff, DiffAutomation, DiffScript, ResolveAutomation, ResolveScript,
       Goto, End, StoredAt, Stored, TypeOK, WellFormed
  <2>3. QED
    BY <2>1, <2>2
<1>6. ASSUME NEW p \in Process, Validate(p) PROVE Typed'
  <2>1. TypeOK'
    BY <1>6 DEF Validate, ValidateAutomation, ValidateScript, ParseScript, Goto, PC,
       private, store, TypeOK
  <2>2. WellFormed'
    BY <1>6 DEF Validate, ValidateAutomation, ValidateScript, ParseScript, Goto, private,
       TypeOK, WellFormed
  <2>3. QED
    BY <2>1, <2>2
<1>7. ASSUME NEW p \in Process, Reread(p) PROVE Typed'
  <2>1. TypeOK'
    BY <1>7 DEF Reread, Goto, PC, store, StoredAt, Stored, TypeOK
  <2>2. WellFormed'
    BY <1>7 DEF Reread, Goto, StoredAt, Stored, TypeOK, WellFormed
  <2>3. QED
    BY <2>1, <2>2
<1>8. ASSUME NEW p \in Process, CreateBackup(p) PROVE Typed'
  <2>1. /\ job[p] # NoJob /\ job[p].target \in Target /\ job[p].op = "apply" /\ seen[p] \in Content
    BY <1>8 DEF CreateBackup, WellFormed
  <2>2. /\ backups' \in Seq(Backup) /\ Len(backups') = Len(backups) + 1
        /\ DOMAIN backups \subseteq DOMAIN backups' /\ slot'[p] \in DOMAIN backups'
        /\ slot' \in [Process -> Nat]
    BY <1>8, <2>1, TargetAssumption DEF CreateBackup, TypeOK, Backup
  <2>3. TypeOK'
    BY <1>8, <2>2 DEF CreateBackup, Goto, PC, store, TypeOK
  <2>4. WellFormed'
    BY <1>8, <2>1, <2>2 DEF CreateBackup, Goto, TypeOK, WellFormed
  <2>5. QED
    BY <2>3, <2>4
<1>9. ASSUME NEW p \in Process, FillBackup(p) PROVE Typed'
  <2>1. backups' \in Seq(Backup) /\ DOMAIN backups' = DOMAIN backups
    <3>1. seen[p] \in Content /\ slot[p] \in DOMAIN backups
      BY <1>9 DEF FillBackup, WellFormed
    <3>2. PICK c \in Content \cup {Torn, Gone} :
             backups' = [backups EXCEPT ![slot[p]] = [backups[slot[p]] EXCEPT !.content = c]]
      BY <1>9, <3>1 DEF FillBackup, TypeOK
    <3>3. [backups[slot[p]] EXCEPT !.content = c] \in Backup
      <4>1. backups[slot[p]] \in Backup
        BY <3>1 DEF TypeOK
      <4>2. QED
        BY <4>1 DEF Backup
    <3>4. QED
      BY <3>1, <3>2, <3>3 DEF TypeOK
  <2>2. TypeOK'
    BY <1>9, <2>1 DEF FillBackup, Goto, PC, private, store, TypeOK
  <2>3. WellFormed'
    BY <1>9, <2>1 DEF FillBackup, Goto, private, TypeOK, WellFormed
  <2>4. QED
    BY <2>2, <2>3
<1>10. ASSUME NEW p \in Process, FillFails(p) PROVE Typed'
  <2>1. backups' \in Seq(Backup) /\ DOMAIN backups' = DOMAIN backups
    <3>1. seen[p] \in Content /\ slot[p] \in DOMAIN backups
      BY <1>10 DEF FillFails, WellFormed
    <3>2. PICK c \in Content \cup {Torn, Gone} :
             backups' = [backups EXCEPT ![slot[p]] = [backups[slot[p]] EXCEPT !.content = c]]
      BY <1>10, <3>1 DEF FillFails, TypeOK
    <3>3. [backups[slot[p]] EXCEPT !.content = c] \in Backup
      <4>1. backups[slot[p]] \in Backup
        BY <3>1 DEF TypeOK
      <4>2. QED
        BY <4>1 DEF Backup
    <3>4. QED
      BY <3>1, <3>2, <3>3 DEF TypeOK
  <2>2. TypeOK'
    BY <1>10, <2>1 DEF FillFails, End, PC, Result, private, store, TypeOK
  <2>3. WellFormed'
    BY <1>10, <2>1 DEF FillFails, End, private, TypeOK, WellFormed
  <2>4. QED
    BY <2>2, <2>3
<1>11. ASSUME NEW p \in Process, FindBackup(p) PROVE Typed'
  <2>1. job[p] \in Job /\ job[p] # NoJob /\ job[p].op = "rollback"
    BY <1>11 DEF FindBackup, TypeOK, WellFormed
  <2>2. PICK i \in Newest(job[p].target) :
           /\ backups[i].content # Torn
           /\ job' = [job EXCEPT ![p].target = IF @ = AnyBackup THEN backups[i].key ELSE @,
                                 ![p].new = backups[i].content]
           /\ slot' = [slot EXCEPT ![p] = i]
    BY <1>11 DEF FindBackup
  <2>3. backups[i].content \in Content /\ backups[i].key \in Key /\ i \in Nat
    <3>1. i \in DOMAIN backups /\ backups[i].content # Gone
      BY <2>2 DEF Newest, Matching
    <3>2. backups[i] \in Backup /\ i \in Nat
      BY <3>1 DEF TypeOK
    <3>3. QED
      BY <2>2, <3>1, <3>2 DEF Backup
  <2> DEFINE f == [job[p] EXCEPT !.target = IF @ = AnyBackup THEN backups[i].key ELSE @,
                                 !.new = backups[i].content]
  <2>4. /\ job' \in [Process -> Job] /\ slot' \in [Process -> Nat]
        /\ job'[p] # NoJob /\ job'[p].op = "rollback"
        /\ \A q \in Process : q # p => job'[q] = job[q]
    <3>1. f \in Job /\ f # NoJob /\ f.op = "rollback"
      BY <2>1, <2>3, FoundJob
    <3>2. job' = [job EXCEPT ![p] = f]
      BY <2>2 DEF TypeOK
    <3>3. QED
      BY <3>1, <3>2, <2>2, <2>3 DEF TypeOK
  <2>5. TypeOK'
    BY <1>11, <2>4 DEF FindBackup, Goto, PC, store, TypeOK
  <2>6. WellFormed'
    BY <1>11, <2>4 DEF FindBackup, Goto, TypeOK, WellFormed
  <2>7. QED
    BY <2>5, <2>6
<1>12. ASSUME NEW p \in Process, Send(p) PROVE Typed'
  <2>1. job[p] \in Job /\ job[p] # NoJob
    BY <1>12 DEF Send, TypeOK, WellFormed
  <2>2. wire' \subseteq Request
    BY <1>12, <2>1, JobFields DEF Send, TypeOK, Request
  <2>3. TypeOK'
    BY <1>12, <2>2 DEF Send, Goto, PC, TypeOK
  <2>4. WellFormed'
    BY <1>12 DEF Send, Goto, TypeOK, WellFormed
  <2>5. QED
    BY <2>3, <2>4
<1>13. ASSUME NEW p \in Process, Fault(p) PROVE Typed'
  <2>1. TypeOK'
    BY <1>13 DEF Fault, Goto, End, PC, Result, private, store, TypeOK
  <2>2. WellFormed'
    BY <1>13 DEF Fault, Goto, End, private, TypeOK, WellFormed
  <2>3. QED
    BY <2>1, <2>2
<1>14. ASSUME NEW p \in Process, Exit(p) \/ Crash(p) PROVE Typed'
  <2>1. wire' \subseteq Request
    <3>1. ASSUME NEW r \in Request PROVE [r EXCEPT !.by = Nobody, !.try = 1] \in Request
      <4>1. 1 \in 1 .. MaxAttempts
        OBVIOUS
      <4>2. QED
        BY <4>1 DEF Request
    <3>2. Abandoned(p) \subseteq Request
      BY <3>1 DEF Abandoned, TypeOK
    <3>3. QED
      BY <1>14, <3>2 DEF Exit, Crash, Leave
  <2>2. TypeOK'
    <3>1. Leave(p)
      BY <1>14 DEF Exit, Crash
    <3>2. QED
      BY <3>1, <2>1 DEF Leave, PC, Result, Job, Stored, TypeOK
  <2>3. WellFormed'
    BY <1>14 DEF Exit, Crash, Leave, TypeOK, WellFormed
  <2>4. QED
    BY <2>2, <2>3
<1>15. ASSUME NEW p \in Process, Cancel(p) PROVE Typed'
  <2>1. TypeOK'
    BY <1>15 DEF Cancel, control, store, TypeOK
  <2>2. WellFormed'
    BY <1>15 DEF Cancel, control, TypeOK, WellFormed
  <2>3. QED
    BY <2>1, <2>2
<1>16. ASSUME NEW r \in wire, Serve(r) PROVE Typed'
  <2>1. TypeOK'
    BY <1>16 DEF Serve, End, control, private, PC, Result, Permitted, Request, Awaited,
       TypeOK
  <2>2. WellFormed'
    BY <1>16 DEF Serve, End, control, private, Awaited, TypeOK, WellFormed
  <2>3. QED
    BY <2>1, <2>2
<1>17. ASSUME NEW r \in wire, Lose(r) PROVE Typed'
  <2>1. TypeOK'
    BY <1>17 DEF Lose, control, private, TypeOK
  <2>2. WellFormed'
    BY <1>17 DEF Lose, control, private, TypeOK, WellFormed
  <2>3. QED
    BY <2>1, <2>2
<1>18. ASSUME NEW t \in Target, ForeignWrite(t) PROVE Typed'
  <2>1. TypeOK'
    BY <1>18 DEF ForeignWrite, control, private, TypeOK
  <2>2. WellFormed'
    BY <1>18 DEF ForeignWrite, control, private, TypeOK, WellFormed
  <2>3. QED
    BY <2>1, <2>2
<1>19. CASE UNCHANGED vars
  BY <1>19 DEF vars, control, private, store, TypeOK, WellFormed
<1>20. QED
  BY <1>1, <1>2, <1>3, <1>4, <1>5, <1>6, <1>7, <1>8, <1>9, <1>10, <1>11, <1>12, <1>13,
  <1>14, <1>15, <1>16, <1>17, <1>18, <1>19 DEF Next, Step

-----------------------------------------------------------------------------
(* Requests and their senders *)

\* Nothing is on the wire yet.
LEMMA OwnedInit == Init => OwnedByHolder
  BY DEF Init, OwnedByHolder

\* A request is owned from the moment it is sent until its sender leaves.
LEMMA OwnedStep ==
  ASSUME TypeOK, LockHeld, OwnedByHolder, [Next]_vars
  PROVE  OwnedByHolder'
<1> USE DistinctAssumption
<1> USE DEF OwnedByHolder, TypeOK, Request
<1>1. ASSUME NEW p \in Process, Invoke(p) PROVE OwnedByHolder'
  BY <1>1 DEF Invoke, Goto, store
<1>2. ASSUME NEW p \in Process, AcquireLock(p) PROVE OwnedByHolder'
  BY <1>2 DEF AcquireLock, Goto, private
<1>3. ASSUME NEW p \in Process, PollAgain(p) PROVE OwnedByHolder'
  BY <1>3 DEF PollAgain, control, store
<1>4. ASSUME NEW p \in Process, GiveUp(p) PROVE OwnedByHolder'
  BY <1>4 DEF GiveUp, End, private, store
<1>5. ASSUME NEW p \in Process, Read(p) PROVE OwnedByHolder'
  BY <1>5 DEF Read, Diff, DiffAutomation, DiffScript, ResolveAutomation, ResolveScript,
     Goto, End, store
<1>6. ASSUME NEW p \in Process, Validate(p) PROVE OwnedByHolder'
  BY <1>6 DEF Validate, ValidateAutomation, ValidateScript, ParseScript, Goto, private,
     store
<1>7. ASSUME NEW p \in Process, Reread(p) PROVE OwnedByHolder'
  BY <1>7 DEF Reread, Goto, store
<1>8. ASSUME NEW p \in Process, Abort(p) PROVE OwnedByHolder'
  BY <1>8 DEF Abort, End, private, store
<1>9. ASSUME NEW p \in Process, CreateBackup(p) PROVE OwnedByHolder'
  BY <1>9 DEF CreateBackup, Goto, store
<1>10. ASSUME NEW p \in Process, FillBackup(p) PROVE OwnedByHolder'
  BY <1>10 DEF FillBackup, Goto, private, store
<1>11. ASSUME NEW p \in Process, FillFails(p) PROVE OwnedByHolder'
  BY <1>11 DEF FillFails, End, private, store
<1>12. ASSUME NEW p \in Process, FindBackup(p) PROVE OwnedByHolder'
  BY <1>12 DEF FindBackup, Goto, store
<1>13. ASSUME NEW p \in Process, Send(p) PROVE OwnedByHolder'
  <2>1. holder = p
    BY <1>13 DEF Send, LockHeld, Locked, PC
  <2>2. QED
    BY <1>13, <2>1 DEF Send, Goto, store
<1>14. ASSUME NEW p \in Process, NeverSent(p) PROVE OwnedByHolder'
  BY <1>14 DEF NeverSent, End, private, store
<1>15. ASSUME NEW p \in Process, Fault(p) PROVE OwnedByHolder'
  BY <1>15 DEF Fault, Goto, End, private, store
<1>16. ASSUME NEW p \in Process, Leave(p) PROVE OwnedByHolder'
  <2>1. ASSUME NEW r \in wire', r.by # Nobody PROVE r \in wire /\ r.by # p
    <3>1. r \in Abandoned(p)
      BY <1>16 DEF Leave
    <3>2. ASSUME NEW q \in wire, r = [q EXCEPT !.by = Nobody, !.try = 1] PROVE FALSE
      BY <2>1, <3>2
    <3>3. r \in {q \in wire : q.by # p} \/ \E q \in wire : r = [q EXCEPT !.by = Nobody, !.try = 1]
      BY <3>1 DEF Abandoned
    <3>4. QED
      BY <3>2, <3>3
  <2>2. QED
    BY <1>16, <2>1 DEF Leave
<1>17. ASSUME NEW p \in Process, Cancel(p) PROVE OwnedByHolder'
  BY <1>17 DEF Cancel, control, store
<1>18. ASSUME NEW r \in wire, Serve(r) PROVE OwnedByHolder'
  BY <1>18 DEF Serve, End, control, private, Awaited
<1>19. ASSUME NEW r \in wire, Lose(r) PROVE OwnedByHolder'
  BY <1>19 DEF Lose, control, private
<1>20. ASSUME NEW t \in Target, ForeignWrite(t) PROVE OwnedByHolder'
  BY <1>20 DEF ForeignWrite, control, private
<1>21. CASE UNCHANGED vars
  BY <1>21 DEF vars, control, private, store
<1>22. QED
  BY <1>1, <1>2, <1>3, <1>4, <1>5, <1>6, <1>7, <1>8, <1>9, <1>10, <1>11, <1>12, <1>13,
  <1>14, <1>15, <1>16, <1>17, <1>18, <1>19, <1>20, <1>21 DEF Next, Step, Exit, Crash

-----------------------------------------------------------------------------
(* Backups: from the fetch to the write that replaces what was fetched *)

\* No file has been written.
LEMMA BackupsInit ==
  Init => /\ NamedAfterTarget
          /\ \A p \in Process : HasCurrentBackup(p) /\ HasNewestBackup(p) /\ HasDone(p)
  BY DEF Init, NamedAfterTarget, HasCurrentBackup, HasNewestBackup, HasDone

\* What a step that fills p's backup file leaves as it was.
UpdatesContent(p) ==
  /\ DOMAIN backups' = DOMAIN backups
  /\ Len(backups') = Len(backups)
  /\ \A i \in DOMAIN backups :
        /\ backups'[i].key = backups[i].key
        /\ backups'[i].of = backups[i].of
        /\ i # slot[p] => backups'[i] = backups[i]

\* Filling a file, or failing to, changes the content of that file only.
LEMMA ContentOnly ==
  ASSUME TypeOK, WellFormed, NEW p \in Process, FillBackup(p) \/ FillFails(p)
  PROVE  UpdatesContent(p)
<1>1. slot[p] \in DOMAIN backups /\ backups \in Seq(Backup)
  BY DEF WellFormed, TypeOK, FillBackup, FillFails
<1>2. PICK c : backups' = [backups EXCEPT ![slot[p]] = [backups[slot[p]] EXCEPT !.content = c]]
  BY <1>1 DEF FillBackup, FillFails
<1>3. \A i \in DOMAIN backups : backups[i] \in Backup
  BY <1>1
<1>4. QED
  BY <1>1, <1>2, <1>3 DEF UpdatesContent, Backup

\* A backup keeps the name of the entry it was taken from.
LEMMA NamedStep ==
  ASSUME TypeOK, WellFormed, NamedAfterTarget, [Next]_vars
  PROVE  NamedAfterTarget'
<1> USE DEF NamedAfterTarget
<1>1. ASSUME NEW p \in Process, Invoke(p) PROVE NamedAfterTarget'
  BY <1>1 DEF Invoke, Goto, store
<1>2. ASSUME NEW p \in Process, AcquireLock(p) PROVE NamedAfterTarget'
  BY <1>2 DEF AcquireLock, Goto, private
<1>3. ASSUME NEW p \in Process, PollAgain(p) PROVE NamedAfterTarget'
  BY <1>3 DEF PollAgain, control, store
<1>4. ASSUME NEW p \in Process, GiveUp(p) PROVE NamedAfterTarget'
  BY <1>4 DEF GiveUp, End, private, store
<1>5. ASSUME NEW p \in Process, Read(p) PROVE NamedAfterTarget'
  BY <1>5 DEF Read, Diff, DiffAutomation, DiffScript, ResolveAutomation, ResolveScript,
     Goto, End, store
<1>6. ASSUME NEW p \in Process, Validate(p) PROVE NamedAfterTarget'
  BY <1>6 DEF Validate, ValidateAutomation, ValidateScript, ParseScript, Goto, private,
     store
<1>7. ASSUME NEW p \in Process, Reread(p) PROVE NamedAfterTarget'
  BY <1>7 DEF Reread, Goto, store
<1>8. ASSUME NEW p \in Process, Abort(p) PROVE NamedAfterTarget'
  BY <1>8 DEF Abort, End, private, store
<1>9. ASSUME NEW p \in Process, CreateBackup(p) PROVE NamedAfterTarget'
  <2>1. backups' = Append(backups, [key |-> BackupId[job[p].target],
                                    of |-> job[p].target, content |-> Torn])
    BY <1>9 DEF CreateBackup
  <2>2. backups \in Seq(Backup)
    BY DEF TypeOK
  <2>3. ASSUME NEW i \in DOMAIN backups'
        PROVE  (backups[i])'.key = BackupId[(backups[i])'.of]
    BY <2>1, <2>2, <2>3
  <2>4. QED
    BY <2>3
<1>10. ASSUME NEW p \in Process, FillBackup(p) PROVE NamedAfterTarget'
  <2>1. UpdatesContent(p)
    BY <1>10, ContentOnly
  <2>2. QED
    BY <2>1 DEF UpdatesContent
<1>11. ASSUME NEW p \in Process, FillFails(p) PROVE NamedAfterTarget'
  <2>1. UpdatesContent(p)
    BY <1>11, ContentOnly
  <2>2. QED
    BY <2>1 DEF UpdatesContent
<1>12. ASSUME NEW p \in Process, FindBackup(p) PROVE NamedAfterTarget'
  BY <1>12 DEF FindBackup, Goto, store
<1>13. ASSUME NEW p \in Process, Send(p) PROVE NamedAfterTarget'
  BY <1>13 DEF Send, Goto
<1>14. ASSUME NEW p \in Process, NeverSent(p) PROVE NamedAfterTarget'
  BY <1>14 DEF NeverSent, End, private, store
<1>15. ASSUME NEW p \in Process, Fault(p) PROVE NamedAfterTarget'
  BY <1>15 DEF Fault, Goto, End, private, store
<1>16. ASSUME NEW p \in Process, Leave(p) PROVE NamedAfterTarget'
  BY <1>16 DEF Leave
<1>17. ASSUME NEW p \in Process, Cancel(p) PROVE NamedAfterTarget'
  BY <1>17 DEF Cancel, control, store
<1>18. ASSUME NEW r \in wire, Serve(r) PROVE NamedAfterTarget'
  BY <1>18 DEF Serve, End, control, private, Awaited
<1>19. ASSUME NEW r \in wire, Lose(r) PROVE NamedAfterTarget'
  BY <1>19 DEF Lose, control, private
<1>20. ASSUME NEW t \in Target, ForeignWrite(t) PROVE NamedAfterTarget'
  BY <1>20 DEF ForeignWrite, control, private
<1>21. CASE UNCHANGED vars
  BY <1>21 DEF vars, control, private, store
<1>22. QED
  BY <1>1, <1>2, <1>3, <1>4, <1>5, <1>6, <1>7, <1>8, <1>9, <1>10, <1>11, <1>12, <1>13,
  <1>14, <1>15, <1>16, <1>17, <1>18, <1>19, <1>20, <1>21 DEF Next, Step, Exit, Crash


\* A rollback that found its backup is still a rollback.
LEMMA FoundOp ==
  ASSUME TypeOK, WellFormed, NEW p \in Process, FindBackup(p)
  PROVE  job'[p].op = job[p].op
<1>1. job[p] # NoJob /\ job[p] \in Job
  BY DEF FindBackup, WellFormed, TypeOK
<1>2. PICK i : job' = [job EXCEPT ![p].target = IF @ = AnyBackup THEN backups[i].key ELSE @,
                                  ![p].new = backups[i].content]
  BY DEF FindBackup
<1>3. job' = [job EXCEPT ![p] = [job[p] EXCEPT
                !.target = IF @ = AnyBackup THEN backups[i].key ELSE @,
                !.new = backups[i].content]]
  BY <1>2 DEF TypeOK
<1>4. QED
  BY <1>1, <1>3 DEF Job, TypeOK

\* From the fetch of the stored entry to the write, a backup stays current
\* unless somebody who does not hold the lock changes the entry.
LEMMA CurrentStep ==
  ASSUME TypeOK, WellFormed, LockHeld, OwnedByHolder, [Next]_vars, NEW q \in Process, HasCurrentBackup(q)
  PROVE  HasCurrentBackup(q)'
<1>a. pc'[q] \notin {"validate", "reread", "save", "fill", "write", "await"} => HasCurrentBackup(q)'
  BY DEF HasCurrentBackup
<1>b. /\ pc'[q] = pc[q] /\ job'[q] = job[q] /\ seen'[q] = seen[q] /\ slot'[q] = slot[q]
      /\ backups' = backups /\ entry' = entry /\ (undisturbed' => undisturbed)
      => HasCurrentBackup(q)'
  BY DEF HasCurrentBackup
<1>c. ASSUME NEW p \in Process, p # q, pc[p] \in Locked, pc'[q] = pc[q]
      PROVE  HasCurrentBackup(q)'
  BY <1>a, <1>c DEF LockHeld, Locked, PC
<1>1. ASSUME NEW p \in Process, Invoke(p) PROVE HasCurrentBackup(q)'
  BY <1>1, <1>a, <1>b, <1>c DEF Invoke, Goto, store, Locked, PC, TypeOK
<1>2. ASSUME NEW p \in Process, AcquireLock(p) PROVE HasCurrentBackup(q)'
  <2>1. CASE p # q
    BY <1>2, <2>1, <1>a, DistinctAssumption DEF AcquireLock, Goto, TypeOK, LockHeld,
       Locked, PC
  <2>2. CASE p = q
    <3>1. job[q].op = "apply" => pc'[q] = "read"
      BY <1>2, <2>2 DEF AcquireLock, Goto, FirstStep, TypeOK
    <3>2. job' = job
      BY <1>2 DEF AcquireLock, private
    <3>3. QED
      BY <3>1, <3>2 DEF HasCurrentBackup
  <2>3. QED
    BY <2>1, <2>2
<1>3. ASSUME NEW p \in Process, PollAgain(p) PROVE HasCurrentBackup(q)'
  BY <1>3, <1>a, <1>b, <1>c DEF PollAgain, control, store, Locked, PC, TypeOK
<1>4. ASSUME NEW p \in Process, GiveUp(p) PROVE HasCurrentBackup(q)'
  BY <1>4, <1>a, <1>b, <1>c DEF GiveUp, End, private, store, Locked, PC, TypeOK
<1>5. ASSUME NEW p \in Process, Read(p) PROVE HasCurrentBackup(q)'
  <2>1. CASE p # q
    BY <1>5, <2>1, <1>c DEF Read, Diff, DiffAutomation, DiffScript, ResolveAutomation,
       ResolveScript, Goto, End, Locked, PC, TypeOK
  <2>2. CASE p = q
    BY <1>5, <2>2, <1>a DEF Read, Diff, DiffAutomation, DiffScript, ResolveAutomation,
       ResolveScript, Goto, End, HasCurrentBackup, WellFormed, TypeOK, store, StoredAt
  <2>3. QED
    BY <2>1, <2>2
<1>6. ASSUME NEW p \in Process, Validate(p) PROVE HasCurrentBackup(q)'
  <2>1. CASE p # q
    BY <1>6, <2>1, <1>c DEF Validate, ValidateAutomation, ValidateScript, ParseScript,
       Goto, private, Locked, PC, TypeOK
  <2>2. CASE p = q
    BY <1>6, <2>2, <1>a DEF Validate, ValidateAutomation, ValidateScript, ParseScript,
       Goto, private, HasCurrentBackup, WellFormed, TypeOK, store
  <2>3. QED
    BY <2>1, <2>2
<1>7. ASSUME NEW p \in Process, Reread(p) PROVE HasCurrentBackup(q)'
  <2>1. CASE p # q
    BY <1>7, <2>1, <1>c DEF Reread, Goto, Locked, PC, TypeOK
  <2>2. CASE p = q
    BY <1>7, <2>2, <1>a DEF Reread, Goto, HasCurrentBackup, WellFormed, TypeOK, store,
       StoredAt
  <2>3. QED
    BY <2>1, <2>2
<1>8. ASSUME NEW p \in Process, Abort(p) PROVE HasCurrentBackup(q)'
  BY <1>8, <1>a, <1>b, <1>c DEF Abort, End, private, store, Locked, PC, TypeOK
<1>9. ASSUME NEW p \in Process, CreateBackup(p) PROVE HasCurrentBackup(q)'
  <2>1. CASE p # q
    BY <1>9, <2>1, <1>c DEF CreateBackup, Goto, Locked, PC, TypeOK
  <2>2. CASE p = q
    BY <1>9, <2>2, <1>a DEF CreateBackup, Goto, HasCurrentBackup, WellFormed, TypeOK, store
  <2>3. QED
    BY <2>1, <2>2
<1>10. ASSUME NEW p \in Process, FillBackup(p) PROVE HasCurrentBackup(q)'
  <2>1. CASE p # q
    BY <1>10, <2>1, <1>c DEF FillBackup, Goto, Locked, PC, TypeOK
  <2>2. CASE p = q
    <3>1. /\ slot[q] \in DOMAIN backups /\ seen[q] \in Content /\ job[q] # NoJob /\ job[q].op = "apply"
          /\ backups[slot[q]] \in Backup
      BY <1>10, <2>2 DEF FillBackup, WellFormed, TypeOK
    <3>2. backups' = [backups EXCEPT ![slot[q]] = [backups[slot[q]] EXCEPT !.content = seen[q]]]
      BY <1>10, <2>2, <3>1 DEF FillBackup, TypeOK
    <3>3. backups'[slot[q]] = [key |-> BackupId[job[q].target], of |-> job[q].target,
    content |-> seen[q]]
      BY <1>10, <2>2, <3>1, <3>2 DEF FillBackup, HasCurrentBackup, Backup
    <3>4. Len(backups') = Len(backups) /\ DOMAIN backups' = DOMAIN backups
      BY <3>1, <3>2 DEF TypeOK
    <3>5. QED
      BY <1>10, <2>2, <3>1, <3>3, <3>4 DEF FillBackup, Goto, private, store,
         HasCurrentBackup, TypeOK
  <2>3. QED
    BY <2>1, <2>2
<1>11. ASSUME NEW p \in Process, FillFails(p) PROVE HasCurrentBackup(q)'
  BY <1>11, <1>a, <1>b, <1>c DEF FillFails, End, private, store, Locked, PC, TypeOK
<1>12. ASSUME NEW p \in Process, FindBackup(p) PROVE HasCurrentBackup(q)'
  <2>1. CASE p # q
    BY <1>12, <2>1, <1>c DEF FindBackup, Goto, Locked, PC, TypeOK
  <2>2. CASE p = q
    <3>1. job'[q].op = job[q].op /\ job[q].op = "rollback"
      BY <1>12, <2>2, FoundOp DEF FindBackup, WellFormed
    <3>2. QED
      BY <3>1 DEF HasCurrentBackup
  <2>3. QED
    BY <2>1, <2>2
<1>13. ASSUME NEW p \in Process, Send(p) PROVE HasCurrentBackup(q)'
  <2>1. CASE p # q
    BY <1>13, <2>1, <1>c DEF Send, Goto, Locked, PC, TypeOK
  <2>2. CASE p = q
    BY <1>13, <2>2, <1>a DEF Send, Goto, HasCurrentBackup, WellFormed, TypeOK, store
  <2>3. QED
    BY <2>1, <2>2
<1>14. ASSUME NEW p \in Process, NeverSent(p) PROVE HasCurrentBackup(q)'
  BY <1>14, <1>a, <1>b, <1>c DEF NeverSent, End, private, store, Locked, PC, TypeOK
<1>15. ASSUME NEW p \in Process, Fault(p) PROVE HasCurrentBackup(q)'
  <2>1. CASE p # q
    BY <1>15, <2>1, <1>c DEF Fault, Goto, End, private, Locked, PC, TypeOK
  <2>2. CASE p = q
    BY <1>15, <2>2, <1>a DEF Fault, Goto, End, private, HasCurrentBackup, WellFormed,
       TypeOK, store
  <2>3. QED
    BY <2>1, <2>2
<1>16. ASSUME NEW p \in Process, Leave(p) PROVE HasCurrentBackup(q)'
  BY <1>16, <1>a, <1>b, <1>c DEF Leave, store, Locked, PC, TypeOK
<1>17. ASSUME NEW p \in Process, Cancel(p) PROVE HasCurrentBackup(q)'
  BY <1>17, <1>a, <1>b, <1>c DEF Cancel, control, store, Locked, PC, TypeOK
<1>18. ASSUME NEW r \in wire, Serve(r) PROVE HasCurrentBackup(q)'
  <2>1. CASE r.by = Nobody
    <3>1. undisturbed' => undisturbed /\ entry' = entry
      BY <1>18, <2>1 DEF Serve
    <3>2. QED
      BY <1>18, <2>1, <3>1 DEF Serve, Awaited, control, private, HasCurrentBackup
  <2>2. CASE r.by # Nobody /\ r.by # q
    <3>1. pc[q] \notin Locked /\ pc'[q] = pc[q]
      BY <1>18, <2>2 DEF Serve, Awaited, End, control, OwnedByHolder, LockHeld, TypeOK
    <3>2. QED
      BY <3>1, <1>a DEF Locked, PC
  <2>3. CASE r.by # Nobody /\ r.by = q
    <3>1. /\ pc'[q] \in {pc[q], "exit"} /\ pc[q] \in {"write", "await", "exit"}
          /\ r.target = job[q].target /\ r.new = job[q].new
          /\ (undisturbed' => undisturbed)
      BY <1>18, <2>3 DEF Serve, End, control, OwnedByHolder, TypeOK
    <3>2. entry'[job[q].target] \in {entry[job[q].target], job[q].new}
      BY <1>18, <3>1 DEF Serve, TypeOK, Permitted
    <3>3. QED
      BY <1>18, <3>1, <3>2 DEF Serve, private, HasCurrentBackup
  <2>4. QED
    BY <2>1, <2>2, <2>3
<1>19. ASSUME NEW r \in wire, Lose(r) PROVE HasCurrentBackup(q)'
  BY <1>19, <1>b DEF Lose, control, private
<1>20. ASSUME NEW t \in Target, ForeignWrite(t) PROVE HasCurrentBackup(q)'
  BY <1>20 DEF ForeignWrite, control, private, HasCurrentBackup
<1>21. CASE UNCHANGED vars
  BY <1>21, <1>b DEF vars, control, private, store
<1>22. QED
  BY <1>1, <1>2, <1>3, <1>4, <1>5, <1>6, <1>7, <1>8, <1>9, <1>10, <1>11, <1>12, <1>13,
  <1>14, <1>15, <1>16, <1>17, <1>18, <1>19, <1>20, <1>21 DEF Next, Step, Exit, Crash

\* What a rollback found is still the newest backup when it is written back.
LEMMA NewestStep ==
  ASSUME TypeOK, WellFormed, LockHeld, [Next]_vars, NEW q \in Process, HasNewestBackup(q)
  PROVE  HasNewestBackup(q)'
<1>a. pc'[q] \notin {"write", "await"} => HasNewestBackup(q)'
  BY DEF HasNewestBackup
<1>b. /\ pc'[q] \in {"write", "await"} => pc[q] \in {"write", "await"}
      /\ job'[q] = job[q] /\ slot'[q] = slot[q] /\ backups' = backups
      => HasNewestBackup(q)'
  BY DEF HasNewestBackup, Newest, Matching
<1>c. ASSUME NEW p \in Process, p # q, pc[p] \in Locked, pc'[q] = pc[q]
      PROVE  HasNewestBackup(q)'
  BY <1>a, <1>c DEF LockHeld, Locked, PC
<1>1. ASSUME NEW p \in Process, Invoke(p) PROVE HasNewestBackup(q)'
  BY <1>1, <1>a, <1>b, <1>c DEF Invoke, Goto, store, Locked, PC, TypeOK
<1>2. ASSUME NEW p \in Process, AcquireLock(p) PROVE HasNewestBackup(q)'
  <2>1. CASE p # q
    BY <1>2, <2>1, <1>b DEF AcquireLock, Goto, private, TypeOK
  <2>2. CASE p = q
    BY <1>2, <2>2, <1>a DEF AcquireLock, Goto, FirstStep, TypeOK
  <2>3. QED
    BY <2>1, <2>2
<1>3. ASSUME NEW p \in Process, PollAgain(p) PROVE HasNewestBackup(q)'
  BY <1>3, <1>a, <1>b, <1>c DEF PollAgain, control, store, Locked, PC, TypeOK
<1>4. ASSUME NEW p \in Process, GiveUp(p) PROVE HasNewestBackup(q)'
  BY <1>4, <1>a, <1>b, <1>c DEF GiveUp, End, private, store, Locked, PC, TypeOK
<1>5. ASSUME NEW p \in Process, Read(p) PROVE HasNewestBackup(q)'
  <2>1. CASE p # q
    BY <1>5, <2>1, <1>c DEF Read, Diff, DiffAutomation, DiffScript, ResolveAutomation,
       ResolveScript, Goto, End, Locked, PC, TypeOK
  <2>2. CASE p = q
    BY <1>5, <2>2, <1>a DEF Read, Diff, DiffAutomation, DiffScript, ResolveAutomation,
       ResolveScript, Goto, End, HasNewestBackup, WellFormed, TypeOK, store
  <2>3. QED
    BY <2>1, <2>2
<1>6. ASSUME NEW p \in Process, Validate(p) PROVE HasNewestBackup(q)'
  <2>1. CASE p # q
    BY <1>6, <2>1, <1>c DEF Validate, ValidateAutomation, ValidateScript, ParseScript,
       Goto, private, Locked, PC, TypeOK
  <2>2. CASE p = q
    BY <1>6, <2>2, <1>a DEF Validate, ValidateAutomation, ValidateScript, ParseScript,
       Goto, private, HasNewestBackup, WellFormed, TypeOK, store
  <2>3. QED
    BY <2>1, <2>2
<1>7. ASSUME NEW p \in Process, Reread(p) PROVE HasNewestBackup(q)'
  BY <1>7, <1>a, <1>b, <1>c DEF Reread, Goto, store, Locked, PC, TypeOK
<1>8. ASSUME NEW p \in Process, Abort(p) PROVE HasNewestBackup(q)'
  BY <1>8, <1>a, <1>b, <1>c DEF Abort, End, private, store, Locked, PC, TypeOK
<1>9. ASSUME NEW p \in Process, CreateBackup(p) PROVE HasNewestBackup(q)'
  BY <1>9, <1>a, <1>b, <1>c DEF CreateBackup, Goto, store, Locked, PC, TypeOK
<1>10. ASSUME NEW p \in Process, FillBackup(p) PROVE HasNewestBackup(q)'
  <2>1. CASE p # q
    BY <1>10, <2>1, <1>c DEF FillBackup, Goto, private, Locked, PC, TypeOK
  <2>2. CASE p = q
    BY <1>10, <2>2, <1>a DEF FillBackup, Goto, private, HasNewestBackup, WellFormed,
       TypeOK, store, private
  <2>3. QED
    BY <2>1, <2>2
<1>11. ASSUME NEW p \in Process, FillFails(p) PROVE HasNewestBackup(q)'
  BY <1>11, <1>a, <1>b, <1>c DEF FillFails, End, private, store, Locked, PC, TypeOK
<1>12. ASSUME NEW p \in Process, FindBackup(p) PROVE HasNewestBackup(q)'
  <2>1. CASE p # q
    BY <1>12, <2>1, <1>c DEF FindBackup, Goto, Locked, PC, TypeOK
  <2>2. CASE p = q
    <3>1. job[q] # NoJob /\ job[q] \in Job
      BY <1>12, <2>2 DEF FindBackup, WellFormed, TypeOK
    <3>2. PICK i \in Newest(job[q].target) :
             /\ backups[i].content # Torn
             /\ job' = [job EXCEPT ![q].target = IF @ = AnyBackup THEN backups[i].key ELSE @,
                                   ![q].new = backups[i].content]
             /\ slot' = [slot EXCEPT ![q] = i]
      BY <1>12, <2>2 DEF FindBackup
    <3>3. /\ i \in DOMAIN backups /\ backups[i].content # Gone
          /\ job[q].target \in {AnyBackup, backups[i].key}
          /\ \A j \in Matching(job[q].target) : j <= i
      BY <3>2 DEF Newest, Matching
    <3>4. backups[i].content \in Content /\ backups[i].key \in Key /\ backups' = backups
      <4>1. backups[i] \in Backup
        BY <3>3 DEF TypeOK
      <4>2. QED
        BY <1>12, <3>2, <3>3, <4>1 DEF FindBackup, Backup
    <3>5. /\ job'[q].target = backups[i].key /\ job'[q].new = backups[i].content
          /\ slot'[q] = i
      <4>1. /\ job'[q].target = IF job[q].target = AnyBackup THEN backups[i].key ELSE job[q].target
            /\ job'[q].new = backups[i].content
        <5>1. job' = [job EXCEPT ![q] = [job[q] EXCEPT
                        !.target = IF @ = AnyBackup THEN backups[i].key ELSE @,
                        !.new = backups[i].content]]
          BY <3>2 DEF TypeOK
        <5>2. QED
          BY <3>1, <5>1 DEF Job, TypeOK
      <4>2. QED
        BY <4>1, <3>2, <3>3 DEF TypeOK
    <3>6. i \in Newest(job'[q].target)
      <4>1. i \in Matching(backups[i].key)
        BY <3>3 DEF Matching
      <4>2. Matching(backups[i].key) \subseteq Matching(job[q].target)
        BY <3>3 DEF Matching
      <4>3. QED
        BY <3>3, <3>5, <4>1, <4>2 DEF Newest
    <3>7. QED
      BY <3>4, <3>5, <3>6 DEF HasNewestBackup, Newest, Matching
  <2>3. QED
    BY <2>1, <2>2
<1>13. ASSUME NEW p \in Process, Send(p) PROVE HasNewestBackup(q)'
  BY <1>13, <1>a, <1>b, <1>c DEF Send, Goto, store, Locked, PC, TypeOK
<1>14. ASSUME NEW p \in Process, NeverSent(p) PROVE HasNewestBackup(q)'
  BY <1>14, <1>a, <1>b, <1>c DEF NeverSent, End, private, store, Locked, PC, TypeOK
<1>15. ASSUME NEW p \in Process, Fault(p) PROVE HasNewestBackup(q)'
  BY <1>15, <1>a, <1>b, <1>c DEF Fault, Goto, End, private, store, Locked, PC, TypeOK
<1>16. ASSUME NEW p \in Process, Leave(p) PROVE HasNewestBackup(q)'
  BY <1>16, <1>a, <1>b, <1>c DEF Leave, store, Locked, PC, TypeOK
<1>17. ASSUME NEW p \in Process, Cancel(p) PROVE HasNewestBackup(q)'
  BY <1>17, <1>a, <1>b, <1>c DEF Cancel, control, store, Locked, PC, TypeOK
<1>18. ASSUME NEW r \in wire, Serve(r) PROVE HasNewestBackup(q)'
  BY <1>18, <1>a, <1>b DEF Serve, Awaited, End, control, private, TypeOK
<1>19. ASSUME NEW r \in wire, Lose(r) PROVE HasNewestBackup(q)'
  BY <1>19, <1>b DEF Lose, control, private
<1>20. ASSUME NEW t \in Target, ForeignWrite(t) PROVE HasNewestBackup(q)'
  BY <1>20, <1>b DEF ForeignWrite, control, private
<1>21. CASE UNCHANGED vars
  BY <1>21, <1>b DEF vars, control, private, store
<1>22. QED
  BY <1>1, <1>2, <1>3, <1>4, <1>5, <1>6, <1>7, <1>8, <1>9, <1>10, <1>11, <1>12, <1>13,
  <1>14, <1>15, <1>16, <1>17, <1>18, <1>19, <1>20, <1>21 DEF Next, Step, Exit, Crash

\* Success is reported with the lock held, and what it reports stays true.
LEMMA DoneStep ==
  ASSUME TypeOK, WellFormed, LockHeld, OwnedByHolder, [Next]_vars, NEW q \in Process, HasDone(q)
  PROVE  HasDone(q)'
<1>a. pc'[q] # "exit" \/ result'[q] # "done" => HasDone(q)'
  BY DEF HasDone
<1>b. /\ pc'[q] = pc[q] /\ result'[q] = result[q] /\ job'[q] = job[q] /\ entry' = entry
      /\ (holder = q => holder' = q) /\ (undisturbed' => undisturbed)
      => HasDone(q)'
  BY DEF HasDone, StoredAt
<1>c. ASSUME NEW p \in Process, p # q, pc[p] \in Locked,
             pc'[q] = pc[q], result'[q] = result[q]
      PROVE  HasDone(q)'
  BY <1>a, <1>c DEF LockHeld, HasDone
<1>1. ASSUME NEW p \in Process, Invoke(p) PROVE HasDone(q)'
  BY <1>1, <1>a, <1>b, <1>c DEF Invoke, Goto, store, Locked, PC, TypeOK
<1>2. ASSUME NEW p \in Process, AcquireLock(p) PROVE HasDone(q)'
  <2>1. CASE p # q
    BY <1>2, <2>1, <1>a, DistinctAssumption DEF AcquireLock, Goto, TypeOK, HasDone
  <2>2. CASE p = q
    BY <1>2, <2>2, <1>a DEF AcquireLock, Goto, FirstStep, TypeOK
  <2>3. QED
    BY <2>1, <2>2
<1>3. ASSUME NEW p \in Process, PollAgain(p) PROVE HasDone(q)'
  BY <1>3, <1>a, <1>b, <1>c DEF PollAgain, control, store, Locked, PC, TypeOK
<1>4. ASSUME NEW p \in Process, GiveUp(p) PROVE HasDone(q)'
  BY <1>4, <1>a, <1>b, <1>c DEF GiveUp, End, private, store, Locked, PC, TypeOK
<1>5. ASSUME NEW p \in Process, Read(p) PROVE HasDone(q)'
  BY <1>5, <1>a, <1>b, <1>c DEF Read, Diff, DiffAutomation, DiffScript, ResolveAutomation,
     ResolveScript, Goto, End, store, Locked, PC, TypeOK
<1>6. ASSUME NEW p \in Process, Validate(p) PROVE HasDone(q)'
  BY <1>6, <1>a, <1>b, <1>c DEF Validate, ValidateAutomation, ValidateScript, ParseScript,
     Goto, private, store, Locked, PC, TypeOK
<1>7. ASSUME NEW p \in Process, Reread(p) PROVE HasDone(q)'
  BY <1>7, <1>a, <1>b, <1>c DEF Reread, Goto, store, Locked, PC, TypeOK
<1>8. ASSUME NEW p \in Process, Abort(p) PROVE HasDone(q)'
  BY <1>8, <1>a, <1>b, <1>c DEF Abort, End, private, store, Locked, PC, TypeOK
<1>9. ASSUME NEW p \in Process, CreateBackup(p) PROVE HasDone(q)'
  BY <1>9, <1>a, <1>b, <1>c DEF CreateBackup, Goto, store, Locked, PC, TypeOK
<1>10. ASSUME NEW p \in Process, FillBackup(p) PROVE HasDone(q)'
  BY <1>10, <1>a, <1>b, <1>c DEF FillBackup, Goto, private, store, Locked, PC, TypeOK
<1>11. ASSUME NEW p \in Process, FillFails(p) PROVE HasDone(q)'
  BY <1>11, <1>a, <1>b, <1>c DEF FillFails, End, private, store, Locked, PC, TypeOK
<1>12. ASSUME NEW p \in Process, FindBackup(p) PROVE HasDone(q)'
  BY <1>12, <1>a, <1>b, <1>c DEF FindBackup, Goto, store, Locked, PC, TypeOK
<1>13. ASSUME NEW p \in Process, Send(p) PROVE HasDone(q)'
  BY <1>13, <1>a, <1>b, <1>c DEF Send, Goto, store, Locked, PC, TypeOK
<1>14. ASSUME NEW p \in Process, NeverSent(p) PROVE HasDone(q)'
  BY <1>14, <1>a, <1>b, <1>c DEF NeverSent, End, private, store, Locked, PC, TypeOK
<1>15. ASSUME NEW p \in Process, Fault(p) PROVE HasDone(q)'
  BY <1>15, <1>a, <1>b, <1>c DEF Fault, Goto, End, private, store, Locked, PC, TypeOK
<1>16. ASSUME NEW p \in Process, Leave(p) PROVE HasDone(q)'
  BY <1>16, <1>a, <1>b, <1>c DEF Leave, store, Locked, PC, TypeOK
<1>17. ASSUME NEW p \in Process, Cancel(p) PROVE HasDone(q)'
  BY <1>17, <1>a, <1>b, <1>c DEF Cancel, control, store, Locked, PC, TypeOK
<1>18. ASSUME NEW r \in wire, Serve(r) PROVE HasDone(q)'
  <2>1. CASE r.by = Nobody
    <3>1. undisturbed' => undisturbed /\ entry' = entry
      BY <1>18, <2>1 DEF Serve
    <3>2. QED
      BY <1>18, <2>1, <3>1 DEF Serve, Awaited, control, private, HasDone, StoredAt
  <2>2. CASE r.by # Nobody /\ r.by # q
    <3>1. holder # q /\ pc'[q] = pc[q] /\ result'[q] = result[q]
      BY <1>18, <2>2 DEF Serve, Awaited, End, control, OwnedByHolder, TypeOK
    <3>2. QED
      BY <3>1, <1>a DEF HasDone
  <2>3. CASE r.by # Nobody /\ r.by = q
    <3>1. /\ holder = q /\ holder' = holder /\ job' = job
          /\ r.target = job[q].target /\ r.new = job[q].new
          /\ (undisturbed' => undisturbed)
      BY <1>18, <2>3 DEF Serve, private, OwnedByHolder, TypeOK
    <3>2. CASE Awaited(r) /\ End(r.by, IF Permitted(r) THEN "done" ELSE "failed")
      <4>1. CASE Permitted(r)
        BY <1>18, <3>1, <4>1 DEF Serve, Permitted, HasDone, StoredAt, TypeOK
      <4>2. CASE ~Permitted(r)
        BY <2>3, <3>2, <4>2, <1>a DEF End, TypeOK
      <4>3. QED
        BY <4>1, <4>2
    <3>3. CASE UNCHANGED control
      <4>1. pc'[q] = pc[q] /\ result'[q] = result[q]
        BY <3>3 DEF control
      <4>2. CASE Permitted(r)
        BY <1>18, <3>1, <4>1, <4>2 DEF Serve, Permitted, HasDone, StoredAt, TypeOK
      <4>3. CASE ~Permitted(r)
        BY <1>18, <3>1, <4>1, <4>3, <1>b DEF Serve
      <4>4. QED
        BY <4>2, <4>3
    <3>4. QED
      BY <1>18, <3>2, <3>3 DEF Serve
  <2>4. QED
    BY <2>1, <2>2, <2>3
<1>19. ASSUME NEW r \in wire, Lose(r) PROVE HasDone(q)'
  BY <1>19, <1>b DEF Lose, control, private
<1>20. ASSUME NEW t \in Target, ForeignWrite(t) PROVE HasDone(q)'
  BY <1>20 DEF ForeignWrite, control, private, HasDone
<1>21. CASE UNCHANGED vars
  BY <1>21, <1>b DEF vars, control, private, store
<1>22. QED
  BY <1>1, <1>2, <1>3, <1>4, <1>5, <1>6, <1>7, <1>8, <1>9, <1>10, <1>11, <1>12, <1>13,
  <1>14, <1>15, <1>16, <1>17, <1>18, <1>19, <1>20, <1>21 DEF Next, Step, Exit, Crash

-----------------------------------------------------------------------------
(* The theorems *)

\* The inductive invariant holds initially and is kept by every step.
LEMMA IInvInit == Init => IInv
  BY TypedInit, LockHeldInit, OwnedInit, BackupsInit DEF IInv, Typed

\* One lemma per part, put together.
LEMMA IInvStep == IInv /\ [Next]_vars => IInv'
<1> SUFFICES ASSUME IInv, [Next]_vars PROVE IInv'
  OBVIOUS
<1>1. TypeOK /\ WellFormed /\ NamedAfterTarget /\ LockHeld /\ OwnedByHolder
  BY DEF IInv
<1>2. TypeOK' /\ WellFormed'
  BY <1>1, TypedStep DEF Typed
<1>3. LockHeld'
  BY <1>1, LockHeldStep DEF TypeOK
<1>4. OwnedByHolder'
  BY <1>1, OwnedStep
<1>5. NamedAfterTarget'
  BY <1>1, NamedStep
<1>6. ASSUME NEW q \in Process
      PROVE  HasCurrentBackup(q)' /\ HasNewestBackup(q)' /\ HasDone(q)'
  <2>1. HasCurrentBackup(q) /\ HasNewestBackup(q) /\ HasDone(q)
    BY DEF IInv
  <2>2. HasCurrentBackup(q)'
    BY <1>1, <2>1, CurrentStep
  <2>3. HasNewestBackup(q)'
    BY <1>1, <2>1, NewestStep
  <2>4. HasDone(q)'
    BY <1>1, <2>1, DoneStep
  <2>5. QED
    BY <2>2, <2>3, <2>4
<1>7. QED
  BY <1>2, <1>3, <1>4, <1>5, <1>6 DEF IInv

\* In every state a process relies only on what the lock gives it: the
\* invariant behind instancelock, writer.Apply and writer.Rollback.
THEOREM Invariance == Spec => []IInv
  BY IInvInit, IInvStep, PTL DEF Spec

\* Every variable keeps its type, whatever the bounds.
THEOREM TypeCorrectness == Spec => []TypeOK
<1>1. IInv => TypeOK
  BY DEF IInv
<1>2. QED
  BY <1>1, Invariance, PTL

\* Two confirmed writes of one instance are never both under way.
THEOREM WritesAreSerialized == Spec => []OneWriter
<1>1. IInv => OneWriter
  BY DEF IInv, LockHeld, OneWriter
<1>2. QED
  BY <1>1, Invariance, PTL

\* A command that reports done, with nobody interfering, has stored its content.
THEOREM ReportsAreTrue == Spec => []DoneMeansStored
<1>1. IInv => DoneMeansStored
  BY DEF IInv, HasDone, DoneMeansStored
<1>2. QED
  BY <1>1, Invariance, PTL

\* A step that changes an entry while its writer waits, and that nobody outside
\* hactl takes, is the companion serving that writer's own request.
LEMMA LandingStep ==
  ASSUME IInv, [Next]_vars, undisturbed', NEW p \in Process, NEW t \in Target, Lands(p, t)
  PROVE  \E r \in wire : /\ Serve(r) /\ Permitted(r)
                         /\ r.by = p /\ r.op = job[p].op /\ r.target = t /\ r.new = job[p].new
<1>1. pc[p] = "await" /\ job[p].target = t /\ entry'[t] # entry[t] /\ holder = p
  BY DEF Lands, IInv, LockHeld, Locked, PC
<1>2. entry' # entry
  BY <1>1
<1>3. PICK r \in wire : Serve(r)
  <2>1. ASSUME NEW q \in Process, Invoke(q) \/ Step(q) \/ Crash(q) \/ Cancel(q) PROVE entry' = entry
    BY <2>1 DEF Invoke, Step, Crash, Cancel, AcquireLock, PollAgain, GiveUp, Read, Diff,
       DiffAutomation, DiffScript, ResolveAutomation, ResolveScript, Validate,
                Reread, Abort, CreateBackup, FillBackup, FillFails, FindBackup, Send, NeverSent,
                Fault, Exit, Leave, store
  <2>2. ASSUME NEW r \in wire, Lose(r) PROVE entry' = entry
    BY <2>2 DEF Lose
  <2>3. ASSUME NEW u \in Target, ForeignWrite(u) PROVE FALSE
    BY <2>3 DEF ForeignWrite
  <2>4. CASE UNCHANGED vars
    BY <1>2, <2>4 DEF vars, store
  <2>5. QED
    BY <1>2, <2>1, <2>2, <2>3, <2>4 DEF Next
<1>4. r.by # Nobody /\ Permitted(r)
  BY <1>2, <1>3 DEF Serve
<1>5. /\ r.by = p /\ r.op = job[p].op /\ r.target = job[p].target /\ r.new = job[p].new
  BY <1>1, <1>4 DEF IInv, OwnedByHolder
<1>6. QED
  BY <1>1, <1>3, <1>4, <1>5

\* The state an apply replaces is in the newest backup of its target.
THEOREM NothingIsLost == Spec => NoVersionLost
<1>1. IInv /\ [Next]_vars =>
        [undisturbed' => \A p \in Process, t \in Target : ReplacesWhatItBackedUp(p, t)]_vars
  <2>1. SUFFICES ASSUME IInv, [Next]_vars, undisturbed', NEW p \in Process, NEW t \in Target,
                        Lands(p, t), job[p].op = "apply"
                 PROVE  \E i \in Newest(BackupId[t]) : backups[i].of = t /\ backups[i].content = entry[t]
    BY DEF ReplacesWhatItBackedUp
  <2>2. PICK r \in wire : /\ Serve(r) /\ Permitted(r)
                          /\ r.by = p /\ r.op = job[p].op /\ r.target = t /\ r.new = job[p].new
    BY <2>1, LandingStep
  <2>3. entry'[t] = job[p].new /\ undisturbed
    BY <2>1, <2>2 DEF Serve, IInv, TypeOK
  <2>4. /\ slot[p] = Len(backups) /\ slot[p] \in DOMAIN backups
        /\ backups[slot[p]] = [key |-> BackupId[t], of |-> t, content |-> seen[p]]
        /\ seen[p] \in Content /\ entry[t] = seen[p]
    <3>1. pc[p] = "await" /\ job[p].target = t /\ entry'[t] # entry[t] /\ job[p] # NoJob
      BY <2>1 DEF Lands, IInv, WellFormed
    <3>2. HasCurrentBackup(p)
      BY <2>1 DEF IInv
    <3>3. QED
      BY <2>1, <2>3, <3>1, <3>2 DEF HasCurrentBackup
  <2>5. slot[p] \in Newest(BackupId[t])
    <3>1. slot[p] \in Matching(BackupId[t])
      BY <2>4, DistinctAssumption DEF Matching, Stored
    <3>2. \A j \in DOMAIN backups : j <= slot[p]
      BY <2>4 DEF IInv, TypeOK
    <3>3. QED
      BY <3>1, <3>2 DEF Newest, Matching
  <2>6. QED
    BY <2>4, <2>5
<1>2. QED
  BY <1>1, Invariance, PTL DEF Spec, NoVersionLost

\* A script's backup is never named as an automation's would be.
NoCollision == \A s \in Script : BackupId[s] \notin Automation

\* A rollback writes the newest backup of the automation it writes to, if no
\* automation is called as a script's backup is.
THEOREM RollbackRestoresItsOwn ==
  ASSUME NoCollision
  PROVE  Spec => RestoresOwnNewestBackup
<1>1. IInv /\ [Next]_vars =>
        [undisturbed' => \A p \in Process, t \in Target :
           Lands(p, t) /\ job[p].op = "rollback" =>
             \E i \in Newest(t) : backups[i].of = t /\ backups[i].content = entry'[t]]_vars
  <2>1. SUFFICES ASSUME IInv, [Next]_vars, undisturbed',
                        NEW p \in Process, NEW t \in Target,
                        Lands(p, t), job[p].op = "rollback"
                 PROVE  \E i \in Newest(t) : backups[i].of = t /\ backups[i].content = entry'[t]
    OBVIOUS
  <2>2. PICK r \in wire : /\ Serve(r) /\ Permitted(r)
                          /\ r.by = p /\ r.op = job[p].op /\ r.target = t /\ r.new = job[p].new
    BY <2>1, LandingStep
  <2>3. entry'[t] = job[p].new /\ t \in Automation
    BY <2>1, <2>2 DEF Serve, Permitted, IInv, TypeOK
  <2>4. slot[p] \in Newest(t) /\ backups[slot[p]].key = t /\ backups[slot[p]].content = job[p].new
    <3>1. pc[p] = "await" /\ job[p].target = t /\ job[p] # NoJob
      BY <2>1 DEF Lands, IInv, WellFormed
    <3>2. HasNewestBackup(p)
      BY <2>1 DEF IInv
    <3>3. QED
      BY <2>1, <3>1, <3>2 DEF HasNewestBackup
  <2>5. backups[slot[p]].of = t
    <3>1. slot[p] \in DOMAIN backups
      BY <2>4 DEF Newest, Matching
    <3>2. backups[slot[p]] \in Backup /\ BackupId[backups[slot[p]].of] = t
      BY <2>1, <2>4, <3>1 DEF IInv, TypeOK, NamedAfterTarget
    <3>3. QED
      BY <2>3, <3>2, <2>1, TargetAssumption DEF NoCollision, Target, Backup
  <2>6. QED
    BY <2>3, <2>4, <2>5
<1>2. QED
  BY <1>1, Invariance, PTL DEF Spec, RestoresOwnNewestBackup

=============================================================================
