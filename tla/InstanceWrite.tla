--------------------------- MODULE InstanceWrite ---------------------------
(***************************************************************************)
(* Confirmed writes of automations and scripts through one instance        *)
(* directory: the advisory write lock (internal/instancelock), the         *)
(* commands `auto apply|create|delete|rollback` and                        *)
(* `script apply|create|delete` with --confirm (internal/cmd,              *)
(* internal/writer), the backups they leave in <instance>/backups          *)
(* (internal/backupfile) and the requests they send to hactl-companion     *)
(* (internal/companion), which may outlive the process that sent them.     *)
(*                                                                         *)
(* A process is a CLI invocation, or an MCP server running one tool call   *)
(* at a time.  Contents are model values: what matters is only which       *)
(* version of an entry is where.                                           *)
(***************************************************************************)
EXTENDS Naturals, Sequences, FiniteSets

CONSTANTS
    Process,        \* hactl processes sharing one instance directory
    McpServer,      \* those whose caller can cancel a running command
    Automation,     \* config ids automations.yaml may hold
    Script,         \* object ids scripts.yaml may hold
    Content,        \* versions of an entry
    Key,            \* ids a backup file name can carry after its stamp
    BackupId,       \* Target -> Key: the id in the name of a target's backup
    NoEntry,        \* the entry does not exist
    Torn,           \* a backup file created but never filled
    Gone,           \* a backup file removed again after a failed write
    Nobody,         \* no process
    AnyBackup,      \* rollback without an id
    NoJob,
    Ops,            \* commands this instance of the model runs
    Initial,        \* the entries Home Assistant starts with
    MaxPolls,       \* --timeout, in polls of the lock
    MaxAttempts,    \* sends of one idempotent request (companion doWithRetry)
    MaxBackups,     \* bound on files in backups/: beyond it the directory is full
    ForeignWriters, \* whether Home Assistant's UI also writes
    LateRequests,   \* whether the companion may serve a request its sender left
    SilentSocket    \* whether Home Assistant may leave a WebSocket command unanswered

Target == Automation \cup Script
Stored == Content \cup {NoEntry}

ASSUME TargetAssumption ==
    /\ Automation \cap Script = {}
    /\ Automation \subseteq Key
    /\ BackupId \in [Target -> Key]
    /\ \A a \in Automation : BackupId[a] = a
ASSUME DistinctAssumption ==
    /\ NoEntry \notin Content
    /\ Torn \notin Stored
    /\ Gone \notin Stored \cup {Torn}
    /\ Nobody \notin Process
    /\ AnyBackup \notin Key \cup Target
ASSUME InstanceAssumption ==
    /\ McpServer \subseteq Process
    /\ Initial \in [Target -> Stored]
    /\ Ops \subseteq {"apply", "create", "delete", "rollback"}
ASSUME BoundAssumption ==
    /\ MaxPolls \in Nat
    /\ MaxAttempts \in Nat \ {0}
    /\ MaxBackups \in Nat
    /\ ForeignWriters \in BOOLEAN
    /\ LateRequests \in BOOLEAN
    /\ SilentSocket \in BOOLEAN
ASSUME NoJobAssumption ==
    NoJob \notin [op : Ops, target : Target \cup Key \cup {AnyBackup}, new : Stored]

-----------------------------------------------------------------------------
(* What a caller may ask for.  A rollback learns its content, and without  *)
(* an id its target, from the backup it finds.                             *)
Jobs ==
    {j \in      [op : {"apply", "create"}, target : Target, new : Content]
           \cup [op : {"delete"}, target : Target, new : {NoEntry}]
           \cup [op : {"rollback"}, target : Automation \cup {AnyBackup}, new : {NoEntry}]
       : j.op \in Ops}

Job == [op : Ops, target : Target \cup Key \cup {AnyBackup}, new : Stored] \cup {NoJob}

Backup == [key : Key, of : Target, content : Content \cup {Torn, Gone}]

Request == [by : Process \cup {Nobody}, try : 1 .. MaxAttempts, op : Ops,
            target : Target \cup Key \cup {AnyBackup}, new : Stored]

PC == {"idle", "lock", "read", "validate", "reread", "save", "fill", "find",
       "write", "await", "exit"}

\* The steps a command takes behind the write lock.
Locked == PC \ {"idle", "lock", "exit"}

Result == {"none", "done", "nochange", "failed"}

VARIABLES
    holder,      \* who holds <instance>/cache/write.lock
    pc,          \* where each process is in its command
    job,         \* the command, its target and the content it will write
    seen,        \* the stored entry the process read for its backup
    slot,        \* its backup file, as a position in backups
    tries,       \* how often it has sent its write
    polls,       \* how often it has found the lock taken
    cancelled,   \* its context is done
    result,      \* what it is about to report
    entry,       \* the entries in Home Assistant's configuration
    backups,     \* the files of backups/, in the order of their names
    wire,        \* writes sent and not yet served
    undisturbed  \* history: since the lock was last taken, nobody but its
                 \* holder has changed an entry

control == <<pc, result>>
private == <<job, seen, slot, tries, polls, cancelled>>
store == <<entry, wire, undisturbed>>
vars == <<holder, control, private, backups, store>>

Init ==
    /\ holder = Nobody
    /\ pc = [p \in Process |-> "idle"]
    /\ job = [p \in Process |-> NoJob]
    /\ seen = [p \in Process |-> NoEntry]
    /\ slot = [p \in Process |-> 0]
    /\ tries = [p \in Process |-> 0]
    /\ polls = [p \in Process |-> 0]
    /\ cancelled = [p \in Process |-> FALSE]
    /\ result = [p \in Process |-> "none"]
    /\ entry = Initial
    /\ backups = <<>>
    /\ wire = {}
    /\ undisturbed = TRUE

-----------------------------------------------------------------------------
(* Control of one command *)

Goto(p, label) == pc' = [pc EXCEPT ![p] = label] /\ UNCHANGED result

End(p, how) ==
    /\ pc' = [pc EXCEPT ![p] = "exit"]
    /\ result' = [result EXCEPT ![p] = how]

\* The entry of t: an id the configuration does not know has none.
StoredAt(t) == IF t \in Target THEN entry[t] ELSE NoEntry

Invoke(p) ==
    /\ pc[p] = "idle"
    /\ \E j \in Jobs : job' = [job EXCEPT ![p] = j]
    /\ Goto(p, "lock")
    /\ UNCHANGED <<holder, seen, slot, tries, polls, cancelled, backups, store>>

(* instancelock.Acquire: one non-blocking attempt per poll.  A done context *)
(* is looked at only after a failed attempt, so a cancelled caller can      *)
(* still be handed a free lock.  Left out is a process without a cache      *)
(* directory, which Acquire lets through unlocked: it shares no state.      *)
FirstStep(op) == CASE op = "rollback" -> "find"
                   [] op = "create"   -> "validate"
                   [] OTHER           -> "read"

\* Mutant: an attempt that does not look who holds the lock.
AcquireLock_Blind(p) ==
    /\ pc[p] = "lock"
    /\ holder' = p
    /\ undisturbed' = TRUE
    /\ Goto(p, FirstStep(job[p].op))
    /\ UNCHANGED <<private, backups, entry, wire>>

AcquireLock(p) ==
    /\ pc[p] = "lock"
    /\ holder = Nobody
    /\ holder' = p
    /\ undisturbed' = TRUE
    /\ Goto(p, FirstStep(job[p].op))
    /\ UNCHANGED <<private, backups, entry, wire>>

\* Mutant: a wait without a deadline.
PollAgain_NoDeadline(p) ==
    /\ pc[p] = "lock"
    /\ holder # Nobody
    /\ ~cancelled[p]
    /\ UNCHANGED vars

PollAgain(p) ==
    /\ pc[p] = "lock"
    /\ holder # Nobody
    /\ ~cancelled[p]
    /\ polls[p] < MaxPolls
    /\ polls' = [polls EXCEPT ![p] = @ + 1]
    /\ UNCHANGED <<holder, control, job, seen, slot, tries, cancelled, backups, store>>

\* Mutant: the deadline lets the write proceed without the lock.
GiveUp_FailsOpen(p) ==
    /\ pc[p] = "lock"
    /\ holder # Nobody
    /\ cancelled[p] \/ polls[p] = MaxPolls
    /\ Goto(p, FirstStep(job[p].op))
    /\ UNCHANGED <<holder, private, backups, store>>

GiveUp(p) ==
    /\ pc[p] = "lock"
    /\ holder # Nobody
    /\ cancelled[p] \/ polls[p] = MaxPolls
    /\ End(p, "failed")
    /\ UNCHANGED <<holder, private, backups, store>>

-----------------------------------------------------------------------------
(* Reading, validating and planning *)

(* The candidate is compared with the stored entry: an entry that is not     *)
(* there ends the command, one that is equal ends it without a write.        *)
Diff(p) ==
    LET cur == StoredAt(job[p].target) IN
    \/ /\ cur = NoEntry
       /\ End(p, "failed")
       /\ UNCHANGED seen
    \/ /\ cur # NoEntry /\ cur = job[p].new
       /\ End(p, "nochange")
       /\ UNCHANGED seen
    \/ /\ cur # NoEntry /\ cur # job[p].new
       /\ seen' = [seen EXCEPT ![p] = cur]
       /\ Goto(p, "validate")

\* An automation's backup is fetched again; a script's will be this very text.
DiffAutomation(p) == job[p].op = "apply" /\ job[p].target \in Automation /\ Diff(p)
DiffScript(p) == job[p].op = "apply" /\ job[p].target \in Script /\ Diff(p)

\* An automation that is still live may be deleted without a stored entry.
ResolveAutomation(p) ==
    /\ job[p].op = "delete" /\ job[p].target \in Automation
    /\ \/ StoredAt(job[p].target) = NoEntry /\ End(p, "failed")
       \/ Goto(p, "write")
    /\ UNCHANGED seen

ResolveScript(p) ==
    /\ job[p].op = "delete" /\ job[p].target \in Script
    /\ \/ StoredAt(job[p].target) = NoEntry /\ End(p, "failed")
       \/ StoredAt(job[p].target) # NoEntry /\ Goto(p, "write")
    /\ UNCHANGED seen

Read(p) ==
    /\ pc[p] = "read"
    /\ ~cancelled[p]
    /\ DiffAutomation(p) \/ DiffScript(p) \/ ResolveAutomation(p) \/ ResolveScript(p)
    /\ UNCHANGED <<holder, job, slot, tries, polls, cancelled, backups, store>>

(* HA's validate_config accepts the candidate, or could not be asked: then   *)
(* an automation passes all the same, a script does not.  A new script is    *)
(* parsed only.  The refusals are Abort.                                     *)
ValidateAutomation(p) ==
    job[p].target \in Automation /\ Goto(p, IF job[p].op = "create" THEN "write" ELSE "reread")

ValidateScript(p) ==
    job[p].target \in Script /\ job[p].op = "apply" /\ ~cancelled[p] /\ Goto(p, "save")

ParseScript(p) ==
    job[p].target \in Script /\ job[p].op = "create" /\ Goto(p, "write")

Validate(p) ==
    /\ pc[p] = "validate"
    /\ ValidateAutomation(p) \/ ValidateScript(p) \/ ParseScript(p)
    /\ UNCHANGED <<holder, private, backups, store>>

\* Mutant: an entry that decodes to nothing is backed up all the same.
Reread_AcceptsNothing(p) ==
    /\ pc[p] = "reread"
    /\ ~cancelled[p]
    /\ seen' = [seen EXCEPT ![p] = StoredAt(job[p].target)]
    /\ Goto(p, "save")
    /\ UNCHANGED <<holder, job, slot, tries, polls, cancelled, backups, store>>

\* Writer.backup fetches the entry once more: these bytes are the backup.
Reread(p) ==
    /\ pc[p] = "reread"
    /\ ~cancelled[p]
    /\ StoredAt(job[p].target) # NoEntry
    /\ seen' = [seen EXCEPT ![p] = StoredAt(job[p].target)]
    /\ Goto(p, "save")
    /\ UNCHANGED <<holder, job, slot, tries, polls, cancelled, backups, store>>

\* Every error return before the first byte of the write leaves the host.
Abort(p) ==
    /\ pc[p] \in {"read", "validate", "reread", "save", "find"}
    /\ End(p, "failed")
    /\ UNCHANGED <<holder, private, backups, store>>

-----------------------------------------------------------------------------
(* backupfile.Write: an exclusive create, then the bytes *)

CreateBackup(p) ==
    /\ pc[p] = "save"
    /\ Len(backups) < MaxBackups
    /\ backups' = Append(backups, [key |-> BackupId[job[p].target],
                                   of |-> job[p].target, content |-> Torn])
    /\ slot' = [slot EXCEPT ![p] = Len(backups) + 1]
    /\ Goto(p, "fill")
    /\ UNCHANGED <<holder, job, seen, tries, polls, cancelled, store>>

FillBackup(p) ==
    /\ pc[p] = "fill"
    /\ backups' = [backups EXCEPT ![slot[p]].content = seen[p]]
    /\ Goto(p, "write")
    /\ UNCHANGED <<holder, private, store>>

\* A short write removes the file, a failed close leaves it: both refuse.
FillFails(p) ==
    /\ pc[p] = "fill"
    /\ \E c \in {Gone, seen[p]} :
          backups' = [backups EXCEPT ![slot[p]].content = c]
    /\ End(p, "failed")
    /\ UNCHANGED <<holder, private, store>>

(* writer.findLatestBackup: the last file name that carries the id. *)
\* Mutant: the id is not compared.
Matching_AnyId(k) == {i \in DOMAIN backups : backups[i].content # Gone}

Matching(k) == {i \in DOMAIN backups : /\ backups[i].content # Gone
                                       /\ k \in {AnyBackup, backups[i].key}}
Newest(k) == {i \in Matching(k) : \A j \in Matching(k) : j <= i}

(* Writer.Rollback.  No backup, or one that decodes to nothing, is Abort.   *)
(* Without an id, the one in the file's name is the automation the bytes go  *)
(* back to.                                                                 *)
FindBackup(p) ==
    /\ pc[p] = "find"
    /\ \E i \in Newest(job[p].target) :
         /\ backups[i].content # Torn
         /\ job' = [job EXCEPT ![p].target = IF @ = AnyBackup THEN backups[i].key ELSE @,
                               ![p].new = backups[i].content]
         /\ slot' = [slot EXCEPT ![p] = i]
    /\ Goto(p, "write")
    /\ UNCHANGED <<holder, seen, tries, polls, cancelled, backups, store>>

-----------------------------------------------------------------------------
(* The write itself *)

Send(p) ==
    /\ pc[p] = "write"
    /\ ~cancelled[p]
    /\ tries[p] < MaxAttempts
    /\ tries' = [tries EXCEPT ![p] = @ + 1]
    /\ wire' = wire \cup {[by |-> p, try |-> tries[p] + 1, op |-> job[p].op,
                           target |-> job[p].target, new |-> job[p].new]}
    /\ Goto(p, "await")
    /\ UNCHANGED <<holder, job, seen, slot, polls, cancelled, backups, entry, undisturbed>>

\* Nothing left the host: connection refused on every attempt, or a context
\* already done.
NeverSent(p) ==
    /\ pc[p] = "write"
    /\ End(p, "failed")
    /\ UNCHANGED <<holder, private, backups, store>>

(* The sender sees a reset connection, a 5xx or its own timeout.  An        *)
(* idempotent request is sent again while attempts and --timeout last; a    *)
(* create never is.                                                         *)
Fault(p) ==
    /\ pc[p] = "await"
    /\ \/ /\ job[p].op # "create"
          /\ tries[p] < MaxAttempts
          /\ Goto(p, "write")
       \/ End(p, "failed")
    /\ UNCHANGED <<holder, private, backups, store>>

(* The companion's routes (external): PUT and DELETE resolve the entry, and  *)
(* answer 404 when there is none; POST refuses an id that exists.  A rollback *)
(* addresses the automation route with whatever id the file name carried.     *)
Permitted(r) ==
    /\ r.target \in Target
    /\ r.op = "rollback" => r.target \in Automation
    /\ (r.op = "create") <=> (entry[r.target] = NoEntry)

Awaited(r) == r.by # Nobody /\ pc[r.by] = "await" /\ r.try = tries[r.by]

\* Mutant: a refusal by the companion is reported as success.
Serve_RefusalIsDone(r) ==
    /\ entry' = IF Permitted(r) THEN [entry EXCEPT ![r.target] = r.new] ELSE entry
    /\ wire' = wire \ {r}
    /\ undisturbed' = (undisturbed /\ (r.by # Nobody \/ entry' = entry))
    /\ \/ Awaited(r) /\ End(r.by, "done")
       \/ UNCHANGED control
    /\ UNCHANGED <<holder, private, backups>>

Serve(r) ==
    /\ entry' = IF Permitted(r) THEN [entry EXCEPT ![r.target] = r.new] ELSE entry
    /\ wire' = wire \ {r}
    /\ undisturbed' = (undisturbed /\ (r.by # Nobody \/ entry' = entry))
    /\ \/ Awaited(r) /\ End(r.by, IF Permitted(r) THEN "done" ELSE "failed")
       \/ UNCHANGED control                      \* the answer is lost
    /\ UNCHANGED <<holder, private, backups>>

Lose(r) ==
    /\ wire' = wire \ {r}
    /\ UNCHANGED <<holder, control, private, backups, entry, undisturbed>>

-----------------------------------------------------------------------------
(* Leaving, and the world outside *)

\* What p sent and the companion still has outlives p, or dies with it.
Abandoned(p) ==
    {r \in wire : r.by # p}
      \cup {[r EXCEPT !.by = Nobody, !.try = 1] : r \in {q \in wire : LateRequests /\ q.by = p}}

(* releaseWriteLock and the process's end.  flock is released by the kernel *)
(* when the descriptor goes, so a killed process leaves the same way.       *)
Leave(p) ==
    /\ holder' = IF holder = p THEN Nobody ELSE holder
    /\ pc' = [pc EXCEPT ![p] = "idle"]
    /\ result' = [result EXCEPT ![p] = "none"]
    /\ job' = [job EXCEPT ![p] = NoJob]
    /\ seen' = [seen EXCEPT ![p] = NoEntry]
    /\ slot' = [slot EXCEPT ![p] = 0]
    /\ tries' = [tries EXCEPT ![p] = 0]
    /\ polls' = [polls EXCEPT ![p] = 0]
    /\ cancelled' = [cancelled EXCEPT ![p] = FALSE]
    /\ wire' = Abandoned(p)
    /\ UNCHANGED <<backups, entry, undisturbed>>

Exit(p) == pc[p] = "exit" /\ Leave(p)

Crash(p) == pc[p] \notin {"idle", "exit"} /\ Leave(p)

Cancel(p) ==
    /\ p \in McpServer
    /\ pc[p] \notin {"idle", "exit"}
    /\ ~cancelled[p]
    /\ cancelled' = [cancelled EXCEPT ![p] = TRUE]
    /\ UNCHANGED <<holder, control, job, seen, slot, tries, polls, backups, store>>

\* Home Assistant's own editor, or a hactl on another directory.
ForeignWrite(t) ==
    /\ ForeignWriters
    /\ \E v \in Stored \ {entry[t]} : entry' = [entry EXCEPT ![t] = v]
    /\ undisturbed' = FALSE
    /\ UNCHANGED <<holder, control, private, backups, wire>>

-----------------------------------------------------------------------------
\* The steps a process takes by itself once it has been invoked.
Step(p) ==
    \/ AcquireLock(p) \/ PollAgain(p) \/ GiveUp(p)
    \/ Read(p) \/ Validate(p) \/ Reread(p) \/ Abort(p)
    \/ CreateBackup(p) \/ FillBackup(p) \/ FillFails(p) \/ FindBackup(p)
    \/ Send(p) \/ NeverSent(p) \/ Fault(p) \/ Exit(p)

Next ==
    \/ \E p \in Process : Invoke(p) \/ Step(p) \/ Crash(p) \/ Cancel(p)
    \/ \E r \in wire : Serve(r) \/ Lose(r)
    \/ \E t \in Target : ForeignWrite(t)

Spec == Init /\ [][Next]_vars

(* validate_config is a WebSocket command, and sendCommand's read of the     *)
(* answer has no deadline: a process may wait here for as long as the host   *)
(* keeps the connection open and says nothing.                               *)
AwaitsSocket(p) ==
    /\ SilentSocket
    /\ pc[p] = "validate"
    /\ job[p].op = "apply" \/ job[p].target \in Automation

(* Only the processes are fair: every other wait of theirs is bounded by     *)
(* --timeout, so a process that is not killed takes its next step.  Nothing  *)
(* is assumed of the companion, of the network or of other writers.          *)
FairSpec == Spec /\ \A p \in Process : WF_vars(~AwaitsSocket(p) /\ Step(p))

-----------------------------------------------------------------------------
(* Properties *)

TypeOK ==
    /\ holder \in Process \cup {Nobody}
    /\ pc \in [Process -> PC]
    /\ job \in [Process -> Job]
    /\ seen \in [Process -> Stored]
    /\ slot \in [Process -> Nat]
    /\ tries \in [Process -> 0 .. MaxAttempts]
    /\ polls \in [Process -> 0 .. MaxPolls]
    /\ cancelled \in [Process -> BOOLEAN]
    /\ result \in [Process -> Result]
    /\ entry \in [Target -> Stored]
    /\ backups \in Seq(Backup)
    /\ wire \subseteq Request
    /\ undisturbed \in BOOLEAN

(* Confirmed writes are serialized: no two processes are ever between        *)
(* taking the lock and reporting (internal/instancelock, rootPreRun).        *)
OneWriter ==
    \A p, q \in Process : pc[p] \in Locked /\ pc[q] \in Locked => p = q

\* The write of process p's command changes t in this step.
Lands(p, t) == pc[p] = "await" /\ job[p].target = t /\ entry'[t] # entry[t]

(* The state an apply replaces is in the newest backup of its target, so a   *)
(* rollback can reach it, whatever other hactl processes, crashes, lost      *)
(* answers and retries there were; only a writer hactl cannot exclude may    *)
(* come between (INVARIANTS.md H-5 and H-26, Writer.Apply, runScriptApply).  *)
ReplacesWhatItBackedUp(p, t) ==
    Lands(p, t) /\ job[p].op = "apply" =>
        \E i \in Newest(BackupId[t]) : backups[i].of = t /\ backups[i].content = entry[t]

NoVersionLost ==
    [][undisturbed' => \A p \in Process, t \in Target : ReplacesWhatItBackedUp(p, t)]_vars

(* What a rollback writes is the newest complete backup of the automation it *)
(* writes to, and was taken from that automation (INVARIANTS.md H-6,         *)
(* Writer.Rollback, findLatestBackup).                                       *)
RestoresOwnNewestBackup ==
    [][undisturbed' => \A p \in Process, t \in Target :
         Lands(p, t) /\ job[p].op = "rollback" =>
            \E i \in Newest(t) : backups[i].of = t /\ backups[i].content = entry'[t]]_vars

(* The same two of every step, as if hactl's processes were alone.           *)
NoVersionEverLost ==
    [][\A p \in Process, t \in Target : ReplacesWhatItBackedUp(p, t)]_vars

(* A command that reports success left its content in the configuration,     *)
(* with its own retries still on the wire (INVARIANTS.md H-4).               *)
DoneMeansStored ==
    \A p \in Process :
        pc[p] = "exit" /\ result[p] = "done" /\ undisturbed
            => StoredAt(job[p].target) = job[p].new

(* A command ends, whoever holds the lock and whatever becomes of its        *)
(* requests (INVARIANTS.md H-23, instancelock.Acquire's deadline).           *)
EveryCommandEnds ==
    \A p \in Process : pc[p] # "idle" ~> pc[p] = "idle"

-----------------------------------------------------------------------------
(* Why they hold: the parts of the inductive invariant *)

\* What a command may be doing at each of its steps.
WellFormed ==
    \A p \in Process : pc[p] # "idle" =>
        /\ job[p] # NoJob
        /\ job[p].op # "rollback" => job[p].target \in Target
        /\ job[p].op \in {"apply", "create"} => job[p].new \in Content
        /\ pc[p] = "find" => job[p].op = "rollback"
        /\ pc[p] = "read" => job[p].op \in {"apply", "delete"}
        /\ pc[p] = "validate" => job[p].op \in {"apply", "create"}
        /\ pc[p] \in {"reread", "save", "fill"} => job[p].op = "apply"
        /\ pc[p] \in {"validate", "reread", "save", "fill"} /\ job[p].op = "apply"
              => seen[p] \in Content
        /\ pc[p] = "fill" => slot[p] \in DOMAIN backups

\* A file's name tells whose backup it is.
NamedAfterTarget == \A i \in DOMAIN backups : backups[i].key = BackupId[backups[i].of]

LockHeld == \A p \in Process : pc[p] \in Locked => holder = p

\* A request whose sender still runs is that of the command it runs, and the
\* sender holds the lock.
OwnedByHolder ==
    \A r \in wire : r.by # Nobody =>
        /\ pc[r.by] \in {"write", "await", "exit"}
        /\ holder = r.by
        /\ r.op = job[r.by].op /\ r.target = job[r.by].target /\ r.new = job[r.by].new

\* From the fetch of the stored entry to the write that replaces it, p's
\* backup is of the entry as it is.
HasCurrentBackup(p) ==
    job[p] # NoJob /\ job[p].op = "apply" =>
        LET t == job[p].target IN
        /\ pc[p] \in {"validate", "reread", "save", "fill"} /\ undisturbed => seen[p] = entry[t]
        /\ pc[p] = "fill" =>
              /\ slot[p] = Len(backups)
              /\ backups[slot[p]].key = BackupId[t] /\ backups[slot[p]].of = t
        /\ pc[p] \in {"write", "await"} =>
              /\ slot[p] = Len(backups) /\ slot[p] \in DOMAIN backups
              /\ backups[slot[p]] = [key |-> BackupId[t], of |-> t, content |-> seen[p]]
              /\ seen[p] \in Content
              /\ undisturbed => entry[t] \in {seen[p], job[p].new}

\* A rollback's content is still that of the newest backup it could find.
HasNewestBackup(p) ==
    job[p] # NoJob /\ job[p].op = "rollback" /\ pc[p] \in {"write", "await"} =>
        /\ slot[p] \in Newest(job[p].target)
        /\ backups[slot[p]].key = job[p].target
        /\ backups[slot[p]].content = job[p].new
        /\ job[p].new \in Content

\* What p is about to report as done is done.
HasDone(p) ==
    pc[p] = "exit" /\ result[p] = "done" =>
        /\ holder = p
        /\ undisturbed => StoredAt(job[p].target) = job[p].new

(* The inductive invariant of InstanceWrite_proofs: what each part of the    *)
(* system relies on between two steps of anyone (instancelock, writer,       *)
(* backupfile).                                                              *)
IInv ==
    /\ TypeOK
    /\ WellFormed
    /\ NamedAfterTarget
    /\ LockHeld
    /\ OwnedByHolder
    /\ \A p \in Process : HasCurrentBackup(p) /\ HasNewestBackup(p) /\ HasDone(p)

=============================================================================
