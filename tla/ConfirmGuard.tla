--------------------------- MODULE ConfirmGuard ---------------------------
(***************************************************************************)
(* Who may write with --confirm: the guard that rootPreRun asks before a    *)
(* confirmed write, and the record of previews it reads (cmd/inject.go,     *)
(* cmd/witness.go).                                                         *)
(*                                                                          *)
(* The record is one file of <instance>/cache, shared by every process on   *)
(* the instance.  It is read, changed and renamed into place without a      *)
(* lock, so an update can be overtaken by another.  A process is a CLI      *)
(* invocation, or an MCP server that runs one tool call after another.      *)
(***************************************************************************)
EXTENDS Naturals

CONSTANTS
    Process,     \* hactl processes sharing one instance directory
    Server,      \* those that are `hactl mcp`
    Unguarded,   \* on a terminal, or with HACTL_MANUAL_MODE=off
    Session,     \* values of HACTL_SESSION, "default" among them
    SessionOf,   \* the session of each process
    Write,       \* a writing command with its positional arguments
    NoWrite,
    TTL,         \* witnessTTL, in ticks
    MaxTime      \* bound on the clock

ASSUME GuardAssumption ==
    /\ Server \subseteq Process
    /\ Unguarded \subseteq Process
    /\ SessionOf \in [Process -> Session]
    /\ NoWrite \notin Write
    /\ TTL \in Nat
    /\ MaxTime \in Nat \ {0}

Key == Session \X Write

Form == {"preview", "help", "confirm"}

PC == {"idle", "guard", "run", "write", "refused", "done", "save"}

VARIABLES
    now,        \* the wall clock
    witness,    \* confirm-witness.json: when each write was previewed, 0 never
    pc,
    target,     \* the write each process is about
    form,       \* which form of it was typed
    copy,       \* what a process will rename into place
    noted,      \* history: the latest time recorded for each write
    overtaken,  \* history: writes recorded while another update was under way
    shown       \* history: when a server last showed the plan of each write

call == <<target, form>>
history == <<noted, overtaken, shown>>
vars == <<now, witness, pc, call, copy, history>>

Nowhere == [k \in Key |-> 0]

Init ==
    /\ now = 1
    /\ witness = Nowhere
    /\ pc = [p \in Process |-> "idle"]
    /\ target = [p \in Process |-> NoWrite]
    /\ form = [p \in Process |-> "preview"]
    /\ copy = [p \in Process |-> Nowhere]
    /\ noted = Nowhere
    /\ overtaken = {}
    /\ shown = Nowhere

Tick ==
    /\ now < MaxTime
    /\ now' = now + 1
    /\ UNCHANGED <<witness, pc, call, copy, history>>

-----------------------------------------------------------------------------
(* The record *)

\* witnessKey
KeyOf(p) == <<SessionOf[p], target[p]>>

Fresh(at) == at > 0 /\ now <= at + TTL

\* loadWitness drops what is older than the TTL.
Loaded == [k \in Key |-> IF Fresh(witness[k]) THEN witness[k] ELSE 0]

\* Mutant: the record does not age.
HasWitness_Ageless(p) == witness[KeyOf(p)] > 0

HasWitness(p) == Fresh(Loaded[KeyOf(p)])

-----------------------------------------------------------------------------
(* One command *)

Goto(p, label) == pc' = [pc EXCEPT ![p] = label] /\ UNCHANGED <<call, copy>>

End(p) ==
    /\ pc' = [pc EXCEPT ![p] = "idle"]
    /\ target' = [target EXCEPT ![p] = NoWrite]
    /\ form' = [form EXCEPT ![p] = "preview"]
    /\ copy' = [copy EXCEPT ![p] = Nowhere]

\* --help ends in cobra, before any hook of the root, and without an error.
Start(p) ==
    /\ pc[p] = "idle"
    /\ \E w \in Write : target' = [target EXCEPT ![p] = w]
    /\ \E f \in Form :
          /\ form' = [form EXCEPT ![p] = f]
          /\ pc' = [pc EXCEPT ![p] = IF f = "help" THEN "done" ELSE "guard"]
    /\ UNCHANGED <<now, witness, copy, history>>

(* confirmGuard.  Execute sets cliEntry for as long as it runs, and it runs  *)
(* for as long as `hactl mcp` serves: the guard asks of a tool call too.     *)
Refused(p) == form[p] = "confirm" /\ p \notin Unguarded /\ ~HasWitness(p)

Guard(p) ==
    /\ pc[p] = "guard"
    /\ \/ Refused(p) /\ Goto(p, "refused")
       \/ ~Refused(p) /\ Goto(p, IF form[p] = "confirm" THEN "write" ELSE "run")
    /\ UNCHANGED <<now, witness, history>>

\* The preview prints the plan, or fails and is not noted.
Run(p) ==
    /\ pc[p] = "run"
    /\ \/ /\ Goto(p, "done")
          /\ shown' = IF p \in Server THEN [shown EXCEPT ![KeyOf(p)] = now] ELSE shown
       \/ End(p) /\ UNCHANGED shown
    /\ UNCHANGED <<now, witness, noted, overtaken>>

\* The confirmed write or its refusal ends the command, and so does a kill.
Finish(p) ==
    /\ pc[p] \in PC \ {"idle"}
    /\ End(p)
    /\ UNCHANGED <<now, witness, history>>

-----------------------------------------------------------------------------
(* recordWitness: load, add, rename.  What a server's tool call printed is   *)
(* not noted: noteDryRun is called by Execute, which a server never leaves.   *)

\* The time p is recording.
Stamp(p) == copy[p][KeyOf(p)]

\* Mutant: every update starts from an empty record.
NoteLoad_Empty(p) ==
    /\ pc[p] = "done" /\ p \notin Server
    /\ copy' = [copy EXCEPT ![p] = [Nowhere EXCEPT ![KeyOf(p)] = now]]
    /\ pc' = [pc EXCEPT ![p] = "save"]
    /\ UNCHANGED <<now, witness, call, history>>

NoteLoad(p) ==
    /\ pc[p] = "done" /\ p \notin Server
    /\ copy' = [copy EXCEPT ![p] = [Loaded EXCEPT ![KeyOf(p)] = now]]
    /\ pc' = [pc EXCEPT ![p] = "save"]
    /\ UNCHANGED <<now, witness, call, history>>

\* An update that cannot be written is dropped in silence: that is Finish.
NoteSave(p) ==
    /\ pc[p] = "save"
    /\ witness' = copy[p]
    /\ noted' = [noted EXCEPT ![KeyOf(p)] = IF @ > Stamp(p) THEN @ ELSE Stamp(p)]
    /\ overtaken' = IF \/ \E q \in Process \ {p} : pc[q] = "save"
                       \/ Stamp(p) < noted[KeyOf(p)]
                    THEN overtaken \cup {KeyOf(p)} ELSE overtaken \ {KeyOf(p)}
    /\ End(p)
    /\ UNCHANGED <<now, shown>>

Next ==
    \/ Tick
    \/ \E p \in Process :
          Start(p) \/ Guard(p) \/ Run(p) \/ Finish(p) \/ NoteLoad(p) \/ NoteSave(p)

Spec == Init /\ [][Next]_vars

-----------------------------------------------------------------------------
(* Properties *)

TypeOK ==
    /\ now \in 1 .. MaxTime
    /\ witness \in [Key -> 0 .. MaxTime]
    /\ pc \in [Process -> PC]
    /\ target \in [Process -> Write \cup {NoWrite}]
    /\ form \in [Process -> Form]
    /\ copy \in [Process -> [Key -> 0 .. MaxTime]]
    /\ noted \in [Key -> 0 .. MaxTime]
    /\ overtaken \subseteq Key
    /\ shown \in [Key -> 0 .. MaxTime]

(* An agent's confirmed write passes only after the same command, on the     *)
(* same target and in the same session, ended without an error and without   *)
(* --confirm at most a TTL ago, however the updates of the record overtook    *)
(* one another (INVARIANTS.md H-26's neighbour #61, confirmGuard).            *)
Informed ==
    [][\A p \in Process :
         pc[p] = "guard" /\ pc'[p] = "write" /\ p \notin Unguarded => Fresh(noted[KeyOf(p)])]_vars

(* A write whose preview was recorded is refused only when the TTL is over    *)
(* or another update was under way when it was recorded (saveWitness's        *)
(* "concurrent writers can lose a record here").                              *)
NothingElseForgets ==
    [][\A p \in Process :
         pc[p] = "guard" /\ pc'[p] = "refused" =>
            ~Fresh(noted[KeyOf(p)]) \/ KeyOf(p) \in overtaken]_vars

(* A caller that was shown the plan may confirm it (root.go's cliEntry "rather *)
(* than the MCP server", README.md's "the dry-run + --confirm write path").     *)
ShownMayConfirm ==
    [][\A p \in Server :
         pc[p] = "guard" /\ pc'[p] = "refused" => ~Fresh(shown[KeyOf(p)])]_vars

-----------------------------------------------------------------------------
(* Why they hold *)

\* No record is younger than what was noted of its write, nor a time to come.
NotAhead ==
    /\ \A k \in Key : witness[k] <= noted[k] /\ noted[k] <= now
    /\ \A p \in Process : pc[p] = "save" =>
         /\ Stamp(p) \in 1 .. now /\ target[p] \in Write
         /\ \A k \in Key \ {KeyOf(p)} : copy[p][k] <= noted[k]

\* What was noted alone is on record, and in every update under way.
NotBehind ==
    \A k \in Key : Fresh(noted[k]) /\ k \notin overtaken =>
       /\ witness[k] = noted[k]
       /\ \A p \in Process : pc[p] = "save" => copy[p][k] >= noted[k]

\* The inductive invariant of ConfirmGuard_proofs (saveWitness, loadWitness).
GInv ==
    /\ TypeOK
    /\ \A p \in Process : pc[p] # "idle" => target[p] \in Write
    /\ NotAhead
    /\ NotBehind

=============================================================================
