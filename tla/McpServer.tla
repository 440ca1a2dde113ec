----------------------------- MODULE McpServer -----------------------------
(***************************************************************************)
(* `hactl mcp` (internal/mcpserver, cmd.RunWithOutputContext): one client    *)
(* writes lines to stdin, the server reads them one at a time, and the SDK    *)
(* (external) hands every tool call to a goroutine of its own.  The commands  *)
(* they ask for run one after the other in one process, whose flags and       *)
(* command objects outlive a command.                                         *)
(*                                                                            *)
(* What a line says is abstracted to the way it is handled; the first tool    *)
(* result of the session carries the manual.                                  *)
(***************************************************************************)
EXTENDS Naturals, Sequences

CONSTANTS
    Call,            \* request ids of the client, each used once
    NoCall,
    Said,            \* what the client of this instance may say
    AllowWrites,     \* hactl mcp --allow-writes
    NoManualInject   \* hactl mcp --no-manual-inject

(* Tool calls by the class of their command: rtfm prints the manual, and       *)
(* "families" is a form of it that lists headings only.  "unknown" does not    *)
(* parse or resolve; "other" is any other request, answered by the SDK.        *)
Command == {"read", "write", "rtfm", "families", "never", "unknown"}
Line == Command \cup {"other", "malformed", "garbage"}

ASSUME McpAssumption ==
    /\ NoCall \notin Call
    /\ Said \subseteq Line
    /\ AllowWrites \in BOOLEAN
    /\ NoManualInject \in BOOLEAN

Phase == {"unsent", "sent", "resolve", "wait", "run", "reply", "end"}

\* The three ways a command ends, and the ways a call ends without one.
Ran == {"ok", "error", "aborted"}
Outcome == Ran \cup {"none", "refused", "panicked", "rejected", "served"}

\* The command objects of the CLI that calls share.
Path == {"read", "write", "rtfm"}

VARIABLES
    open,             \* stdin has not ended, the server is alive
    inbox,            \* lines the client has written and nobody has read
    said,             \* what each call's line says
    phase,
    outcome,
    cancelled,        \* calls whose context is cancelled
    runMu,            \* the call that holds the mutex
    flags,            \* calls whose flags are set in the CLI's variables
    context,          \* the call whose context each command object holds
    manualDelivered,
    carries,          \* calls whose result has the manual prepended
    answers           \* calls whose answer is on stdout

cli == <<runMu, flags, context>>
manual == <<manualDelivered, carries>>
client == <<open, said>>
vars == <<client, inbox, phase, outcome, cancelled, cli, manual, answers>>

Init ==
    /\ open = TRUE
    /\ inbox = <<>>
    /\ said = [c \in Call |-> "garbage"]
    /\ phase = [c \in Call |-> "unsent"]
    /\ outcome = [c \in Call |-> "none"]
    /\ cancelled = {}
    /\ runMu = NoCall
    /\ flags = {}
    /\ context = [p \in Path |-> NoCall]
    /\ manualDelivered = NoManualInject
    /\ carries = {}
    /\ answers = {}

PathOf(c) == IF said[c] = "families" THEN "rtfm" ELSE said[c]

Goto(c, label) == phase' = [phase EXCEPT ![c] = label]

\* Call c ends with an answer to write.
Answer(c, how) ==
    /\ Goto(c, "reply")
    /\ outcome' = [outcome EXCEPT ![c] = how]

-----------------------------------------------------------------------------
(* The client *)

Send(c) ==
    /\ phase[c] = "unsent"
    /\ \E what \in Said : said' = [said EXCEPT ![c] = what]
    /\ inbox' = Append(inbox, c)
    /\ Goto(c, "sent")
    /\ UNCHANGED <<open, outcome, cancelled, cli, manual, answers>>

\* notifications/cancelled: the SDK cancels the context of a call under way.
Cancel(c) ==
    /\ phase[c] \in {"resolve", "wait", "run"}
    /\ cancelled' = cancelled \cup {c}
    /\ UNCHANGED <<client, inbox, phase, outcome, cli, manual, answers>>

\* The end of stdin, or of the process: nothing is served after it.
HangUp ==
    /\ open' = FALSE
    /\ UNCHANGED <<said, inbox, phase, outcome, cancelled, cli, manual, answers>>

-----------------------------------------------------------------------------
(* The transport: readLoop and rejectMalformed *)

\* A rejected line is answered by the reader itself, if its id can be read.
Reject(c) ==
    \/ /\ said[c] = "malformed"
       /\ outcome' = [outcome EXCEPT ![c] = "rejected"]
       /\ answers' = answers \cup {c}
    \/ said[c] = "garbage" /\ UNCHANGED <<outcome, answers>>

ReadLine ==
    /\ inbox # <<>>
    /\ inbox' = Tail(inbox)
    /\ LET c == Head(inbox)
       IN \/ Reject(c) /\ Goto(c, "end")
          \/ said[c] = "other" /\ Answer(c, "served") /\ UNCHANGED answers
          \/ said[c] \in Command /\ Goto(c, "resolve") /\ UNCHANGED <<outcome, answers>>
    /\ UNCHANGED <<client, cancelled, cli, manual>>

-----------------------------------------------------------------------------
(* toolHandler, in the goroutine of a call *)

\* Gate: what a server never runs, and what a read-only one does not.
Blocked(c) == said[c] = "never" \/ (said[c] = "write" /\ ~AllowWrites)

\* Mutant: a refused call's result counts as the first.
Resolve_SpendsTheManual(c) ==
    /\ phase[c] = "resolve"
    /\ IF said[c] = "unknown" \/ Blocked(c)
       THEN Answer(c, "refused") /\ manualDelivered' = TRUE
       ELSE Goto(c, "wait") /\ UNCHANGED <<outcome, manualDelivered>>
    /\ UNCHANGED <<client, inbox, cancelled, cli, carries, answers>>

\* ResolvePath and Gate, before the mutex.
Resolve(c) ==
    /\ phase[c] = "resolve"
    /\ IF said[c] = "unknown" \/ Blocked(c)
       THEN Answer(c, "refused")
       ELSE Goto(c, "wait") /\ UNCHANGED outcome
    /\ UNCHANGED <<client, inbox, cancelled, cli, manual, answers>>

\* Mutant: cobra's own rule, a command keeps the context it has.
Enter_KeepsContext(c) ==
    /\ phase[c] = "wait"
    /\ runMu = NoCall
    /\ runMu' = c
    /\ flags' = flags \cup {c}
    /\ context' = IF context[PathOf(c)] = NoCall THEN [context EXCEPT ![PathOf(c)] = c]
                  ELSE context
    /\ Goto(c, "run")
    /\ UNCHANGED <<client, inbox, outcome, cancelled, manual, answers>>

\* The command starts: its flags are parsed into the CLI's variables.
Enter(c) ==
    /\ phase[c] = "wait"
    /\ runMu = NoCall
    /\ runMu' = c
    /\ flags' = flags \cup {c}
    /\ context' = [context EXCEPT ![PathOf(c)] = c]
    /\ Goto(c, "run")
    /\ UNCHANGED <<client, inbox, outcome, cancelled, manual, answers>>

\* Mutant: the flags are reset after the run and not in a deferred call.
Unwind_KeepsFlags ==
    /\ UNCHANGED <<flags, context>>
    /\ runMu' = NoCall

\* Mutant: the mutex is unlocked after the run and not in a deferred call.
Unwind_KeepsMutex ==
    /\ flags' = {}
    /\ UNCHANGED <<runMu, context>>

\* The deferred calls, run on a return and on a panic alike.
Unwind ==
    /\ flags' = {}
    /\ runMu' = NoCall
    /\ UNCHANGED context

\* The command ends; it is aborted only through the context it was given.
Return(c) ==
    /\ phase[c] = "run"
    /\ \E how \in Ran :
         /\ how = "aborted" => context[PathOf(c)] \in cancelled
         /\ Answer(c, how)
    /\ Unwind
    /\ manualDelivered' = TRUE
    /\ carries' = IF manualDelivered \/ PathOf(c) = "rtfm" THEN carries ELSE carries \cup {c}
    /\ UNCHANGED <<client, inbox, cancelled, answers>>

\* recoverMiddleware: the panic has unwound the handler.
Panic(c) ==
    /\ phase[c] = "run"
    /\ Answer(c, "panicked")
    /\ Unwind
    /\ UNCHANGED <<client, inbox, cancelled, manual, answers>>

\* The SDK writes the answer, or drops that of a cancelled call.
Reply(c) ==
    /\ phase[c] = "reply"
    /\ Goto(c, "end")
    /\ \/ answers' = answers \cup {c}
       \/ c \in cancelled /\ UNCHANGED answers
    /\ UNCHANGED <<client, inbox, outcome, cancelled, cli, manual>>

-----------------------------------------------------------------------------
Handle(c) == Resolve(c) \/ Enter(c) \/ Return(c) \/ Panic(c) \/ Reply(c)

Serve == ReadLine \/ \E c \in Call : Handle(c)

Next ==
    /\ open
    /\ (\E c \in Call : Send(c) \/ Cancel(c)) \/ HangUp \/ Serve

Spec == Init /\ [][Next]_vars

(* Goroutines are scheduled, the mutex is handed on, and a command ends: the  *)
(* last is what CommandsEnd shows of the writing ones.                        *)
FairSpec == Spec /\ WF_vars(open /\ ReadLine) /\ \A c \in Call : WF_vars(open /\ Handle(c))

-----------------------------------------------------------------------------
(* Properties *)

TypeOK ==
    /\ open \in BOOLEAN
    /\ inbox \in Seq(Call)
    /\ said \in [Call -> Line]
    /\ phase \in [Call -> Phase]
    /\ outcome \in [Call -> Outcome]
    /\ cancelled \subseteq Call
    /\ runMu \in Call \cup {NoCall}
    /\ flags \subseteq Call
    /\ context \in [Path -> Call \cup {NoCall}]
    /\ manualDelivered \in BOOLEAN
    /\ carries \subseteq Call
    /\ answers \subseteq Call

(* A command runs with the flags of its own line and no other's, whatever     *)
(* became of the commands before it (resetSubcommandFlags, runMu's comment     *)
(* "concurrent invocations would leak flags between commands").               *)
OwnFlags == \A c \in Call : phase[c] = "run" => flags = {c}

(* A command is aborted only because its own call was cancelled, not by the   *)
(* context an earlier call left in the command (RunWithOutputContext's        *)
(* "would otherwise keep the (long cancelled) context").                      *)
OwnCancellation == \A c \in Call : outcome[c] = "aborted" => c \in cancelled

(* The manual is prepended to one result, and to that of the first command    *)
(* that ends, rtfm excepted: refusals and panics do not use it up, and no     *)
(* two concurrent calls both carry it (toolHandler's manualDelivered).        *)
ManualOnce ==
    /\ \A c, d \in carries : c = d
    /\ (\E c \in Call : outcome[c] \in Ran) /\ ~NoManualInject =>
          carries # {} \/ \E c \in Call : outcome[c] \in Ran /\ PathOf(c) = "rtfm"

(* Every line that can be answered is, while the stream is open: a malformed  *)
(* message, a panic or a cancellation costs its own call and no other         *)
(* (docs/manual.md's "never the session", resilientTransport).                *)
Answerable(c) == said[c] # "garbage" /\ c \notin cancelled

EveryCallAnswered ==
    \A c \in Call : phase[c] = "sent" ~> c \in answers \/ ~open \/ (phase[c] = "end" /\ ~Answerable(c))

-----------------------------------------------------------------------------
(* Why they hold *)

\* A line waits once, and nothing has become of it.
Queued ==
    \A i \in 1 .. Len(inbox) :
        phase[inbox[i]] = "sent" /\ \A j \in 1 .. Len(inbox) : inbox[i] = inbox[j] => i = j

\* The call that holds the mutex is the one that runs.
Mutex == \A c \in Call : phase[c] = "run" <=> runMu = c

\* Between two commands the CLI's variables have their defaults.
Clean == flags = IF runMu = NoCall THEN {} ELSE {runMu}

\* What a tool call, and one that got past the gate, has asked for.
Gated ==
    \A c \in Call :
        /\ phase[c] = "resolve" => said[c] \in Command
        /\ phase[c] \in {"wait", "run"} => PathOf(c) \in Path /\ (said[c] = "write" => AllowWrites)
        /\ phase[c] = "run" => context[PathOf(c)] = c

\* No call has ended before it was read, nor any with the manual but a run.
Ended ==
    /\ \A c \in Call : phase[c] \notin {"reply", "end"} => outcome[c] = "none"
    /\ \A c \in carries : outcome[c] \in Ran
    /\ manualDelivered <=> NoManualInject \/ \E c \in Call : outcome[c] \in Ran
    /\ NoManualInject \/ ~manualDelivered => carries = {}

\* The inductive invariant of McpServer_proofs (toolHandler).
SInv ==
    /\ TypeOK /\ Queued /\ Mutex /\ Clean /\ Gated /\ Ended
    /\ OwnFlags /\ OwnCancellation /\ ManualOnce

=============================================================================
