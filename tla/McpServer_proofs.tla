-------------------------- MODULE McpServer_proofs --------------------------
(***************************************************************************)
(* The safety of McpServer for any set of calls: SInv is inductive.  What    *)
(* the properties need beyond themselves is that the CLI's variables belong  *)
(* to the holder of the mutex, and are clean when nobody holds it.           *)
(***************************************************************************)
EXTENDS McpServer, TLAPS

\* Only the holder of the mutex runs, and only its flags are set.
LEMMA FlagsFollow == (Mutex /\ Clean => OwnFlags) /\ (Mutex /\ Clean => OwnFlags)'
  BY McpAssumption DEF Mutex, Clean, OwnFlags

\* A fresh server has run nothing.
LEMMA InitEstablishes == Init => SInv
  <1> SUFFICES ASSUME Init PROVE SInv
    OBVIOUS
  <1> USE McpAssumption DEF Init
  <1>1. TypeOK
    BY DEF TypeOK, Phase, Outcome, Ran, Line, Command, Path
  <1>2. Queued /\ Mutex /\ Clean
    BY DEF Queued, Mutex, Clean
  <1>3. Gated /\ Ended /\ OwnCancellation /\ ManualOnce
    BY DEF Gated, Ended, OwnCancellation, ManualOnce, Ran
  <1> QED
    BY <1>1, <1>2, <1>3, FlagsFollow DEF SInv

\* A new line goes to the end of the queue and to no command.
LEMMA SendStep == ASSUME SInv, NEW c \in Call, Send(c) PROVE SInv'
  <1> USE McpAssumption DEF SInv, Send, Goto, cli, manual
  <1>1. TypeOK'
    BY DEF TypeOK, Phase
  <1>2. Queued'
    BY DEF TypeOK, Queued
  <1>3. \A d \in Call : phase'[d] \in {"wait", "run"} => phase[d] = phase'[d] /\ said'[d] = said[d]
    BY DEF TypeOK
  <1>4. Mutex' /\ Clean'
    BY DEF TypeOK, Mutex, Clean
  <1>5. Gated'
    BY <1>3 DEF Gated, PathOf
  <1>6. Ended' /\ OwnCancellation'
    BY DEF TypeOK, Ended, OwnCancellation
  <1>7. \A d \in Call : outcome[d] \in Ran => said'[d] = said[d]
    BY DEF TypeOK, Ended, Ran
  <1>8. ManualOnce'
    BY <1>7 DEF ManualOnce, PathOf
  <1> QED
    BY <1>1, <1>2, <1>4, <1>5, <1>6, <1>8, FlagsFollow

\* Cancelling a call and leaving the session touch no command.
LEMMA CancelStep == ASSUME SInv, (\E c \in Call : Cancel(c)) \/ HangUp PROVE SInv'
  <1> USE DEF SInv, Cancel, HangUp, client, cli, manual
  <1>1. TypeOK'
    BY DEF TypeOK
  <1>2. Queued' /\ Mutex' /\ Clean'
    BY DEF Queued, Mutex, Clean
  <1>3. Gated' /\ Ended'
    BY DEF Gated, Ended, PathOf
  <1>4. OwnCancellation' /\ ManualOnce'
    BY DEF OwnCancellation, ManualOnce, PathOf
  <1> QED
    BY <1>1, <1>2, <1>3, <1>4, FlagsFollow

\* The line that is read has run nothing yet, and what is left keeps its order.
LEMMA ReadLineStep == ASSUME SInv, ReadLine PROVE SInv'
  <1> USE McpAssumption DEF SInv
  <1> DEFINE c == Head(inbox)
  <1>1. c \in Call /\ phase[c] = "sent"
    BY DEF ReadLine, TypeOK, Queued
  <1>2. /\ inbox' = Tail(inbox) /\ inbox' \in Seq(Call)
        /\ UNCHANGED <<client, cancelled, cli, manual>>
        /\ phase' \in {[phase EXCEPT ![c] = label] : label \in {"end", "reply", "resolve"}}
        /\ outcome' \in {[outcome EXCEPT ![c] = how] : how \in {outcome[c], "rejected", "served"}}
        /\ phase'[c] = "resolve" => outcome' = outcome /\ said[c] \in Command
        /\ answers' \subseteq Call
    BY <1>1 DEF ReadLine, Reject, Answer, Goto, TypeOK
  <1> HIDE DEF c
  <1>3. outcome[c] = "none"
    BY <1>1 DEF Ended
  <1>4. \A d \in Call : (outcome'[d] \in Ran <=> outcome[d] \in Ran)
                        /\ (outcome'[d] = "aborted" <=> outcome[d] = "aborted")
    BY <1>1, <1>2, <1>3 DEF Ran, TypeOK
  <1>5. TypeOK'
    BY <1>1, <1>2 DEF TypeOK, Phase, Outcome, client, cli, manual
  <1>6. Queued'
    BY <1>1, <1>2 DEF TypeOK, Queued, c
  <1>7. Mutex' /\ Clean'
    BY <1>1, <1>2 DEF TypeOK, Mutex, Clean, cli
  <1>8. Gated'
    BY <1>1, <1>2 DEF TypeOK, Gated, client, cli, PathOf
  <1>9. Ended'
    BY <1>1, <1>2, <1>3, <1>4 DEF TypeOK, Ended, manual
  <1>10. OwnCancellation' /\ ManualOnce'
    BY <1>2, <1>4 DEF OwnCancellation, ManualOnce, client, manual, PathOf
  <1> QED
    BY <1>5, <1>6, <1>7, <1>8, <1>9, <1>10, FlagsFollow

\* Before the mutex nothing is shared, and only what the gate admits passes.
LEMMA ResolveStep == ASSUME SInv, NEW c \in Call, Resolve(c) PROVE SInv'
  <1> USE McpAssumption DEF SInv, Resolve, Blocked, Answer, Goto, client, cli, manual
  <1>1. TypeOK'
    BY DEF TypeOK, Phase, Outcome
  <1>2. Queued' /\ Mutex' /\ Clean'
    BY DEF TypeOK, Queued, Mutex, Clean
  <1>3. Gated'
    BY DEF TypeOK, Gated, PathOf, Path, Command
  <1>4. Ended' /\ OwnCancellation'
    BY DEF TypeOK, Ended, OwnCancellation, Ran
  <1>5. ManualOnce'
    BY DEF TypeOK, Ended, ManualOnce, Ran, PathOf
  <1> QED
    BY <1>1, <1>2, <1>3, <1>4, <1>5, FlagsFollow

\* The mutex is free, so the CLI is clean and nobody else runs.
LEMMA EnterStep == ASSUME SInv, NEW c \in Call, Enter(c) PROVE SInv'
  <1> USE McpAssumption DEF SInv, Enter, Goto, client, manual
  <1>1. TypeOK'
    BY DEF TypeOK, Phase
  <1>2. Queued' /\ Mutex' /\ Clean'
    BY DEF TypeOK, Queued, Mutex, Clean
  <1>3. Gated'
    BY DEF TypeOK, Gated, Mutex, PathOf
  <1>4. Ended' /\ OwnCancellation' /\ ManualOnce'
    BY DEF TypeOK, Ended, OwnCancellation, ManualOnce, PathOf
  <1> QED
    BY <1>1, <1>2, <1>3, <1>4, FlagsFollow

\* The command that returns was given its own context, and is the only one
\* between two values of manualDelivered.
LEMMA ReturnStep == ASSUME SInv, NEW c \in Call, Return(c) PROVE SInv'
  <1> USE McpAssumption DEF SInv, Return, Answer, Goto, Unwind, client, manual
  <1>1. TypeOK'
    BY DEF TypeOK, Phase, Outcome
  <1>2. Queued' /\ Mutex' /\ Clean'
    BY DEF TypeOK, Queued, Mutex, Clean
  <1>3. Gated'
    BY DEF TypeOK, Gated, PathOf
  <1>4. OwnCancellation'
    BY DEF TypeOK, Gated, OwnCancellation
  <1>5. outcome'[c] \in Ran /\ outcome[c] = "none"
    BY DEF TypeOK, Ended
  <1>6. Ended'
    BY <1>5 DEF TypeOK, Ended, Ran
  <1>7. ManualOnce'
    <2>1. \A d \in Call : outcome[d] \in Ran => outcome'[d] \in Ran
      BY <1>5 DEF TypeOK
    <2>2. CASE manualDelivered
      BY <1>5, <2>1, <2>2 DEF Ended, ManualOnce, PathOf
    <2>3. CASE ~manualDelivered
      BY <1>5, <2>3 DEF Ended, ManualOnce, PathOf
    <2> QED
      BY <2>2, <2>3
  <1> QED
    BY <1>1, <1>2, <1>3, <1>4, <1>6, <1>7, FlagsFollow

\* A panic unwinds the same deferred calls and no result.
LEMMA PanicStep == ASSUME SInv, NEW c \in Call, Panic(c) PROVE SInv'
  <1> USE McpAssumption DEF SInv, Panic, Answer, Goto, Unwind, client, manual
  <1>1. TypeOK'
    BY DEF TypeOK, Phase, Outcome
  <1>2. Queued' /\ Mutex' /\ Clean'
    BY DEF TypeOK, Queued, Mutex, Clean
  <1>3. Gated'
    BY DEF TypeOK, Gated, PathOf
  <1>4. Ended' /\ OwnCancellation'
    BY DEF TypeOK, Ended, OwnCancellation, Ran
  <1>5. ManualOnce'
    BY DEF TypeOK, Ended, ManualOnce, Ran, PathOf
  <1> QED
    BY <1>1, <1>2, <1>3, <1>4, <1>5, FlagsFollow

\* Writing an answer changes nothing the answers depend on.
LEMMA ReplyStep == ASSUME SInv, NEW c \in Call, Reply(c) PROVE SInv'
  <1> USE McpAssumption DEF SInv, Reply, Goto, client, cli, manual
  <1>1. TypeOK'
    BY DEF TypeOK, Phase
  <1>2. Queued' /\ Mutex' /\ Clean'
    BY DEF TypeOK, Queued, Mutex, Clean
  <1>3. Gated' /\ Ended'
    BY DEF TypeOK, Gated, Ended, PathOf
  <1>4. OwnCancellation' /\ ManualOnce'
    BY DEF OwnCancellation, ManualOnce, PathOf
  <1> QED
    BY <1>1, <1>2, <1>3, <1>4, FlagsFollow

\* Every step of the server and its client keeps the invariant.
LEMMA StepPreserves == SInv /\ [Next]_vars => SInv'
  <1> SUFFICES ASSUME SInv, [Next]_vars PROVE SInv'
    OBVIOUS
  <1>1. CASE UNCHANGED vars
    <2> USE <1>1 DEF SInv, vars, client, cli, manual
    <2>1. TypeOK' /\ Queued' /\ Mutex' /\ Clean'
      BY DEF TypeOK, Queued, Mutex, Clean
    <2>2. Gated' /\ Ended'
      BY DEF Gated, Ended, PathOf
    <2>3. OwnCancellation' /\ ManualOnce'
      BY DEF OwnCancellation, ManualOnce, PathOf
    <2> QED
      BY <2>1, <2>2, <2>3, FlagsFollow
  <1>2. CASE Next
    BY <1>2, SendStep, CancelStep, ReadLineStep, ResolveStep, EnterStep, ReturnStep, PanicStep, ReplyStep
       DEF Next, Serve, Handle
  <1> QED
    BY <1>1, <1>2

(* The inductive invariant holds in every state of a server (toolHandler,    *)
(* RunWithOutputContext), for any number of concurrent calls.                *)
THEOREM ServerInvariance == Spec => []SInv
  BY InitEstablishes, StepPreserves, PTL DEF Spec

(* No command sees a flag of another call's line, panics and cancellations   *)
(* included (resetSubcommandFlags under runMu).                              *)
THEOREM FlagsDoNotLeak == Spec => []OwnFlags
  <1>1. SInv => OwnFlags
    BY DEF SInv
  <1> QED
    BY <1>1, ServerInvariance, PTL

(* A command is aborted by the cancellation of its own call only             *)
(* (RunWithOutputContext's SetContext).                                      *)
THEOREM CancellationsDoNotLeak == Spec => []OwnCancellation
  <1>1. SInv => OwnCancellation
    BY DEF SInv
  <1> QED
    BY <1>1, ServerInvariance, PTL

(* At most one result carries the manual, and none is left without it before *)
(* one has carried it (toolHandler's manualDelivered).                       *)
THEOREM ManualIsDeliveredOnce == Spec => []ManualOnce
  <1>1. SInv => ManualOnce
    BY DEF SInv
  <1> QED
    BY <1>1, ServerInvariance, PTL

=============================================================================
