---------------------------- MODULE RetryBudget ----------------------------
(***************************************************************************)
(* One logical HTTP request (haapi.Client.doWithRetry and doPostOnce, the     *)
(* companion's Client.doWithRetry, httpretry): its attempts, the pauses       *)
(* between them and the time they share.                                      *)
(*                                                                            *)
(* Time is counted in ticks since the request began.  A request put on the    *)
(* wire may be acted on at any later time, also after its sender gave up.     *)
(***************************************************************************)
EXTENDS Integers, Sequences

CONSTANTS
    Total,       \* --timeout, the http.Client's Timeout
    Backoff,     \* the pause before each retry
    MaxSocket    \* bound: ticks spent waiting for an Ingress session

ASSUME BudgetAssumption ==
    /\ Total \in Nat \ {0}
    /\ Backoff \in Seq(Nat)
    /\ MaxSocket \in Nat

\* "once" is haapi's doPostOnce.
Sender == {"ha", "once", "companion"}
Method == {"GET", "HEAD", "PUT", "DELETE", "POST", "PATCH"}

IsIdempotent(method) == method \notin {"POST", "PATCH"}

\* What an attempt ends with: a status of the server, or a transport error.
Status == {"2xx", "4xx", "401", "5xx"}
Transport == {"dial", "reset", "deadline", "cancelled"}
Result == Status \cup Transport

\* The final answer; "session" when no Ingress session could be had.
FinalAnswer == Result \cup {"none", "session"}

VARIABLES
    request,     \* who sends what, and whether it goes through Ingress
    step,        \* "sign", "fly", "judge", "pause" or "answered"
    attempt,     \* retries so far
    elapsed,     \* ticks since the request began
    socket,      \* of these, ticks spent on the WebSocket for a session
    expires,     \* when the attempt under way is cut
    wakes,       \* when the pause ends
    session,     \* the cookie is cached in the client
    result,      \* what the attempt under way ended with
    last,        \* lastErr: what the retries were to improve on
    answer,      \* what the caller is told
    stopped,     \* the answer is wrapped in a StoppedError
    cancelledAt, \* when the caller's context was cancelled, or -1
    wire,        \* attempts the server has yet to act on or to refuse
    effects      \* how often the server has acted

requestClock == <<elapsed, socket, expires, wakes>>
answering == <<result, last, answer, stopped>>
server == <<wire, effects>>
requestVars ==
    <<request, step, attempt, requestClock, session, answering, cancelledAt, server>>

Retries == Len(Backoff)
Cancelled == cancelledAt >= 0
Overtime == elapsed >= Total

RequestInit ==
    /\ request \in [sender : Sender, method : Method, ingress : BOOLEAN]
    /\ request.ingress => request.sender = "companion"
    /\ request.sender = "once" => request.method = "POST"
    /\ session \in BOOLEAN
    /\ step = "sign" /\ attempt = 0
    /\ elapsed = 0 /\ socket = 0 /\ expires = 0 /\ wakes = 0
    /\ result = "none" /\ last = "none" /\ answer = "none" /\ stopped = FALSE
    /\ cancelledAt = -1
    /\ wire = {} /\ effects = 0

(***************************************************************************)
(* Attempts.                                                                 *)
(***************************************************************************)
\* applyIngressAuth: a session is fetched when there is none, and on a retry.
NeedsSession == request.ingress /\ (~session \/ attempt > 0)

AnswerWith(what, final) ==
    /\ step' = "answered" /\ answer' = what /\ stopped' = final

\* Mutant: every attempt has the whole timeout.
FreshTimeout ==
    /\ step = "sign"
    /\ session' = (session \/ NeedsSession)
    /\ expires' = elapsed + Total
    /\ IF Cancelled
       THEN step' = "judge" /\ result' = "cancelled" /\ UNCHANGED wire
       ELSE step' = "fly" /\ result' = "none" /\ wire' = wire \cup {attempt}
    /\ UNCHANGED <<request, attempt, elapsed, socket, wakes, last, answer, stopped,
                   cancelledAt, effects>>

\* A retry gets what is left of the budget, the first attempt all of it.
Attempt ==
    /\ step = "sign"
    /\ session' = (session \/ NeedsSession)
    /\ expires' = IF attempt = 0 THEN elapsed + Total ELSE Total
    /\ IF Cancelled \/ (attempt > 0 /\ Overtime)
       THEN /\ step' = "judge"
            /\ result' = IF Cancelled THEN "cancelled" ELSE "deadline"
            /\ UNCHANGED wire
       ELSE /\ step' = "fly"
            /\ result' = "none"
            /\ wire' = wire \cup {attempt}
    /\ UNCHANGED <<request, attempt, elapsed, socket, wakes, last, answer, stopped,
                   cancelledAt, effects>>

SessionFails ==
    /\ step = "sign" /\ NeedsSession
    /\ AnswerWith("session", FALSE)
    /\ UNCHANGED <<request, attempt, requestClock, session, result, last, cancelledAt, server>>

\* The attempt under way ends with r.
EndAttempt(r) ==
    /\ step = "fly"
    /\ step' = "judge" /\ result' = r
    /\ UNCHANGED <<request, attempt, requestClock, session, last, answer, stopped, cancelledAt>>

NotDialled == EndAttempt("dial") /\ wire' = wire \ {attempt} /\ UNCHANGED effects
ConnectionLost == EndAttempt("reset") /\ UNCHANGED server

\* Mutant: a retry has no deadline.
ExpireOnce ==
    attempt = 0 /\ elapsed >= expires /\ EndAttempt("deadline") /\ UNCHANGED server

Expire == elapsed >= expires /\ EndAttempt("deadline") /\ UNCHANGED server
Interrupt == Cancelled /\ EndAttempt("cancelled") /\ UNCHANGED server

(***************************************************************************)
(* The server (external).  It may fail before or after it has acted.         *)
(***************************************************************************)
Acts(a) == wire' = wire \ {a} /\ effects' = effects + 1
Refuses(a) == wire' = wire \ {a} /\ UNCHANGED effects

ServerReplies(a) ==
    \/ \E r \in {"2xx", "5xx"} : Acts(a) /\ EndAttempt(r)
    \/ \E r \in {"4xx", "401", "5xx"} : Refuses(a) /\ EndAttempt(r)

ActLate(a) ==
    /\ Acts(a) \/ Refuses(a)
    /\ UNCHANGED <<request, step, attempt, requestClock, session, answering, cancelledAt>>

ServerServes ==
    \E a \in wire :
        \/ a = attempt /\ ServerReplies(a)
        \/ (a # attempt \/ step # "fly") /\ ActLate(a)

(***************************************************************************)
(* Whether to try again.                                                     *)
(***************************************************************************)
Fits == Total - elapsed > Backoff[attempt + 1]

\* Budget.Cut: the budget's deadline ended this retry, not the caller.
Cut == result = "deadline" /\ ~Cancelled /\ last # "none"

\* httpretry.ShouldRetry, and the companion's 401 on a signed request.
ShouldRetry ==
    IF result \in Transport
    THEN IsIdempotent(request.method) \/ result = "dial"
    ELSE \/ result = "5xx" /\ IsIdempotent(request.method)
         \/ result = "401" /\ request.ingress

\* Mutant: any method is retried.
AnyMethodAgain ==
    /\ attempt < Retries
    /\ \/ request.sender = "companion" /\ result \in Transport \cup {"5xx"}
       \/ request.sender = "ha" /\ result = "5xx"

Again ==
    /\ attempt < Retries
    /\ \/ request.sender = "companion" /\ ShouldRetry
       \/ /\ request.sender = "ha"
          /\ result = "5xx" /\ IsIdempotent(request.method)

Judge ==
    /\ step = "judge"
    /\ \/ Cut /\ AnswerWith(last, TRUE) /\ UNCHANGED <<wakes, last>>
       \/ /\ ~Cut /\ Again /\ ~Fits
          /\ AnswerWith(result, TRUE) /\ last' = result /\ UNCHANGED wakes
       \/ /\ ~Cut /\ Again /\ Fits
          /\ step' = "pause" /\ wakes' = elapsed + Backoff[attempt + 1]
          /\ last' = result /\ UNCHANGED <<answer, stopped>>
       \/ ~Cut /\ ~Again /\ AnswerWith(result, FALSE) /\ UNCHANGED <<wakes, last>>
    /\ UNCHANGED <<request, attempt, elapsed, socket, expires, session, result,
                   cancelledAt, server>>

\* time.Sleep: it does not watch the caller's context.
Wake ==
    /\ step = "pause" /\ elapsed >= wakes
    /\ step' = "sign" /\ attempt' = attempt + 1
    /\ UNCHANGED <<request, requestClock, session, answering, cancelledAt, server>>

(***************************************************************************)
(* The caller and time.                                                      *)
(***************************************************************************)
CancelRequest ==
    /\ ~Cancelled /\ step # "answered"
    /\ cancelledAt' = elapsed
    /\ UNCHANGED <<request, step, attempt, requestClock, session, answering, server>>

\* Mutant: an attempt does not see that its caller has cancelled.
DeafTick ==
    /\ \/ step = "fly" /\ elapsed < expires /\ UNCHANGED socket
       \/ step = "pause" /\ elapsed < wakes /\ UNCHANGED socket
       \/ /\ step = "sign" /\ NeedsSession /\ socket < MaxSocket
          /\ socket' = socket + 1
    /\ elapsed' = elapsed + 1
    /\ UNCHANGED <<request, step, attempt, expires, wakes, session, answering,
                   cancelledAt, server>>

\* Nothing but an attempt, a pause and the wait for a session takes time.
Tick ==
    /\ \/ step = "fly" /\ elapsed < expires /\ ~Cancelled /\ UNCHANGED socket
       \/ step = "pause" /\ elapsed < wakes /\ UNCHANGED socket
       \/ /\ step = "sign" /\ NeedsSession /\ socket < MaxSocket
          /\ socket' = socket + 1
    /\ elapsed' = elapsed + 1
    /\ UNCHANGED <<request, step, attempt, expires, wakes, session, answering,
                   cancelledAt, server>>

RequestStep ==
    \/ Attempt \/ SessionFails
    \/ NotDialled \/ ConnectionLost \/ Expire \/ Interrupt
    \/ Judge \/ Wake \/ Tick

RequestNext == RequestStep \/ ServerServes \/ CancelRequest

RequestSpec == RequestInit /\ [][RequestNext]_requestVars

\* What hactl does by itself: timers fire and the program goes on.  Whether a
\* session is had, and how a connection ends, is up to Home Assistant.
OwnStep ==
    \/ ~NeedsSession /\ Attempt
    \/ Expire \/ Interrupt \/ Judge \/ Wake \/ Tick

RequestFair == RequestSpec /\ WF_requestVars(OwnStep)

(***************************************************************************)
(* Properties.                                                               *)
(***************************************************************************)
RequestTypeOK ==
    /\ request \in [sender : Sender, method : Method, ingress : BOOLEAN]
    /\ step \in {"sign", "fly", "judge", "pause", "answered"}
    /\ attempt \in 0 .. Retries
    /\ elapsed \in Nat /\ socket \in 0 .. MaxSocket
    /\ expires \in Nat /\ wakes \in Nat
    /\ session \in BOOLEAN
    /\ result \in Result \cup {"none"} /\ last \in Result \cup {"none"}
    /\ answer \in FinalAnswer /\ stopped \in BOOLEAN
    /\ cancelledAt \in Nat \cup {-1}
    /\ wire \subseteq 0 .. Retries
    /\ effects \in Nat

\* httpretry: a create is never silently duplicated.  However the attempts of a
\* POST or PATCH end, and however late the server acts on one, it acts once.
AtMostOnce == ~IsIdempotent(request.method) => effects <= 1

\* H-23, D-34: the attempts, the retries and their pauses together take no longer
\* than --timeout.  The wait for an Ingress session is on top: sendCommand drops
\* the context it is given.
WithinBudget == elapsed <= Total + socket

\* The pauses after so many retries take together at most this.
PausesFrom[i \in 0 .. Retries] ==
    IF i = Retries THEN 0 ELSE Backoff[i + 1] + PausesFrom[i + 1]

\* The pauses do not watch the caller's context, and the companion's client
\* retries a cancelled attempt as it does any other: a cancelled request still
\* ends, at the latest when its remaining pauses and session fetches are over.
CancelledSoonEnds ==
    Cancelled => elapsed - cancelledAt <= PausesFrom[0] + MaxSocket

\* Every request ends, however the server and the network fail it, but for one that
\* waits for an Ingress session: sendCommand reads without a deadline.
EveryRequestEnds == <>(step = "answered" \/ [](step = "sign" /\ NeedsSession))

(***************************************************************************)
(* Implementation of the promise.                                            *)
(***************************************************************************)
ToldOf(what) ==
    CASE what = "none" -> "none"
      [] what = "2xx"  -> "success"
      [] OTHER         -> "failure"

Caller == INSTANCE OneRequest WITH
    repeatable <- IsIdempotent(request.method),
    acted <- effects,
    told <- ToldOf(answer)

\* Either client keeps the promise of OneRequest.
KeepsPromise == Caller!Promise

=============================================================================
