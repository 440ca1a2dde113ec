------------------------- MODULE RetryBudget_proofs -------------------------
(***************************************************************************)
(* One request of either client, for every timeout, every table of pauses     *)
(* and every sender and method: it stays within its budget, a cancelled one    *)
(* ends, and it implements OneRequest.                                         *)
(*                                                                             *)
(* AtMostOnce alone does not carry: what has been acted on and what the server *)
(* may still act on have to be counted together, and a retry of a POST has to   *)
(* know that the attempt before it left nothing behind.                        *)
(***************************************************************************)
EXTENDS RetryBudget, WellFoundedInduction, TLAPS

-----------------------------------------------------------------------------
\* Where the time goes: before the first attempt only into the wait for a session.
Timely ==
    /\ elapsed <= Total + socket
    /\ step = "sign" /\ attempt = 0 => elapsed = socket
    /\ step = "fly" => expires <= Total + socket
    /\ step = "pause" => wakes <= Total /\ attempt < Retries

\* A request that must not be repeated is on the wire or has been acted on, once,
\* and neither while it may be sent again.
Sole ==
    ~IsIdempotent(request.method) =>
        /\ \/ wire = {} /\ effects <= 1
           \/ effects = 0 /\ wire = {attempt}
        /\ step \in {"sign", "pause"} => wire = {} /\ effects = 0
        /\ step = "fly" => wire = {attempt}
        /\ step = "judge" /\ result \in {"dial", "401"} => wire = {} /\ effects = 0

\* Only an answered request has an answer, and a success was acted on.
Honest ==
    /\ (step = "answered") <=> (answer # "none")
    /\ step = "judge" => result # "none"
    /\ result = "2xx" => effects > 0
    /\ last # "2xx"
    /\ answer = "2xx" => effects > 0

BInv == RequestTypeOK /\ Timely /\ Sole /\ Honest

-----------------------------------------------------------------------------
LEMMA RetriesIsNat == Retries \in Nat
  BY BudgetAssumption DEF Retries

LEMMA RequestBegins == RequestInit => BInv
  <1> SUFFICES ASSUME RequestInit PROVE BInv
    OBVIOUS
  <1>1. RequestTypeOK
    <2>1. attempt \in 0 .. Retries /\ socket \in 0 .. MaxSocket /\ cancelledAt \in Nat \cup {-1}
      BY RetriesIsNat, BudgetAssumption DEF RequestInit
    <2>2. QED
      BY <2>1 DEF RequestInit, RequestTypeOK, FinalAnswer
  <1>2. Timely
    BY BudgetAssumption DEF RequestInit, Timely
  <1>3. Sole /\ Honest
    BY DEF RequestInit, Sole, Honest
  <1>4. QED
    BY <1>1, <1>2, <1>3 DEF BInv

\* What an answer is made of.
LEMMA AnswerKeeps ==
    ASSUME BInv, step \in {"sign", "judge"},
           NEW what \in FinalAnswer \ {"none"}, NEW final \in BOOLEAN,
           what = "2xx" => effects > 0,
           AnswerWith(what, final),
           last' \in Result \cup {"none"}, last' # "2xx",
           wakes' = wakes,
           UNCHANGED <<request, attempt, elapsed, socket, expires, session, result,
                       cancelledAt, server>>
    PROVE BInv'
  BY DEF BInv, RequestTypeOK, Timely, Sole, Honest, AnswerWith, server, Retries, IsIdempotent,
         Result, Status, Transport, FinalAnswer

LEMMA AttemptKeeps == BInv /\ Attempt => BInv'
  <1> SUFFICES ASSUME BInv, Attempt PROVE BInv'
    OBVIOUS
  <1> USE DEF BInv
  <1>1. RequestTypeOK'
    <2>1. session' \in BOOLEAN
      BY Zenon DEF Attempt
    <2>2. expires' \in Nat
      BY BudgetAssumption DEF Attempt, RequestTypeOK
    <2>3. wire' \subseteq 0 .. Retries
      BY DEF Attempt, RequestTypeOK
    <2>4. step' \in {"judge", "fly"} /\ result' \in Result \cup {"none"}
      BY DEF Attempt, Result, Transport
    <2>5. QED
      BY <2>1, <2>2, <2>3, <2>4 DEF Attempt, RequestTypeOK
  <1>2. Timely'
    BY BudgetAssumption DEF Attempt, RequestTypeOK, Timely
  <1>3. Sole'
    BY DEF Attempt, Sole, IsIdempotent, RequestTypeOK
  <1>4. Honest'
    BY DEF Attempt, Honest
  <1>5. QED
    BY <1>1, <1>2, <1>3, <1>4

LEMMA SessionFailsKeeps == BInv /\ SessionFails => BInv'
  <1> SUFFICES ASSUME BInv, SessionFails PROVE BInv'
    OBVIOUS
  <1>1. "session" \in FinalAnswer \ {"none"}
    BY DEF FinalAnswer
  <1>2. /\ last' = last /\ wakes' = wakes
        /\ UNCHANGED <<request, attempt, elapsed, socket, expires, session, result,
                       cancelledAt, server>>
    BY DEF SessionFails, requestClock
  <1>3. last \in Result \cup {"none"} /\ last # "2xx"
    BY DEF BInv, RequestTypeOK, Honest
  <1>4. AnswerWith("session", FALSE) /\ step = "sign"
    BY DEF SessionFails
  <1>5. QED
    BY <1>1, <1>2, <1>3, <1>4, AnswerKeeps

-----------------------------------------------------------------------------
(* An attempt ends.                                                          *)

\* However it ends, the type, the time and the answer are in order.
LEMMA EndAttemptKeeps ==
    ASSUME BInv, NEW r \in Result, EndAttempt(r),
           wire' \subseteq wire, effects' \in {effects, effects + 1},
           r = "2xx" => effects' = effects + 1
    PROVE RequestTypeOK' /\ Timely' /\ Honest'
  BY DEF BInv, RequestTypeOK, Timely, Honest, EndAttempt, requestClock, Result, Status,
         Transport

LEMMA NotDialledKeeps == BInv /\ NotDialled => BInv'
  <1> SUFFICES ASSUME BInv, NotDialled PROVE BInv'
    OBVIOUS
  <1>1. RequestTypeOK' /\ Timely' /\ Honest'
    BY EndAttemptKeeps, "dial" \in Result DEF NotDialled, Result, Transport
  <1>2. Sole'
    BY DEF BInv, NotDialled, EndAttempt, Sole, IsIdempotent
  <1>3. QED
    BY <1>1, <1>2 DEF BInv

\* Of what the network or the clock did to it.
LEMMA UnansweredKeeps ==
    ASSUME BInv, NEW r \in {"reset", "deadline", "cancelled"}, EndAttempt(r), UNCHANGED server
    PROVE BInv'
  <1>1. r \in Result /\ r # "2xx"
    BY DEF Result, Transport
  <1>2. RequestTypeOK' /\ Timely' /\ Honest'
    BY <1>1, EndAttemptKeeps DEF server
  <1>3. Sole'
    BY DEF BInv, EndAttempt, Sole, server, IsIdempotent
  <1>4. QED
    BY <1>2, <1>3 DEF BInv

LEMMA ServerServesKeeps == BInv /\ ServerServes => BInv'
  <1> SUFFICES ASSUME BInv, NEW a \in wire,
                      \/ a = attempt /\ ServerReplies(a)
                      \/ (a # attempt \/ step # "fly") /\ ActLate(a)
               PROVE BInv'
    BY DEF ServerServes
  <1>1. CASE a = attempt /\ ServerReplies(a)
    <2>1. PICK r \in {"2xx", "5xx", "4xx", "401"} :
             /\ EndAttempt(r)
             /\ \/ Acts(a) /\ r \in {"2xx", "5xx"}
                \/ Refuses(a) /\ r # "2xx"
      BY <1>1 DEF ServerReplies
    <2>2. r \in Result
      BY DEF Result, Status
    <2>3. RequestTypeOK' /\ Timely' /\ Honest'
      BY <2>1, <2>2, EndAttemptKeeps DEF Acts, Refuses
    <2>4. Sole'
      BY <1>1, <2>1 DEF BInv, RequestTypeOK, EndAttempt, Sole, Acts, Refuses, IsIdempotent
    <2>5. QED
      BY <2>3, <2>4 DEF BInv
  <1>2. CASE (a # attempt \/ step # "fly") /\ ActLate(a)
    <2>1. /\ wire' = wire \ {a} /\ effects' \in {effects, effects + 1}
          /\ UNCHANGED <<request, step, attempt, requestClock, session, answering, cancelledAt>>
      BY <1>2 DEF ActLate, Acts, Refuses
    <2>2. RequestTypeOK' /\ Timely' /\ Honest'
      BY <2>1 DEF BInv, RequestTypeOK, Timely, Honest, requestClock, answering
    <2>3. Sole'
      BY <1>2, <2>1 DEF BInv, RequestTypeOK, Sole, IsIdempotent, answering
    <2>4. QED
      BY <2>2, <2>3 DEF BInv
  <1>3. QED
    BY <1>1, <1>2

-----------------------------------------------------------------------------
(* Whether to try again.                                                     *)

\* A retry of a POST or PATCH finds that the server never had the one before.
LEMMA AgainIsAlone ==
    ASSUME BInv, step = "judge", Again
    PROVE /\ result # "2xx" /\ attempt + 1 \in 1 .. Len(Backoff)
          /\ ~IsIdempotent(request.method) => wire = {} /\ effects = 0
  <1>1. result # "2xx" /\ (IsIdempotent(request.method) \/ result \in {"dial", "401"})
    BY DEF Again, ShouldRetry, Transport
  <1>2. attempt + 1 \in 1 .. Len(Backoff)
    BY BudgetAssumption DEF Again, BInv, RequestTypeOK, Retries
  <1>3. QED
    BY <1>1, <1>2 DEF BInv, Sole

LEMMA JudgeKeeps == BInv /\ Judge => BInv'
  <1> SUFFICES ASSUME BInv, Judge PROVE BInv'
    OBVIOUS
  <1>1. /\ step = "judge" /\ result \in Result /\ (result = "2xx" => effects > 0)
        /\ last \in Result \cup {"none"} /\ last # "2xx"
        /\ UNCHANGED <<request, attempt, elapsed, socket, expires, session, result,
                       cancelledAt, server>>
    BY DEF Judge, BInv, RequestTypeOK, Honest
  <1>2. Result \subseteq FinalAnswer \ {"none"}
    BY DEF Result, FinalAnswer, Status, Transport
  <1>3. CASE Cut /\ AnswerWith(last, TRUE) /\ UNCHANGED <<wakes, last>>
    <2>1. last \in FinalAnswer \ {"none"} /\ last' = last /\ wakes' = wakes
      BY <1>1, <1>2, <1>3 DEF Cut
    <2>2. QED
      BY <1>1, <1>3, <2>1, AnswerKeeps
  <1>4. CASE ~Cut /\ Again /\ ~Fits /\ AnswerWith(result, TRUE) /\ last' = result /\ UNCHANGED wakes
    <2>1. result # "2xx" /\ last' \in Result \cup {"none"} /\ last' # "2xx"
      BY <1>1, <1>4, AgainIsAlone
    <2>2. result \in FinalAnswer \ {"none"}
      BY <1>1, <1>2
    <2>3. QED
      BY <1>1, <1>4, <2>1, <2>2, AnswerKeeps
  <1>5. CASE /\ ~Cut /\ Again /\ Fits
             /\ step' = "pause" /\ wakes' = elapsed + Backoff[attempt + 1]
             /\ last' = result /\ UNCHANGED <<answer, stopped>>
    <2>1. /\ result # "2xx" /\ attempt + 1 \in 1 .. Len(Backoff)
          /\ ~IsIdempotent(request.method) => wire = {} /\ effects = 0
      BY <1>1, <1>5, AgainIsAlone
    <2>2. Backoff[attempt + 1] \in Nat
      BY <2>1, BudgetAssumption
    <2>3. RequestTypeOK'
      BY <1>1, <1>5, <2>2 DEF BInv, RequestTypeOK, server
    <2>4. Timely'
      BY <1>1, <1>5, <2>2, BudgetAssumption DEF BInv, RequestTypeOK, Timely, Fits, Again
    <2>5. Sole'
      BY <1>1, <1>5, <2>1 DEF Sole, server, IsIdempotent
    <2>6. Honest'
      BY <1>1, <1>5, <2>1 DEF BInv, Honest, server
    <2>7. QED
      BY <2>3, <2>4, <2>5, <2>6 DEF BInv
  <1>6. CASE ~Cut /\ ~Again /\ AnswerWith(result, FALSE) /\ UNCHANGED <<wakes, last>>
    <2>1. result \in FinalAnswer \ {"none"} /\ last' = last /\ wakes' = wakes
      BY <1>1, <1>2, <1>6
    <2>2. QED
      BY <1>1, <1>6, <2>1, AnswerKeeps
  <1>7. QED
    BY <1>3, <1>4, <1>5, <1>6 DEF Judge

LEMMA WakeKeeps == BInv /\ Wake => BInv'
  <1> SUFFICES ASSUME BInv, Wake PROVE BInv'
    OBVIOUS
  <1>1. /\ step = "pause" /\ step' = "sign" /\ attempt' = attempt + 1
        /\ UNCHANGED <<request, elapsed, socket, expires, wakes, session, result, last,
                       answer, stopped, cancelledAt, wire, effects>>
    BY DEF Wake, requestClock, answering, server
  <1>2. attempt \in Nat /\ attempt < Retries
    BY <1>1, RetriesIsNat DEF BInv, RequestTypeOK, Timely
  <1>3. RequestTypeOK'
    BY <1>1, <1>2, RetriesIsNat DEF BInv, RequestTypeOK
  <1>4. Timely'
    BY <1>1, <1>2 DEF BInv, Timely
  <1>5. Sole' /\ Honest'
    BY <1>1 DEF BInv, Sole, Honest, IsIdempotent
  <1>6. QED
    BY <1>3, <1>4, <1>5 DEF BInv

LEMMA CancelKeeps == BInv /\ CancelRequest => BInv'
  BY DEF BInv, RequestTypeOK, Timely, Sole, Honest, CancelRequest, IsIdempotent, requestClock,
         answering, server

LEMMA TickKeeps == BInv /\ Tick => BInv'
  <1> SUFFICES ASSUME BInv, Tick PROVE BInv'
    OBVIOUS
  <1>1. /\ elapsed' = elapsed + 1
        /\ UNCHANGED <<request, step, attempt, expires, wakes, session, result, last,
                       answer, stopped, cancelledAt, wire, effects>>
    BY DEF Tick, answering, server
  <1>2. RequestTypeOK'
    BY <1>1, BudgetAssumption DEF BInv, RequestTypeOK, Tick
  <1>3. Timely'
    BY <1>1, BudgetAssumption DEF BInv, RequestTypeOK, Timely, Tick
  <1>4. Sole' /\ Honest'
    BY <1>1 DEF BInv, Sole, Honest, IsIdempotent
  <1>5. QED
    BY <1>2, <1>3, <1>4 DEF BInv

LEMMA RequestKeeps == BInv /\ [RequestNext]_requestVars => BInv'
  <1> SUFFICES ASSUME BInv, [RequestNext]_requestVars PROVE BInv'
    OBVIOUS
  <1>1. CASE Attempt
    BY <1>1, AttemptKeeps
  <1>2. CASE SessionFails
    BY <1>2, SessionFailsKeeps
  <1>3. CASE NotDialled
    BY <1>3, NotDialledKeeps
  <1>4. CASE ConnectionLost \/ Expire \/ Interrupt
    BY <1>4, UnansweredKeeps DEF ConnectionLost, Expire, Interrupt
  <1>5. CASE Judge
    BY <1>5, JudgeKeeps
  <1>6. CASE Wake
    BY <1>6, WakeKeeps
  <1>7. CASE Tick
    BY <1>7, TickKeeps
  <1>8. CASE ServerServes
    BY <1>8, ServerServesKeeps
  <1>9. CASE CancelRequest
    BY <1>9, CancelKeeps
  <1>10. CASE UNCHANGED requestVars
    BY <1>10 DEF BInv, RequestTypeOK, Timely, Sole, Honest, IsIdempotent, requestVars,
                 requestClock, answering, server
  <1>11. QED
    BY <1>1, <1>2, <1>3, <1>4, <1>5, <1>6, <1>7, <1>8, <1>9, <1>10 DEF RequestNext, RequestStep

-----------------------------------------------------------------------------
(* Theorems.                                                                 *)

\* The inductive invariant of one request.
THEOREM RequestInvariance == RequestSpec => []BInv
  BY RequestBegins, RequestKeeps, PTL DEF RequestSpec

\* httpretry: whatever is lost, retried or late, the server acts on a POST or PATCH
\* at most once.
THEOREM NothingIsDuplicated == RequestSpec => []AtMostOnce
  <1>1. BInv => AtMostOnce
    BY DEF BInv, Sole, AtMostOnce
  <1>2. QED
    BY <1>1, RequestInvariance, PTL

\* Budget: a request takes no longer than --timeout and its wait for a session.
THEOREM BudgetIsKept == RequestSpec => []WithinBudget
  <1>1. BInv => WithinBudget
    BY DEF BInv, Timely, WithinBudget
  <1>2. QED
    BY <1>1, RequestInvariance, PTL

-----------------------------------------------------------------------------
(* How long a cancelled request goes on.                                     *)

\* A table of what the pauses from the k-th on take together.
SumsUp(k, f) ==
    /\ f \in [k .. Retries -> Nat] /\ f[Retries] = 0
    /\ \A i \in k .. Retries - 1 : f[i] = Backoff[i + 1] + f[i + 1]

\* There is one, from the last pause back to any: were there a first place it cannot be
\* carried to, the one after it would do.
LEMMA SumsExist == \E f : SumsUp(0, f)
  <1> DEFINE Unsummed == {n \in 0 .. Retries : ~\E f : SumsUp(Retries - n, f)}
  <1>1. Retries \in Nat /\ Retries = Len(Backoff)
    BY RetriesIsNat DEF Retries
  <1>2. ASSUME Unsummed # {} PROVE FALSE
    <2>1. Unsummed \in SUBSET Nat
      BY <1>1
    <2>2. PICK n \in Unsummed : \A m \in Unsummed : ~(<<m, n>> \in OpToRel(<, Nat))
      BY <1>2, <2>1, WFMin, NatLessThanWellFounded
    <2>3. n \in 0 .. Retries /\ ~\E f : SumsUp(Retries - n, f)
      OBVIOUS
    <2>4. n # 0
      <3>1. SumsUp(Retries, [i \in Retries .. Retries |-> 0])
        BY <1>1 DEF SumsUp
      <3>2. QED
        BY <1>1, <2>3, <3>1
    <2>5. PICK f : SumsUp(Retries - (n - 1), f)
      <3>1. n - 1 \in Nat /\ n - 1 < n /\ n \in Nat /\ n - 1 \in 0 .. Retries
        BY <1>1, <2>3, <2>4
      <3>2. n - 1 \notin Unsummed
        BY <2>2, <3>1 DEF OpToRel
      <3>3. QED
        BY <3>1, <3>2
    <2> DEFINE k == Retries - n
               g == [i \in k .. Retries |-> IF i = k THEN Backoff[k + 1] + f[k + 1] ELSE f[i]]
    <2>6. k \in 0 .. Retries - 1 /\ k + 1 \in 1 .. Retries /\ Retries - (n - 1) = k + 1
      BY <1>1, <2>3, <2>4
    <2>7. Backoff[k + 1] \in Nat /\ f[k + 1] \in Nat
      <3>1. k + 1 \in 1 .. Len(Backoff) /\ k + 1 \in k + 1 .. Retries
        BY <1>1, <2>6
      <3>2. Backoff[k + 1] \in Nat
        BY <3>1, BudgetAssumption
      <3>3. f \in [k + 1 .. Retries -> Nat]
        BY <2>5, <2>6 DEF SumsUp
      <3> HIDE DEF k
      <3>4. QED
        BY <3>1, <3>2, <3>3
    <2> HIDE DEF k
    <2>8. SumsUp(k, g)
      <3>1. \A i \in k .. Retries : i = k \/ i \in k + 1 .. Retries
        BY <1>1, <2>6
      <3>2. g \in [k .. Retries -> Nat]
        BY <2>5, <2>6, <2>7, <3>1 DEF SumsUp
      <3>3. g[Retries] = 0
        BY <1>1, <2>5, <2>6 DEF SumsUp
      <3>4. ASSUME NEW i \in k .. Retries - 1 PROVE g[i] = Backoff[i + 1] + g[i + 1]
        <4>1. /\ i + 1 \in k + 1 .. Retries /\ i + 1 # k /\ i \in k .. Retries
              /\ i + 1 \in k .. Retries
          BY <1>1, <2>6
        <4>2. g[i + 1] = f[i + 1]
          BY <4>1
        <4>3. CASE i = k
          BY <4>1, <4>2, <4>3
        <4>4. CASE i # k
          <5>1. i \in k + 1 .. Retries - 1
            BY <1>1, <2>6, <4>4
          <5>2. QED
            BY <2>5, <2>6, <4>1, <4>2, <4>4, <5>1 DEF SumsUp
        <4>5. QED
          BY <4>3, <4>4
      <3>5. QED
        BY <3>2, <3>3, <3>4 DEF SumsUp
    <2>9. QED
      BY <2>3, <2>8 DEF k
  <1>3. PICK f : SumsUp(Retries - Retries, f)
    <2>1. Retries \in 0 .. Retries
      BY <1>1
    <2>2. QED
      BY <1>2, <2>1
  <1>4. Retries - Retries = 0
    BY <1>1
  <1>5. QED
    BY <1>3, <1>4

LEMMA PausesSumUp == SumsUp(0, PausesFrom)
  <1>1. PICK f : SumsUp(0, f)
    BY SumsExist
  <1>2. f = [i \in 0 .. Retries |-> IF i = Retries THEN 0 ELSE Backoff[i + 1] + f[i + 1]]
    <2>1. ASSUME NEW i \in 0 .. Retries
          PROVE  f[i] = IF i = Retries THEN 0 ELSE Backoff[i + 1] + f[i + 1]
      BY <1>1, RetriesIsNat DEF SumsUp
    <2>2. QED
      BY <1>1, <2>1 DEF SumsUp
  <1>3. PausesFrom =
            [i \in 0 .. Retries |-> IF i = Retries THEN 0 ELSE Backoff[i + 1] + PausesFrom[i + 1]]
    BY <1>2, Zenon DEF PausesFrom
  <1> DEFINE Differs == {n \in 0 .. Retries : PausesFrom[Retries - n] # f[Retries - n]}
  <1>4. ASSUME Differs # {} PROVE FALSE
    <2>1. Differs \in SUBSET Nat
      BY RetriesIsNat
    <2>2. PICK n \in Differs : \A m \in Differs : ~(<<m, n>> \in OpToRel(<, Nat))
      BY <1>4, <2>1, WFMin, NatLessThanWellFounded
    <2>3. n \in 0 .. Retries /\ PausesFrom[Retries - n] # f[Retries - n]
      OBVIOUS
    <2>4. \A i \in 0 .. Retries :
             PausesFrom[i] = IF i = Retries THEN 0 ELSE Backoff[i + 1] + PausesFrom[i + 1]
      BY <1>3
    <2>5. n # 0
      <3>1. Retries \in 0 .. Retries /\ Retries - 0 = Retries
        BY RetriesIsNat
      <3>2. PausesFrom[Retries] = 0 /\ f[Retries] = 0
        BY <1>1, <2>4, <3>1 DEF SumsUp
      <3>3. QED
        BY <2>3, <3>1, <3>2
    <2>6. /\ n - 1 \in Nat /\ n - 1 < n /\ n \in Nat /\ n - 1 \in 0 .. Retries
          /\ Retries - n \in 0 .. Retries - 1 /\ Retries - (n - 1) = (Retries - n) + 1
          /\ Retries - n \in 0 .. Retries /\ Retries - n # Retries
      BY RetriesIsNat, <2>3, <2>5
    <2>7. PausesFrom[Retries - (n - 1)] = f[Retries - (n - 1)]
      <3>1. n - 1 \notin Differs
        BY <2>2, <2>6 DEF OpToRel
      <3>2. QED
        BY <2>6, <3>1
    <2>8. /\ PausesFrom[Retries - n] = Backoff[(Retries - n) + 1] + PausesFrom[(Retries - n) + 1]
          /\ f[Retries - n] = Backoff[(Retries - n) + 1] + f[(Retries - n) + 1]
      BY <1>1, <2>4, <2>6 DEF SumsUp
    <2>9. QED
      BY <2>3, <2>6, <2>7, <2>8
  <1>5. ASSUME NEW i \in 0 .. Retries PROVE PausesFrom[i] = f[i]
    <2>1. Retries - i \in 0 .. Retries /\ Retries - (Retries - i) = i
      BY RetriesIsNat
    <2>2. Retries - i \notin Differs
      BY <1>4
    <2>3. QED
      BY <2>1, <2>2
  <1>6. DOMAIN PausesFrom = 0 .. Retries /\ PausesFrom = [i \in 0 .. Retries |-> PausesFrom[i]]
    BY <1>3
  <1>7. PausesFrom = f
    BY <1>1, <1>5, <1>6 DEF SumsUp
  <1>8. QED
    BY <1>1, <1>7

\* What a cancelled request may still take: the pauses that are left, and its wait for a
\* session.
Hurried ==
    /\ attempt \in 0 .. Retries => PausesFrom[attempt] <= PausesFrom[0]
    /\ step = "pause" => elapsed <= wakes /\ wakes <= elapsed + Backoff[attempt + 1]
    /\ Cancelled /\ step # "pause" =>
          elapsed + PausesFrom[attempt] <= cancelledAt + PausesFrom[0] + socket
    /\ Cancelled /\ step = "pause" =>
          wakes + PausesFrom[attempt + 1] <= cancelledAt + PausesFrom[0] + socket

CInv == BInv /\ Hurried

LEMMA PauseTyped ==
    /\ \A i \in 0 .. Retries : PausesFrom[i] \in Nat
    /\ \A i \in 0 .. Retries - 1 :
          /\ PausesFrom[i] = Backoff[i + 1] + PausesFrom[i + 1]
          /\ Backoff[i + 1] \in Nat /\ PausesFrom[i + 1] \in Nat
  <1>1. \A i \in 0 .. Retries : PausesFrom[i] \in Nat
    BY PausesSumUp DEF SumsUp
  <1>2. ASSUME NEW i \in 0 .. Retries - 1
        PROVE  /\ PausesFrom[i] = Backoff[i + 1] + PausesFrom[i + 1]
               /\ Backoff[i + 1] \in Nat /\ PausesFrom[i + 1] \in Nat
    <2>1. i + 1 \in 0 .. Retries /\ i + 1 \in 1 .. Len(Backoff)
      BY RetriesIsNat DEF Retries
    <2>2. Backoff[i + 1] \in Nat
      BY <2>1, BudgetAssumption
    <2>3. QED
      BY <1>1, <2>1, <2>2, PausesSumUp DEF SumsUp
  <1>3. QED
    BY <1>1, <1>2

LEMMA HurryBegins == RequestInit => Hurried
  <1> SUFFICES ASSUME RequestInit PROVE Hurried
    OBVIOUS
  <1>1. 0 \in 0 .. Retries /\ PausesFrom[0] \in Nat
    BY RetriesIsNat, PauseTyped
  <1>2. attempt = 0 /\ step = "sign" /\ ~Cancelled
    BY DEF RequestInit, Cancelled
  <1>3. QED
    BY <1>1, <1>2 DEF Hurried

\* Where the caller has cancelled, only a pause and the wait for a session take time.
LEMMA HurryKeeps == CInv /\ [RequestNext]_requestVars => Hurried'
  <1> SUFFICES ASSUME CInv, [RequestNext]_requestVars PROVE Hurried'
    OBVIOUS
  <1>1. /\ attempt \in 0 .. Retries /\ elapsed \in Nat /\ socket \in Nat /\ wakes \in Nat
        /\ cancelledAt \in Nat \cup {-1} /\ PausesFrom[0] \in Nat /\ PausesFrom[attempt] \in Nat
        /\ step = "pause" => attempt \in 0 .. Retries - 1
        /\ Hurried
    <2>1. /\ attempt \in 0 .. Retries /\ elapsed \in Nat /\ socket \in Nat /\ wakes \in Nat
          /\ cancelledAt \in Nat \cup {-1} /\ (step = "pause" => attempt < Retries)
      BY BudgetAssumption DEF CInv, BInv, RequestTypeOK, Timely
    <2>2. 0 \in 0 .. Retries
      BY RetriesIsNat
    <2>3. QED
      BY <2>1, <2>2, RetriesIsNat, PauseTyped DEF CInv
  <1>2. attempt \in 0 .. Retries - 1 =>
           /\ PausesFrom[attempt] = Backoff[attempt + 1] + PausesFrom[attempt + 1]
           /\ Backoff[attempt + 1] \in Nat /\ PausesFrom[attempt + 1] \in Nat
    BY PauseTyped
  <1>3. CASE Tick
    <2>1. /\ elapsed' = elapsed + 1 /\ UNCHANGED <<step, attempt, wakes, cancelledAt>>
          /\ \/ step = "fly" /\ ~Cancelled /\ socket' = socket
             \/ step = "pause" /\ elapsed < wakes /\ socket' = socket
             \/ step = "sign" /\ socket' = socket + 1
      BY <1>3 DEF Tick
    <2>2. QED
      BY <1>1, <1>2, <2>1 DEF Hurried, Cancelled
  <1>4. CASE Wake
    <2>1. /\ step = "pause" /\ elapsed >= wakes /\ step' = "sign" /\ attempt' = attempt + 1
          /\ UNCHANGED <<elapsed, socket, wakes, cancelledAt>>
      BY <1>4 DEF Wake, requestClock
    <2>2. QED
      BY <1>1, <1>2, <2>1 DEF Hurried, Cancelled
  <1>5. CASE Judge
    <2>1. /\ step = "judge" /\ UNCHANGED <<elapsed, socket, attempt, cancelledAt>>
          /\ \/ step' = "answered"
             \/ step' = "pause" /\ wakes' = elapsed + Backoff[attempt + 1] /\ Again
      BY <1>5 DEF Judge, AnswerWith
    <2>2. step' = "pause" => attempt \in 0 .. Retries - 1
      BY <1>1, <2>1, RetriesIsNat DEF Again
    <2>3. QED
      BY <1>1, <1>2, <2>1, <2>2 DEF Hurried, Cancelled
  <1>6. CASE CancelRequest
    <2>1. /\ ~Cancelled /\ cancelledAt' = elapsed
          /\ UNCHANGED <<step, attempt, elapsed, socket, wakes>>
      BY <1>6 DEF CancelRequest, requestClock
    <2>2. QED
      BY <1>1, <1>2, <2>1 DEF Hurried, Cancelled
  <1>7. CASE ~Tick /\ ~Wake /\ ~Judge /\ ~CancelRequest
    <2>1. /\ UNCHANGED <<attempt, elapsed, socket, wakes, cancelledAt>>
          /\ step' = step \/ (step # "pause" /\ step' # "pause")
      BY <1>7
         DEF RequestNext, RequestStep, Attempt, SessionFails, AnswerWith, NotDialled,
             ConnectionLost, Expire, Interrupt, EndAttempt, ServerServes, ServerReplies, ActLate,
             requestVars, requestClock, answering, server
    <2>2. QED
      BY <1>1, <2>1 DEF Hurried, Cancelled
  <1>8. QED
    BY <1>3, <1>4, <1>5, <1>6, <1>7

\* A cancelled request ends: the pauses do not watch the caller's context, and the companion's
\* client retries a cancelled attempt as it does any other, and still it takes no longer than
\* all the pauses and the waits for a session, whatever the table of pauses (doWithRetry).
THEOREM CancelledEndsSoon == RequestSpec => []CancelledSoonEnds
  <1>1. CInv => CancelledSoonEnds
    <2> SUFFICES ASSUME CInv, Cancelled
                 PROVE  elapsed - cancelledAt <= PausesFrom[0] + MaxSocket
      BY DEF CancelledSoonEnds
    <2>1. /\ attempt \in 0 .. Retries /\ elapsed \in Nat /\ socket \in 0 .. MaxSocket
          /\ wakes \in Nat /\ cancelledAt \in Nat /\ (step = "pause" => attempt < Retries)
      BY DEF CInv, BInv, RequestTypeOK, Timely, Cancelled
    <2>2. PausesFrom[0] \in Nat /\ PausesFrom[attempt] \in Nat
      BY <2>1, RetriesIsNat, PauseTyped
    <2>3. CASE step # "pause"
      <3>1. elapsed + PausesFrom[attempt] <= cancelledAt + PausesFrom[0] + socket
        BY <2>3 DEF CInv, Hurried
      <3>2. MaxSocket \in Nat
        BY BudgetAssumption
      <3>3. QED
        BY <2>1, <2>2, <3>1, <3>2
    <2>4. CASE step = "pause"
      <3>1. attempt \in 0 .. Retries - 1
        BY <2>1, <2>4, RetriesIsNat
      <3>2. PausesFrom[attempt + 1] \in Nat
        BY <3>1, PauseTyped
      <3>3. elapsed <= wakes /\ wakes + PausesFrom[attempt + 1] <= cancelledAt + PausesFrom[0] + socket
        BY <2>4 DEF CInv, Hurried
      <3>4. MaxSocket \in Nat
        BY BudgetAssumption
      <3>5. QED
        BY <2>1, <2>2, <3>2, <3>3, <3>4
    <2>5. QED
      BY <2>3, <2>4
  <1>2. QED
    BY <1>1, RequestBegins, RequestKeeps, HurryBegins, HurryKeeps, PTL DEF RequestSpec, CInv

-----------------------------------------------------------------------------
(* Both clients implement OneRequest.                                        *)

LEMMA PromiseBegins == RequestInit => Caller!PromiseInit
  BY DEF RequestInit, Caller!PromiseInit, ToldOf, IsIdempotent, Method

LEMMA PromiseSteps ==
    BInv /\ [RequestNext]_requestVars => [Caller!PromiseNext]_(Caller!promise)
  <1> SUFFICES ASSUME BInv, [RequestNext]_requestVars
               PROVE [Caller!PromiseNext]_(Caller!promise)
    OBVIOUS
  <1> DEFINE repeatable == IsIdempotent(request.method)
             told == ToldOf(answer)
  <1>1. BInv'
    BY RequestKeeps
  \* The server acts: of the promise, Act.
  <1>2. CASE ServerServes
    <2>1. PICK a \in wire :
             \/ a = attempt /\ ServerReplies(a)
             \/ (a # attempt \/ step # "fly") /\ ActLate(a)
      BY <1>2 DEF ServerServes
    <2>2. request' = request /\ answer' = answer
      BY <2>1 DEF ServerReplies, EndAttempt, ActLate, answering
    <2>3. effects' = effects \/ effects' = effects + 1
      BY <2>1 DEF ServerReplies, ActLate, Acts, Refuses
    <2>4. repeatable \/ effects = 0
      BY <2>1 DEF BInv, Sole, RequestTypeOK
    <2>5. QED
      BY <2>2, <2>3, <2>4
         DEF Caller!PromiseNext, Caller!promise, Caller!Act, ToldOf, IsIdempotent
  \* hactl answers: Tell.
  <1>3. CASE step # "answered" /\ step' = "answered"
    <2>1. answer = "none" /\ answer' # "none" /\ (answer' = "2xx" => effects' > 0)
      BY <1>1, <1>3 DEF BInv, Honest
    <2>2. request' = request /\ effects' = effects
      BY <1>3 DEF RequestNext, RequestStep, Attempt, SessionFails, NotDialled, ConnectionLost,
                  Expire, Interrupt, EndAttempt, Judge, Wake, Tick, ServerServes, ServerReplies,
                  ActLate, CancelRequest, requestVars, server
    <2>3. ToldOf(answer') \in {"success", "failure"} /\ ToldOf(answer) = "none"
      BY <2>1 DEF ToldOf
    <2>4. ToldOf(answer') = "success" => effects > 0
      BY <2>1, <2>2 DEF ToldOf
    <2>5. Caller!Tell(ToldOf(answer'))
      BY <2>2, <2>3, <2>4 DEF Caller!Tell, IsIdempotent
    <2>6. QED
      BY <2>3, <2>5 DEF Caller!PromiseNext, Caller!Told
  \* Everything else is a stutter.
  <1>4. CASE ~ServerServes /\ ~(step # "answered" /\ step' = "answered")
    <2>1. request' = request /\ effects' = effects /\ answer' = answer
      BY <1>4 DEF BInv, Honest, RequestNext, RequestStep, Attempt, SessionFails, NotDialled,
                  ConnectionLost, Expire, Interrupt, EndAttempt, Judge, AnswerWith, Wake, Tick,
                  CancelRequest, requestVars, server, answering
    <2>2. QED
      BY <2>1 DEF Caller!promise
  <1>5. QED
    BY <1>2, <1>3, <1>4

\* haapi.Client and companion.Client keep the promise of OneRequest: a request that
\* must not be repeated is acted on at most once, there is one answer, and a success
\* was one.
THEOREM PromiseIsKept == RequestSpec => KeepsPromise
  BY PromiseBegins, PromiseSteps, RequestInvariance, PTL
     DEF RequestSpec, KeepsPromise, Caller!Promise

=============================================================================
