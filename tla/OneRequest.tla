----------------------------- MODULE OneRequest -----------------------------
(***************************************************************************)
(* What a caller of either HTTP client is promised of one logical request,   *)
(* however often it is sent: the server acts on a request that must not be   *)
(* repeated at most once, there is one answer, and a success is not invented.  *)
(***************************************************************************)
EXTENDS Naturals

VARIABLES
    repeatable,   \* the request may be acted on more than once
    acted,        \* how often the server has acted on it
    told          \* what the caller was told

promise == <<repeatable, acted, told>>

Told == {"none", "success", "failure"}

PromiseInit ==
    /\ repeatable \in BOOLEAN
    /\ acted = 0
    /\ told = "none"

\* The server acts, before or after the caller has been answered.
Act ==
    /\ repeatable \/ acted = 0
    /\ acted' = acted + 1
    /\ UNCHANGED <<repeatable, told>>

Tell(what) ==
    /\ told = "none"
    /\ what = "success" => acted > 0
    /\ told' = what
    /\ UNCHANGED <<repeatable, acted>>

PromiseNext == Act \/ \E what \in Told \ {"none"} : Tell(what)

Promise == PromiseInit /\ [][PromiseNext]_promise

=============================================================================
