---------------------------- MODULE MCLocalFiles ----------------------------
(***************************************************************************)
(* What hactl keeps in <instance>/cache between two invocations: the record   *)
(* of previews, the record of what a session was told, the short ids, and the *)
(* cache of traces, logs and samples.  No two share a file and nothing but a  *)
(* command joins them, so a behaviour follows one and leaves the others as     *)
(* they began.                                                                *)
(***************************************************************************)
EXTENDS ConfirmGuard, ManualDelivery, StableIds, CacheStore, TLC

CONSTANTS p1, p2, p3, s1, s2, w1, trace, ent, fauto, fent, h1, h2, k1, k2, a7, a71, a72

VARIABLE part

(* The record of previews: two agents that can overtake each other in one     *)
(* session, and a third of its own.                                           *)
MCSessionOf == [p \in Process |-> IF p = p3 THEN s2 ELSE s1]

(* The manual: one session; `trace` belongs to the family of `auto`.          *)
MCChatOf == [p \in Agent |-> s1]
MCModeOf == [p \in Agent |-> "progressive"]
MCFamilyFor == [t \in Top |-> IF t = trace THEN fauto ELSE fent]
MCFamilySections == [f \in Family |-> IF f = fauto THEN {h1, h2} ELSE {h2}]
MCScopes == {{}, {"core", fauto}}

(* The ids: two hashes with a common beginning.                               *)
MCCandidates == [k \in Row |-> IF k = k1 THEN <<a7, a71>> ELSE <<a7, a72>>]

\* The two of one session, in every part.
MCSymmetry == Permutations({p1, p2})

Parts == {"guard", "manual", "ids", "cache"}

LocalInit ==
    /\ part \in Parts
    /\ Init /\ DeliveryInit /\ IdsInit /\ CacheInit

LocalNext ==
    /\ UNCHANGED part
    /\ \/ part = "guard" /\ Next /\ UNCHANGED <<deliveryVars, idVars, cacheVars>>
       \/ part = "manual" /\ DeliveryNext /\ UNCHANGED <<vars, idVars, cacheVars>>
       \/ part = "ids" /\ IdsNext /\ UNCHANGED <<vars, deliveryVars, cacheVars>>
       \/ part = "cache" /\ CacheNext /\ UNCHANGED <<vars, deliveryVars, idVars>>

LocalSpec == LocalInit /\ [][LocalNext]_<<part, vars, deliveryVars, idVars, cacheVars>>

\* Every record has its type.
LocalTypeOK == DeliveryTypeOK /\ IdsTypeOK /\ CacheTypeOK

=============================================================================
