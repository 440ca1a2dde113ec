-------------------------- MODULE MCConfirmGuard --------------------------
(* Three processes in two sessions: two agents that can overtake each other  *)
(* in one session, and a third of its own.                                   *)
EXTENDS ConfirmGuard, TLC

CONSTANTS p1, p2, p3, s1, s2, w1, w2

MCSessionOf == [p \in Process |-> IF p = p3 THEN s2 ELSE s1]

\* The two of one session are interchangeable.
MCSymmetry == Permutations({p1, p2})

=============================================================================
