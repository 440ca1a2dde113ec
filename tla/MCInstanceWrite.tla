-------------------------- MODULE MCInstanceWrite --------------------------
(***************************************************************************)
(* A small instance: two automations' and scripts' worth of ids, chosen so *)
(* that a script's backups and an automation's share the directory.        *)
(***************************************************************************)
EXTENDS InstanceWrite, TLC

CONSTANTS p1, p2, a1, s1, k1, v1, v2

\* A script's file is named after "script_" and its id: never an id of its own.
MCBackupId == [t \in Target |-> IF t = s1 THEN k1 ELSE t]

MCKey == Automation \cup {k1}

MCInitial == [t \in Target |-> v1]

\* The processes are interchangeable.
MCSymmetry == Permutations(Process)

=============================================================================
