------------------------- MODULE MCReferenceRename -------------------------
(***************************************************************************)
(* One config file, one dashboard hactl can save and one it cannot.        *)
(***************************************************************************)
EXTENDS ReferenceRename

CONSTANTS f1, d1, y1

=============================================================================
