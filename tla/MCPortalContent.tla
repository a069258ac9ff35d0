--------------------------- MODULE MCPortalContent ---------------------------
(* Instances of PortalContent for TLC. *)
EXTENDS PortalContent, TLC

Symmetry == Permutations(Editors) \cup Permutations(Uploaders)
=============================================================================
