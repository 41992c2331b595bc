----------------------------- MODULE MCDataAcl -----------------------------
(***************************************************************************)
(* Two roles, three rules for "*" and two operations, up to four access    *)
(* rows against an array of three: every sorted list of them.              *)
(***************************************************************************)
EXTENDS DataAcl

MCRoles == 1..2
MCRules == 1..3
MCOps == {42, 49, 50}

MCLists == UNION {[1..n -> Row] : n \in 0..4}
=============================================================================
