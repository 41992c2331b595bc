--------------------------- MODULE MCTwoSessions ----------------------------
(***************************************************************************)
(* An instance of TwoSessions for TLC: two daemons and two jobs whose main *)
(* steps update the same two rows in opposite orders, so that the sessions *)
(* can wait for each other.                                                *)
(***************************************************************************)
EXTENDS TwoSessions, TLC

CONSTANTS a, b, r1, r2

MCStartTime == a :> 1 @@ b :> 2
MCRowsOf == a :> <<r1, r2>> @@ b :> <<r2, r1>>
=============================================================================
