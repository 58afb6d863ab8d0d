---------------------------- MODULE MCTimestamps ----------------------------
(***************************************************************************)
(* Timestamps at the edges of hours and days, in zones of whole, half and  *)
(* negative hours.                                                         *)
(***************************************************************************)
EXTENDS Timestamps

MCMinutes == {0, 59, 60, 750, 1439}
MCOffsets == {-720, -210, -60, 0, 30, 330, 840}
=============================================================================
