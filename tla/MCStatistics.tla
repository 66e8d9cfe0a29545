---------------------------- MODULE MCStatistics ----------------------------
(***************************************************************************)
(* Files whose nominal time lies ahead, is now, or lies so far back that   *)
(* their delay leaves out a whole day.                                     *)
(***************************************************************************)
EXTENDS Statistics

MCOffsets == {-1, 0, 3}
=============================================================================
