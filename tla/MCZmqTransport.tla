--------------------------- MODULE MCZmqTransport ---------------------------
(* Two threads send two files, of every pair of kinds that matters; the      *)
(* subscriber is restarted once, the monitor ends after two files.           *)
EXTENDS ZmqTransport

CONSTANTS p1, c1, c2, i1, i2

Kinded(a, b) == [i \in Items |-> IF i = i1 THEN a ELSE b]

MCFileKinds ==
  {Kinded("plain", "plain"), Kinded("plain", "foreign name"),
   Kinded("latin name", "long name"), Kinded("plain", "large")}
=============================================================================
