-------------------------- MODULE MCRotatingStorage --------------------------
(* Four files for RotatingStorage, two of which have the same name. *)
EXTENDS RotatingStorage

CONSTANTS i1, i2, i3, i4, n1, n2

MCItems == {i1, i2, i3, i4}
MCNames == {n1, n2}
MCNameOf(i) == IF i = i3 THEN n2 ELSE n1
=============================================================================
