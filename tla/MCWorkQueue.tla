---------------------------- MODULE MCWorkQueue ----------------------------
(* Small instances of WorkQueue. *)
EXTENDS WorkQueue

CONSTANTS p1, p2, c1, c2, a, b

TwoByTwo == {p1, p2, c1, c2}
Producers == {p1, p2}
Consumers == {c1, c2}
Values == {a, b}
OneValue == {a}
Nobody == {}
=============================================================================
