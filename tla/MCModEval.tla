----------------------------- MODULE MCModEval -----------------------------
(* Small instances of ModEval. *)
EXTENDS ModEval, TLC

CONSTANTS p1, r1, r2, a, b, v, w

OneChild == {p1}
Requests == {r1, r2}
MainComponents == <<a, b>>
VirtualComponents == <<v, w>>
AllKinds == {"plain", "service", "managed", "broken"}

Symmetry == Permutations({r1, r2})
=============================================================================
