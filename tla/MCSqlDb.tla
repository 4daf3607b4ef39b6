------------------------------ MODULE MCSqlDb ------------------------------
(* Small instances of SqlDb. *)
EXTENDS SqlDb

CONSTANTS c1, c2, k1, k2

Two == {c1, c2}
OneKey == {k1}
Keys == {k1, k2}

AllOps == {"get", "post", "put", "patch", "delete"}
PutPatch == {"get", "put", "patch"}
=============================================================================
