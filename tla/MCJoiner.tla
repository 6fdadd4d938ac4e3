----------------------------- MODULE MCJoiner -----------------------------
(* Model-checking instance of Joiner: two input names, two opaque values   *)
(* plus the None sentinel, at most three values per input.                 *)
EXTENDS Joiner

CONSTANTS a, b, v1, v2

MCNames == {a, b}
MCValues == {v1, v2}
=============================================================================
