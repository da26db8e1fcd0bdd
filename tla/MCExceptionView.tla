-------------------------- MODULE MCExceptionView --------------------------
(* The instance of ExceptionView that TLC explores. *)
EXTENDS ExceptionView, TLC

CONSTANTS r1, k1, k2

OneDefaultKey == (r1 :> k1)

Symmetry == Permutations(Handlers)
=============================================================================
