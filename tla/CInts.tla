------------------------------- MODULE CInts -------------------------------
(* Integers of C: what becomes of a number that an int cannot hold, when it *)
(* is assigned to one (gcc keeps the low bits), and when a sum or a product *)
(* overflows in code that is built without optimisation.                    *)
EXTENDS Integers

CONSTANT INT_MAX     \* the largest int

ASSUME CIntAssumption == INT_MAX \in Nat

CInt(n) == LET half == INT_MAX + 1
           IN  ((n + half) % (2 * half)) - half
=============================================================================
