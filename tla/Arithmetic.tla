----------------------------- MODULE Arithmetic -----------------------------
(***************************************************************************)
(* Integers of a bounded width, as the virtual machine has them and the    *)
(* emitted code computes with them: results wrap around.                   *)
(***************************************************************************)
EXTENDS Integers

CONSTANTS IntMax,    \* the greatest value of an int, 2^31 - 1 in Java
          LongMax    \* of a long, 2^63 - 1

ASSUME WidthAssumption == IntMax \in Nat /\ LongMax \in Nat /\ IntMax < LongMax

Wrap(v, max) == ((v + max + 1) % (2 * (max + 1))) - (max + 1)
Unsigned(v, max) == v % (2 * (max + 1))

\* Division rounds towards zero, the remainder has the sign of the dividend.
Quotient(a, b) ==
  LET q == (IF a < 0 THEN -a ELSE a) \div (IF b < 0 THEN -b ELSE b)
  IN IF (a < 0) = (b < 0) THEN q ELSE -q
Remainder(a, b) == a - b * Quotient(a, b)

Compares(fn, a, b) ==
  CASE fn = "eq" -> a = b [] fn = "ne" -> a # b
    [] fn = "lt" -> a < b [] fn = "ge" -> a >= b
    [] fn = "gt" -> a > b [] fn = "le" -> a <= b
Sign(a, b) == IF a > b THEN 1 ELSE IF a < b THEN -1 ELSE 0
Bit(truth) == IF truth THEN 1 ELSE 0
=============================================================================
