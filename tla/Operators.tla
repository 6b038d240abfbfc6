------------------------------ MODULE Operators ------------------------------
(***************************************************************************)
(* The binary operators of int and long.                                   *)
(***************************************************************************)
EXTENDS Arithmetic, Bitwise

\* The result before it wraps.
Exact(fn, a, b, max) ==
  CASE fn = "add" -> a + b
    [] fn = "sub" -> a - b
    [] fn = "mul" -> a * b
    [] fn = "div" -> Quotient(a, b)
    [] fn = "rem" -> Remainder(a, b)
    [] fn = "and" -> Wrap(Unsigned(a, max) & Unsigned(b, max), max)
    [] fn = "shr" -> a \div 2^b
    [] fn = "ushr" -> Unsigned(a, max) \div 2^b
=============================================================================
