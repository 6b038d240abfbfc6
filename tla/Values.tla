------------------------------- MODULE Values -------------------------------
(***************************************************************************)
(* The values the symbols of a function take when it runs, in any order    *)
(* and any number of times.  Values are integers of any size: what is said *)
(* of them is true of a run until an integer is too large for its type, or *)
(* a negative number is shifted, which rounds down and not towards zero.   *)
(***************************************************************************)
EXTENDS Symbols

VARIABLE seen    \* the values each symbol has had

\* What symbol s may become: the value its operands give, once they have had values.
Results(know, s) ==
  {v \in Int :
     CASE Is(s, "const") -> v = s[2]
       [] Is(s, "and") -> v \in 0 .. s[3]
       [] Is(s, "len") -> v \in 0 .. IntMax
       [] Is(s, "add") -> \E x \in seen[s[2]] : v = x + s[3]
       [] Is(s, "add2") -> \E a, b \in s[2] : s[2] = {a, b} /\ \E x \in seen[a], y \in seen[b] : v = x + y
       [] Is(s, "mul") -> \E a, b \in s[2] : s[2] = {a, b} /\ \E x \in seen[a], y \in seen[b] : v = x * y
       [] Is(s, "div") -> \E x \in seen[s[2]] : v = Quotient(x, s[3])
       [] s \in DOMAIN know.inputs -> \E o \in know.inputs[s] : v \in seen[o]
       [] OTHER -> TRUE}

Fresh(know) == seen = [s \in know.syms |-> {}]
Evaluate(know, s) == \E v \in Results(know, s) : seen' = [seen EXCEPT ![s] = @ \cup {v}]
Execution(know) == Fresh(know) /\ [][\E s \in know.syms : Evaluate(know, s)]_seen

\* A value is not beyond an end of an interval.
Respects(v, end, upper) ==
  \/ end = Unbounded
  \/ \E c \in Long : end = <<"fin", c>> /\ IF upper THEN v <= c ELSE c <= v
Judged(know, s, v) ==
  /\ Rep(know, s) \in know.nn => v >= 0
  /\ Respects(v, know.ub[Rep(know, s)], TRUE)
  /\ Respects(v, know.lb[Rep(know, s)], FALSE)
\* What is said of a symbol is true of every value it has had.
JudgementsHold(know) == \A s \in know.syms : \A v \in seen[s] : Judged(know, s, v)

----------------------------------------------------------------------------
(* A moment at which some code uses the symbols' values. *)

\* A symbol has the value its operands give now, and that of its representative.  One that the
\* run has not come to has the value it would have: an execution may evaluate it.
Moment(know, val) ==
  /\ val \in [know.syms -> Int]
  /\ \A s \in know.syms :
       /\ val[Rep(know, s)] = val[s]
       /\ Is(s, "const") => val[s] = s[2]
       /\ Is(s, "and") => val[s] \in 0 .. s[3]
       /\ Is(s, "add") => val[s] = val[s[2]] + s[3]
       /\ Is(s, "add2") => \A a, b \in s[2] : s[2] = {a, b} => val[s] = val[a] + val[b]
       /\ Is(s, "mul") => \A a, b \in s[2] : s[2] = {a, b} => val[s] = val[a] * val[b]
       /\ Is(s, "div") => val[s] = Quotient(val[s[2]], s[3])
Happens(know, val) == Moment(know, val) /\ \A s \in know.syms : val[s] \in seen[s]
\* Facts about what is less than what.
True(lt, val) == \A fact \in lt : val[fact[1]] < val[fact[2]]
Facts(know) == SUBSET (know.syms \X know.syms)
\* lt is found after some number of rounds of saturation.
Follows(know, found, lt) ==
  \A F \in SUBSET Facts(know) :
    found \in F /\ (\A x \in F : Saturated(know, x) \in F) => lt \in F
\* Of index i and length len, what the index is: within the array.
Within(know, val, i, len) ==
  /\ {i, len} \subseteq know.syms /\ Rep(know, i) = i /\ Rep(know, len) = len
  /\ val[len] <= IntMax
  => val[i] \in 0 .. val[len] - 1
=============================================================================
