------------------------------- MODULE Symbols -------------------------------
(***************************************************************************)
(* What the elision of bounds checks (crates/solver/src/bounds.rs) says of *)
(* symbols, one judgement at a time: whether one is never negative, what   *)
(* bounds it, which facts follow from others, and whether all that shows   *)
(* an index to be within its array.  Bounds finds the symbols of a         *)
(* function and repeats these judgements until nothing changes.            *)
(*                                                                         *)
(* A symbol is a tuple: its kind, then its operands.                       *)
(***************************************************************************)
EXTENDS Arithmetic, Sequences

Is(s, tag) == s[1] = tag
Operands2(s) == CASE s[1] \in {"add", "and", "div", "len"} -> {s[2]}
                  [] s[1] \in {"add2", "mul"} -> s[2]
                  [] OTHER -> {}

\* know: what is known of a function.  inputs: those of the phis all predecessors have a value
\* for; repr: the representatives of collapsed phis; len: the lengths of arrays; syms: the
\* symbols; nn: which are never negative; ub, lb: between what they lie.
Rep(know, s) == IF s \in DOMAIN know.repr THEN know.repr[s] ELSE s

Nonneg(know, s, nn) ==
  CASE Is(s, "const") -> s[2] >= 0
    [] Is(s, "and") -> s[3] >= 0
    [] Is(s, "len") -> TRUE
    [] Is(s, "add") -> s[3] >= 0 /\ Rep(know, s[2]) \in nn
    [] s[1] \in {"add2", "mul", "div"} -> \A o \in Operands2(s) : Rep(know, o) \in nn
    [] Is(s, "phi") -> s \in DOMAIN know.inputs /\ \A v \in know.inputs[s] : Rep(know, v) \in nn
    [] OTHER -> FALSE

----------------------------------------------------------------------------
(* Intervals. *)

\* An interval's end: unknown as yet, a number, none.
Bot == <<"bot">>
Fin(c) == IF c \in -LongMax - 1 .. LongMax THEN <<"fin", c>> ELSE <<"top">>
Unbounded == <<"top">>
\* Both ends are computed alike; the lower one is the least of the inputs, and falls.
Outermost(ends, upper) == CHOOSE c \in ends : \A d \in ends : IF upper THEN d <= c ELSE c <= d
JoinAll(bounds, upper) ==
  LET ends == {x[2] : x \in bounds \ {Bot}}
  IN IF Unbounded \in bounds THEN Unbounded
     ELSE IF bounds \subseteq {Bot} THEN Bot ELSE Fin(Outermost(ends, upper))
JoinBounds(x, y, upper) == JoinAll({x, y}, upper)
\* The bound v, computed from two others.
OfBoth(x, y, v) ==
  CASE Is(x, "fin") /\ Is(y, "fin") -> Fin(v)
    [] Bot \in {x, y} -> Bot
    [] OTHER -> Unbounded

\* The operands of a sum or a product, which may be the same.
Former(pair) == CHOOSE x \in pair : TRUE
Latter(pair) == CHOOSE y \in pair : pair = {Former(pair), y}

TransferBound(know, s, bounds, upper) ==
  LET Of(o) == bounds[Rep(know, o)]
      x == Of(Former(s[2]))
      y == Of(Latter(s[2]))
      factors == \A o \in Operands2(s) : Rep(know, o) \in know.nn
      Positive(b) == Is(b, "fin") /\ b[2] >= 0
  IN CASE Is(s, "const") -> Fin(s[2])
       [] Is(s, "and") -> Fin(IF upper THEN s[3] ELSE 0)
       [] Is(s, "len") /\ ~upper -> Fin(0)
       [] Is(s, "add") -> OfBoth(Of(s[2]), Fin(s[3]), Of(s[2])[2] + s[3])
       [] Is(s, "add2") -> OfBoth(x, y, x[2] + y[2])
       [] Is(s, "div") -> OfBoth(Of(s[2]), Fin(s[3]), Quotient(Of(s[2])[2], s[3]))
       [] Is(s, "mul") /\ factors ->
            IF Positive(x) /\ Positive(y) THEN Fin(x[2] * y[2])
            ELSE IF Bot \in {x, y} THEN Bot
            ELSE IF upper THEN Unbounded ELSE Fin(0)
       [] Is(s, "phi") /\ s \in DOMAIN know.inputs -> JoinAll({Of(v) : v \in know.inputs[s]}, upper)
       [] OTHER -> Unbounded
Updated(know, s, bounds, upper) ==
  JoinBounds(bounds[s], TransferBound(know, s, bounds, upper), upper)

\* A phi whose bound has moved more often than the limit has none.  The source updates one
\* symbol after another, the model all of them at a time.
WIDEN == [upper |-> 3, lower |-> 40]
Widened(know, upper, bounds, moves, news) ==
  LET Moves(s) == moves[s] + Bit(Is(s, "phi") /\ Is(bounds[s], "fin") /\ news[s] # bounds[s])
      limit == IF upper THEN WIDEN.upper ELSE WIDEN.lower
  IN [bounds |-> [s \in know.syms |-> IF Moves(s) > limit THEN Unbounded ELSE news[s]],
      moves |-> [s \in know.syms |-> Moves(s)]]
BoundsRound(know, upper, now) ==
  Widened(know, upper, now.bounds, now.moves, [s \in know.syms |-> Updated(know, s, now.bounds, upper)])

\* The bound of an index that needs no loop: a constant, or a value masked with one.
UbConst(s) == CASE Is(s, "const") /\ s[2] >= 0 -> {s[2]}
                [] Is(s, "and") /\ s[3] >= 0 -> {s[3]}
                [] OTHER -> {}

----------------------------------------------------------------------------
(* What is less than what. *)

\* The pairs in order on the edges of a branch: where it is taken, where it is not.
StrictFacts(fn, x, y) ==
  CASE fn = "lt" -> <<{<<x, y>>}, {}>>
    [] fn = "gt" -> <<{<<y, x>>}, {}>>
    [] fn = "ge" -> <<{}, {<<x, y>>}>>
    [] fn = "le" -> <<{}, {<<y, x>>}>>

\* x - c < x; x - c < y if x < y.
ByShrinking(know, lt) ==
  LET shrunk == {s \in know.syms : Is(s, "add") /\ s[3] <= 0}
      Base(s) == Rep(know, s[2])
  IN {<<s, Base(s)>> : s \in {t \in shrunk : t[3] < 0}}
     \cup UNION {{<<s, p[2]>> : p \in {q \in lt : q[1] = Base(s)}} : s \in shrunk}
\* (a + b) / 2 < l if both are less than a length whose double does not overflow.
ByHalving(know, lt) ==
  LET mids == {s \in know.syms : Is(s, "div") /\ s[3] = 2 /\ Is(s[2], "add2")}
      short == {p[2] : p \in {q \in lt : Is(q[2], "const") /\ q[2][2] >= 0 /\ 2 * q[2][2] <= IntMax}}
      Below(m, l) == \A o \in m[2][2] : Rep(know, o) \in know.nn /\ <<Rep(know, o), l>> \in lt
  IN UNION {{<<m, l>> : l \in {k \in short : Below(m, k)}} : m \in mids}
Transitively(lt) == UNION {{<<p[1], q[2]>> : q \in {r \in lt : r[1] = p[2]}} : p \in lt}
Saturated(know, lt) ==
  lt \cup {p \in ByShrinking(know, lt) \cup ByHalving(know, lt) \cup Transitively(lt) : p[1] # p[2]}

----------------------------------------------------------------------------
(* The four ways in which an index is seen to be within an array of length len. *)

\* (p * n) + other, n a constant, p and other less than it, the length n * n at least
Affine(know, lt, m, other, len) ==
  /\ Is(m, "mul")
  /\ \E n, p \in m[2] :
       LET N == Rep(know, n)
           P == Rep(know, p)
       IN /\ m[2] = {n, p}
          /\ Is(N, "const") /\ N[2] >= 1
          /\ {<<P, N>>, <<other, N>>} \subseteq lt /\ {P, other} \subseteq know.nn
          /\ Is(know.lb[len], "fin")
          /\ know.lb[len][2] >= IF N[2] * N[2] <= LongMax THEN N[2] * N[2] ELSE LongMax

InBounds(know, lt, i, len) ==
  LET ub == know.ub[i]
      lb == know.lb[i]
      least == know.lb[len]
  IN IF <<i, len>> \in lt /\ i \in know.nn THEN TRUE
     ELSE IF Is(len, "const") /\ UbConst(i) # {} THEN \A u \in UbConst(i) : u < len[2]
     ELSE \/ /\ Is(ub, "fin") /\ Is(lb, "fin") /\ Is(least, "fin")
             /\ lb[2] >= 0 /\ 0 <= ub[2] /\ ub[2] < least[2]
          \/ /\ Is(i, "add2")
             /\ \E m, o \in i[2] : i[2] = {m, o} /\ Affine(know, lt, Rep(know, m), Rep(know, o), len)

----------------------------------------------------------------------------
(* What must have been found for the judgements to be right. *)

Long == -LongMax - 1 .. LongMax
End == {Bot, Unbounded} \cup {<<"fin", c>> : c \in Long}

WellFormed(know, s) ==
  /\ Operands2(s) \subseteq know.syms
  /\ Is(s, "const") => s[2] \in Long
  /\ Is(s, "and") => s[3] \in Nat
  /\ Is(s, "add") => s[3] \in Long
  /\ Is(s, "div") => s[3] \in Long /\ s[3] > 0
  /\ s[1] \in {"add2", "mul"} => \E x, y \in s[2] : s[2] = {x, y}
  /\ s \in DOMAIN know.inputs => Is(s, "phi") /\ know.inputs[s] # {} /\ know.inputs[s] \subseteq know.syms
\* Only phis have representatives, and then those of all their inputs.
Represented(know, s) ==
  /\ Rep(know, s) \in know.syms /\ Rep(know, Rep(know, s)) = Rep(know, s)
  /\ Rep(know, s) # s => s \in DOMAIN know.inputs /\ \A v \in know.inputs[s] : Rep(know, v) = Rep(know, s)
\* Another round would find no other signs and no other bounds.
Stable(know, s) ==
  /\ s \in know.nn => Nonneg(know, s, know.nn)
  /\ know.ub[s] \in {Unbounded, Updated(know, s, know.ub, TRUE)}
  /\ know.lb[s] \in {Unbounded, Updated(know, s, know.lb, FALSE)}
Settled(know) ==
  \A s \in know.syms :
    /\ WellFormed(know, s) /\ Represented(know, s)
    /\ {know.ub[s], know.lb[s]} \subseteq End
    /\ Stable(know, s)
=============================================================================
