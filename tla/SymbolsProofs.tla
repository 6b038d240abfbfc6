---------------------------- MODULE SymbolsProofs ----------------------------
(***************************************************************************)
(* Why an index that InBounds accepts is within its array.                 *)
(***************************************************************************)
EXTENDS Values, WellFoundedInduction, TLAPS

----------------------------------------------------------------------------
(* Numbers. *)

LEMMA DivideNat ==
  ASSUME NEW a \in Nat, NEW d \in Nat, d > 0
  PROVE  a \div d \in Nat /\ d * (a \div d) <= a /\ a < d * (a \div d) + d
OBVIOUS

LEMMA QuotientOfNat ==
  ASSUME NEW a \in Nat, NEW d \in Nat, d > 0
  PROVE  Quotient(a, d) = a \div d
BY DivideNat DEF Quotient

LEMMA QuotientOfNegative ==
  ASSUME NEW a \in Int, a < 0, NEW d \in Nat, d > 0
  PROVE  /\ Quotient(a, d) = -((-a) \div d)
         /\ Quotient(a, d) \in Int /\ Quotient(a, d) <= 0
BY DivideNat DEF Quotient

LEMMA DivideMonotone ==
  ASSUME NEW a \in Nat, NEW b \in Nat, a <= b, NEW d \in Nat, d > 0
  PROVE  a \div d <= b \div d
OBVIOUS

LEMMA QuotientMonotone ==
  ASSUME NEW a \in Int, NEW b \in Int, a <= b, NEW d \in Nat, d > 0
  PROVE  Quotient(a, d) \in Int /\ Quotient(b, d) \in Int /\ Quotient(a, d) <= Quotient(b, d)
<1>1. CASE a >= 0
  <2>1. a \in Nat /\ b \in Nat
    BY <1>1
  <2>2. Quotient(a, d) = a \div d /\ Quotient(b, d) = b \div d
    BY <2>1, QuotientOfNat
  <2> QED BY <2>1, <2>2, DivideNat, DivideMonotone
<1>2. CASE a < 0 /\ b >= 0
  <2>1. Quotient(a, d) \in Int /\ Quotient(a, d) <= 0
    BY <1>2, QuotientOfNegative
  <2>2. Quotient(b, d) \in Nat
    <3>1. b \in Nat
      BY <1>2
    <3> QED BY <3>1, QuotientOfNat, DivideNat
  <2> QED BY <2>1, <2>2
<1>3. CASE b < 0
  <2>1. -a \in Nat /\ -b \in Nat /\ -b <= -a /\ a < 0
    BY <1>3
  <2>2. (-b) \div d <= (-a) \div d
    BY <2>1, DivideMonotone
  <2>3. Quotient(a, d) = -((-a) \div d) /\ Quotient(b, d) = -((-b) \div d)
    BY <1>3, <2>1, QuotientOfNegative
  <2> QED BY <2>1, <2>2, <2>3, DivideNat
<1> QED BY <1>1, <1>2, <1>3

LEMMA ProductMonotone ==
  ASSUME NEW a \in Nat, NEW b \in Nat, NEW c \in Nat, NEW d \in Nat, a <= c, b <= d
  PROVE  a * b \in Nat /\ c * d \in Nat /\ a * b <= c * d
<1>1. a * b <= c * b
  OBVIOUS
<1>2. c * b <= c * d
  OBVIOUS
<1> QED BY <1>1, <1>2

----------------------------------------------------------------------------
(* Intervals. *)

LEMMA Ends ==
  ASSUME NEW x \in End
  PROVE  /\ Is(x, "fin") <=> x # Bot /\ x # Unbounded
         /\ Is(x, "fin") => x = <<"fin", x[2]>> /\ x[2] \in Long /\ x[2] \in Int
         /\ Bot # Unbounded
BY WidthAssumption DEF End, Is, Bot, Unbounded, Long

LEMMA FinIsEnd ==
  ASSUME NEW c \in Int
  PROVE  /\ Fin(c) \in End
         /\ c \in Long => Fin(c) = <<"fin", c>>
         /\ c \notin Long => Fin(c) = Unbounded
BY DEF Fin, End, Long, Unbounded

LEMMA FinRespected ==
  ASSUME NEW v \in Int, NEW c \in Int, NEW upper \in BOOLEAN,
         IF upper THEN v <= c ELSE c <= v
  PROVE  Respects(v, Fin(c), upper)
BY FinIsEnd DEF Respects, Is

LEMMA RespectedIsEnd ==
  ASSUME NEW v, NEW end, NEW upper, Respects(v, end, upper)
  PROVE  /\ end \in End
         /\ end # Unbounded => IF upper THEN v <= end[2] ELSE end[2] <= v
BY DEF Respects, End, Is

LEMMA BotIsNotRespected ==
  ASSUME NEW v, NEW upper
  PROVE  ~Respects(v, Bot, upper)
BY DEF Respects, Bot, Unbounded, Is

LEMMA LeastNatural ==
  ASSUME NEW T \in SUBSET Nat, T # {}
  PROVE  \E n \in T : \A m \in T : n <= m
<1>1. PICK n \in T : \A m \in T : <<m, n>> \notin OpToRel(<, Nat)
  BY NatLessThanWellFounded, WFMin
<1>2. \A m \in T : ~(m < n)
  BY <1>1 DEF OpToRel
<1> QED BY <1>2

LEMMA LeastExists ==
  ASSUME NEW S \in SUBSET Long, S # {}
  PROVE  \E c \in S : \A d \in S : c <= d
<1>1. LongMax \in Nat /\ \A d \in S : d \in Int /\ d + LongMax + 1 \in Nat
  BY WidthAssumption DEF Long
<1> DEFINE T == {d + LongMax + 1 : d \in S}
<1>2. T \in SUBSET Nat /\ T # {}
  BY <1>1
<1>3. PICK n \in T : \A m \in T : n <= m
  BY <1>2, LeastNatural
<1>4. PICK c \in S : n = c + LongMax + 1
  BY <1>3
<1>5. ASSUME NEW d \in S PROVE c <= d
  <2>1. n <= d + LongMax + 1
    BY <1>3
  <2> QED BY <1>1, <1>4, <2>1
<1> QED BY <1>5

LEMMA GreatestExists ==
  ASSUME NEW S \in SUBSET Long, S # {}
  PROVE  \E c \in S : \A d \in S : d <= c
<1>1. LongMax \in Nat /\ \A d \in S : d \in Int /\ LongMax - d \in Nat
  BY WidthAssumption DEF Long
<1> DEFINE T == {LongMax - d : d \in S}
<1>2. T \in SUBSET Nat /\ T # {}
  BY <1>1
<1>3. PICK n \in T : \A m \in T : n <= m
  BY <1>2, LeastNatural
<1>4. PICK c \in S : n = LongMax - c
  BY <1>3
<1>5. ASSUME NEW d \in S PROVE d <= c
  <2>1. n <= LongMax - d
    BY <1>3
  <2> QED BY <1>1, <1>4, <2>1
<1> QED BY <1>5

LEMMA OutermostProperties ==
  ASSUME NEW S \in SUBSET Long, S # {}, NEW upper \in BOOLEAN
  PROVE  /\ Outermost(S, upper) \in S
         /\ \A d \in S : IF upper THEN d <= Outermost(S, upper) ELSE Outermost(S, upper) <= d
<1>1. \E c \in S : \A d \in S : IF upper THEN d <= c ELSE c <= d
  BY LeastExists, GreatestExists
<1> QED BY <1>1 DEF Outermost

\* What respects one of the bounds respects the outermost.
LEMMA JoinKeeps ==
  ASSUME NEW B \in SUBSET End, NEW x \in B, NEW v \in Int, NEW upper \in BOOLEAN,
         Respects(v, x, upper)
  PROVE  Respects(v, JoinAll(B, upper), upper)
<1> DEFINE ends == {y[2] : y \in B \ {Bot}}
<1>1. CASE Unbounded \in B
  BY <1>1 DEF JoinAll, Respects
<1>2. CASE Unbounded \notin B
  <2>1. x # Bot /\ x # Unbounded
    BY <1>2, BotIsNotRespected
  <2>2. \A y \in B \ {Bot} : y[2] \in Long
    BY <1>2, Ends
  <2>3. ends \in SUBSET Long /\ x[2] \in ends
    BY <2>1, <2>2
  <2> DEFINE c == Outermost(ends, upper)
  <2>4. c \in ends /\ IF upper THEN x[2] <= c ELSE c <= x[2]
    BY <2>3, OutermostProperties
  <2>5. IF upper THEN v <= x[2] ELSE x[2] <= v
    BY <2>1 DEF Respects
  <2>6. c \in Int /\ x[2] \in Int /\ v \in Int
    BY <2>3, <2>4, WidthAssumption DEF Long
  <2>7. IF upper THEN v <= c ELSE c <= v
    BY <2>4, <2>5, <2>6
  <2>8. JoinAll(B, upper) = Fin(c)
    BY <1>2, <2>1 DEF JoinAll
  <2> HIDE DEF c
  <2> QED BY <2>6, <2>7, <2>8, FinRespected
<1> QED BY <1>1, <1>2

LEMMA OfBothRespected ==
  ASSUME NEW x \in End, NEW y \in End, NEW v \in Int, NEW w, NEW upper \in BOOLEAN,
         NEW a, NEW b, Respects(a, x, upper), Respects(b, y, upper),
         Is(x, "fin") /\ Is(y, "fin") => w \in Int /\ IF upper THEN v <= w ELSE w <= v
  PROVE  Respects(v, OfBoth(x, y, w), upper)
<1>1. x # Bot /\ y # Bot
  BY BotIsNotRespected
<1>2. CASE Is(x, "fin") /\ Is(y, "fin")
  <2>1. OfBoth(x, y, w) = Fin(w)
    BY <1>1, <1>2 DEF OfBoth
  <2> QED BY <1>2, <2>1, FinRespected
<1>3. CASE ~(Is(x, "fin") /\ Is(y, "fin"))
  <2>1. OfBoth(x, y, w) = Unbounded
    BY <1>1, <1>3 DEF OfBoth
  <2> QED BY <2>1 DEF Respects
<1> QED BY <1>2, <1>3

----------------------------------------------------------------------------
(* One judgement. *)

\* What is known of the values so far.
Judging(know) == Settled(know) /\ seen \in [know.syms -> SUBSET Int] /\ JudgementsHold(know)

Side(know, upper) == IF upper THEN know.ub ELSE know.lb

LEMMA Operand ==
  ASSUME NEW know, Judging(know), NEW o \in know.syms, NEW v \in seen[o], NEW upper \in BOOLEAN
  PROVE  /\ Rep(know, o) \in know.syms
         /\ Side(know, upper)[Rep(know, o)] \in End
         /\ Respects(v, Side(know, upper)[Rep(know, o)], upper)
         /\ Rep(know, o) \in know.nn => v >= 0
         /\ v \in Int
<1>1. Rep(know, o) \in know.syms
  BY DEF Judging, Settled, Represented
<1>2. Side(know, upper)[Rep(know, o)] \in End
  BY <1>1 DEF Judging, Settled, Side
<1>3. Judged(know, o, v)
  BY DEF Judging, JudgementsHold
<1>4. v \in Int
  BY DEF Judging
<1> QED BY <1>1, <1>2, <1>3, <1>4 DEF Judged, Side

\* The two operands of a sum or a product.
LEMMA Pair ==
  ASSUME NEW pair, NEW a \in pair, NEW b \in pair, pair = {a, b}
  PROVE  /\ Former(pair) \in pair /\ Latter(pair) \in pair
         /\ \/ Former(pair) = a /\ Latter(pair) = b
            \/ Former(pair) = b /\ Latter(pair) = a
<1>1. Former(pair) \in pair
  BY DEF Former
<1>2. \E y \in pair : pair = {Former(pair), y}
  BY <1>1
<1>3. Latter(pair) \in pair /\ pair = {Former(pair), Latter(pair)}
  BY <1>2 DEF Latter
<1> QED BY <1>1, <1>3

LEMMA Kinds ==
  ASSUME NEW s, NEW kind, Is(s, kind)
  PROVE  s[1] = kind
BY DEF Is

LEMMA SignIsRight ==
  ASSUME NEW know, Judging(know), NEW s \in know.syms, s \in know.nn, Rep(know, s) = s,
         NEW v \in Results(know, s)
  PROVE  v >= 0
<1>1. WellFormed(know, s) /\ Nonneg(know, s, know.nn) /\ Operands2(s) \subseteq know.syms
  BY DEF Judging, Settled, Stable, WellFormed
<1>2. v \in Int /\ (s \in DOMAIN know.inputs => s[1] = "phi")
  BY <1>1 DEF Results, WellFormed, Is
<1>3. \A o \in know.syms : \A x \in seen[o] : x \in Int /\ (Rep(know, o) \in know.nn => x >= 0)
  BY Operand
<1>4. CASE s[1] \in {"const", "and", "len"}
  BY <1>1, <1>2, <1>4 DEF Nonneg, Results, Is, WellFormed
<1>5. CASE Is(s, "add")
  <2>1. PICK x \in seen[s[2]] : v = x + s[3]
    BY <1>2, <1>5 DEF Results, Is
  <2>2. s[3] >= 0 /\ Rep(know, s[2]) \in know.nn /\ s[2] \in know.syms /\ s[3] \in Int
    BY <1>1, <1>5, WidthAssumption DEF Nonneg, Is, WellFormed, Operands2, Long
  <2> QED BY <1>3, <2>1, <2>2
<1>6. CASE Is(s, "add2") \/ Is(s, "mul")
  <2>1. PICK a, b \in s[2] : \E x \in seen[a], y \in seen[b] : v = x + y \/ v = x * y
    BY <1>2, <1>6 DEF Results, Is
  <2>2. PICK x \in seen[a], y \in seen[b] : v = x + y \/ v = x * y
    BY <2>1
  <2>3. \A o \in s[2] : o \in know.syms /\ Rep(know, o) \in know.nn
    BY <1>1, <1>6 DEF Nonneg, Is, Operands2
  <2>4. x \in Nat /\ y \in Nat
    BY <1>3, <2>2, <2>3
  <2>5. x * y \in Nat
    BY <2>4
  <2> QED BY <2>2, <2>4, <2>5
<1>7. CASE Is(s, "div")
  <2>1. PICK x \in seen[s[2]] : v = Quotient(x, s[3])
    BY <1>2, <1>7 DEF Results, Is
  <2>2. s[3] \in Nat /\ s[3] > 0 /\ Rep(know, s[2]) \in know.nn /\ s[2] \in know.syms
    BY <1>1, <1>7, WidthAssumption DEF Nonneg, Is, WellFormed, Operands2, Long
  <2>3. x \in Nat
    BY <1>3, <2>1, <2>2
  <2>4. Quotient(x, s[3]) = x \div s[3] /\ x \div s[3] \in Nat
    BY <2>2, <2>3, QuotientOfNat, DivideNat
  <2> QED BY <2>1, <2>4
<1>8. CASE Is(s, "phi")
  <2>1. s \in DOMAIN know.inputs /\ \A o \in know.inputs[s] : Rep(know, o) \in know.nn
    BY <1>1, <1>8 DEF Nonneg, Is
  <2>2. PICK o \in know.inputs[s] : v \in seen[o]
    BY <1>8, <2>1 DEF Results, Is
  <2>3. o \in know.syms
    BY <1>1, <2>1 DEF WellFormed
  <2> QED BY <1>3, <2>1, <2>2, <2>3
<1>9. CASE s[1] \notin {"const", "and", "len", "add", "add2", "mul", "div", "phi"}
  BY <1>1, <1>9 DEF Nonneg, Is
<1> QED BY <1>4, <1>5, <1>6, <1>7, <1>8, <1>9 DEF Is

LEMMA BoundIsRight ==
  ASSUME NEW know, Judging(know), NEW s \in know.syms, NEW v \in Results(know, s), NEW upper \in BOOLEAN
  PROVE  Respects(v, TransferBound(know, s, Side(know, upper), upper), upper)
<1> DEFINE Of(o) == Side(know, upper)[Rep(know, o)]
           T == TransferBound(know, s, Side(know, upper), upper)
<1>1. WellFormed(know, s) /\ Operands2(s) \subseteq know.syms
  BY DEF Judging, Settled, WellFormed
<1>2. v \in Int /\ (s \in DOMAIN know.inputs => s[1] = "phi")
  BY <1>1 DEF Results, WellFormed, Is
<1>3. \A o \in know.syms : \A x \in seen[o] :
        /\ Of(o) \in End /\ Respects(x, Of(o), upper)
        /\ (Rep(know, o) \in know.nn => x >= 0) /\ x \in Int
  BY Operand
<1>4. CASE Is(s, "const")
  <2>1. T = Fin(s[2]) /\ v = s[2]
    BY <1>2, <1>4 DEF TransferBound, Results, Is
  <2> QED BY <1>2, <2>1, FinRespected
<1>5. CASE Is(s, "and")
  <2>1. T = Fin(IF upper THEN s[3] ELSE 0) /\ v \in 0 .. s[3] /\ s[3] \in Int
    BY <1>1, <1>2, <1>5 DEF TransferBound, Results, Is, WellFormed
  <2>2. CASE upper
    <3>1. T = Fin(s[3]) /\ v <= s[3]
      BY <1>2, <2>1, <2>2
    <3> QED BY <1>2, <2>1, <2>2, <3>1, FinRespected
  <2>3. CASE ~upper
    BY <1>2, <2>1, <2>3, FinRespected
  <2> QED BY <2>2, <2>3
<1>6. CASE Is(s, "len")
  <2>1. CASE upper
    <3>1. T = Unbounded
      BY <1>2, <1>6, <2>1 DEF TransferBound, Is
    <3> QED BY <3>1 DEF Respects
  <2>2. CASE ~upper
    <3>1. T = Fin(0) /\ 0 <= v
      BY <1>2, <1>6, <2>2 DEF TransferBound, Results, Is
    <3> QED BY <1>2, <2>2, <3>1, FinRespected
  <2> QED BY <2>1, <2>2
<1>7. CASE Is(s, "add")
  <2>1. PICK x \in seen[s[2]] : v = x + s[3]
    BY <1>2, <1>7 DEF Results, Is
  <2>2. s[2] \in know.syms /\ s[3] \in Long /\ s[3] \in Int
    BY <1>1, <1>7, WidthAssumption DEF Is, WellFormed, Operands2, Long
  <2>3. Of(s[2]) \in End /\ Respects(x, Of(s[2]), upper) /\ x \in Int
    BY <1>3, <2>1, <2>2
  <2>4. T = OfBoth(Of(s[2]), Fin(s[3]), Of(s[2])[2] + s[3])
    BY <1>2, <1>7 DEF TransferBound, Is
  <2> DEFINE e == Of(s[2])
             w == e[2] + s[3]
  <2>5. Fin(s[3]) \in End /\ Respects(s[3], Fin(s[3]), upper)
    BY <2>2, FinIsEnd, FinRespected
  <2>6. Is(e, "fin") => w \in Int /\ IF upper THEN v <= w ELSE w <= v
    <3> HAVE Is(e, "fin")
    <3>1. e # Unbounded /\ e[2] \in Int
      BY <2>3, Ends
    <3>2. IF upper THEN x <= e[2] ELSE e[2] <= x
      BY <2>3, <3>1 DEF Respects
    <3> HIDE DEF e
    <3> QED BY <2>1, <2>2, <2>3, <3>1, <3>2
  <2> HIDE DEF e, w
  <2>7. Respects(v, OfBoth(e, Fin(s[3]), w), upper)
    BY <1>2, <2>3, <2>5, <2>6, OfBothRespected DEF e
  <2> QED BY <2>4, <2>7 DEF e, w
<1>8. CASE Is(s, "div")
  <2>1. PICK x \in seen[s[2]] : v = Quotient(x, s[3])
    BY <1>2, <1>8 DEF Results, Is
  <2>2. s[2] \in know.syms /\ s[3] \in Long /\ s[3] \in Nat /\ s[3] > 0
    BY <1>1, <1>8, WidthAssumption DEF Is, WellFormed, Operands2, Long
  <2>3. Of(s[2]) \in End /\ Respects(x, Of(s[2]), upper) /\ x \in Int
    BY <1>3, <2>1, <2>2
  <2>4. T = OfBoth(Of(s[2]), Fin(s[3]), Quotient(Of(s[2])[2], s[3]))
    BY <1>2, <1>8 DEF TransferBound, Is
  <2> DEFINE e == Of(s[2])
             w == Quotient(e[2], s[3])
  <2>5. Fin(s[3]) \in End /\ Respects(s[3], Fin(s[3]), upper)
    BY <2>2, FinIsEnd, FinRespected
  <2>6. Is(e, "fin") => w \in Int /\ IF upper THEN v <= w ELSE w <= v
    <3> HAVE Is(e, "fin")
    <3>1. e # Unbounded /\ e[2] \in Int
      BY <2>3, Ends
    <3>2. IF upper THEN x <= e[2] ELSE e[2] <= x
      BY <2>3, <3>1 DEF Respects
    <3> HIDE DEF e
    <3> QED BY <2>1, <2>2, <2>3, <3>1, <3>2, QuotientMonotone
  <2> HIDE DEF e, w
  <2>7. Respects(v, OfBoth(e, Fin(s[3]), w), upper)
    BY <1>2, <2>3, <2>5, <2>6, OfBothRespected DEF e
  <2> QED BY <2>4, <2>7 DEF e, w
<1> DEFINE e == Of(Former(s[2]))
           f == Of(Latter(s[2]))
\* The ends of the two operands, in the order the bound looks at them.
<1>9. ASSUME NEW a \in s[2], NEW b \in s[2], s[2] = {a, b}, s[2] \subseteq know.syms,
             NEW x \in seen[a], NEW y \in seen[b]
      PROVE  \E p, q \in Int :
               /\ p + q = x + y /\ p * q = x * y
               /\ Respects(p, e, upper) /\ Respects(q, f, upper) /\ e \in End /\ f \in End
               /\ (\A o \in s[2] : Rep(know, o) \in know.nn) => p >= 0 /\ q >= 0
  <2>1. x \in Int /\ y \in Int /\ x * y = y * x /\ x + y = y + x
    BY <1>3, <1>9
  <2>2. /\ Of(a) \in End /\ Respects(x, Of(a), upper) /\ (Rep(know, a) \in know.nn => x >= 0)
        /\ Of(b) \in End /\ Respects(y, Of(b), upper) /\ (Rep(know, b) \in know.nn => y >= 0)
    BY <1>3, <1>9
  <2>3. CASE Former(s[2]) = a /\ Latter(s[2]) = b
    BY <1>9, <2>1, <2>2, <2>3
  <2>4. CASE Former(s[2]) = b /\ Latter(s[2]) = a
    BY <1>9, <2>1, <2>2, <2>4
  <2> QED BY <1>9, <2>3, <2>4, Pair
<1>10. CASE Is(s, "add2")
  <2>1. PICK a, b \in s[2] : s[2] = {a, b} /\ \E x \in seen[a], y \in seen[b] : v = x + y
    BY <1>2, <1>10 DEF Results, Is
  <2>2. PICK x \in seen[a], y \in seen[b] : v = x + y
    BY <2>1
  <2>3. s[2] \subseteq know.syms
    BY <1>1, <1>10 DEF Is, Operands2
  <2>4. PICK p, q \in Int :
             /\ p + q = x + y /\ p * q = x * y
             /\ Respects(p, e, upper) /\ Respects(q, f, upper) /\ e \in End /\ f \in End
             /\ (\A o \in s[2] : Rep(know, o) \in know.nn) => p >= 0 /\ q >= 0
    <3> HIDE DEF e, f
    <3> QED BY <1>9, <2>1, <2>2, <2>3
  <2>5. T = OfBoth(e, f, e[2] + f[2])
    BY <1>2, <1>10 DEF TransferBound, Is
  <2> HIDE DEF e, f
  <2>6. Is(e, "fin") /\ Is(f, "fin") => /\ e[2] + f[2] \in Int
                                        /\ IF upper THEN v <= e[2] + f[2] ELSE e[2] + f[2] <= v
    <3> HAVE Is(e, "fin") /\ Is(f, "fin")
    <3>1. e # Unbounded /\ e[2] \in Int /\ f # Unbounded /\ f[2] \in Int
      BY <2>4, Ends
    <3>2. IF upper THEN p <= e[2] /\ q <= f[2] ELSE e[2] <= p /\ f[2] <= q
      BY <2>4, <3>1 DEF Respects
    <3> QED BY <2>2, <2>4, <3>1, <3>2
  <2> QED BY <1>2, <2>4, <2>5, <2>6, OfBothRespected
<1>11. CASE Is(s, "mul")
  <2>1. PICK a, b \in s[2] : s[2] = {a, b} /\ \E x \in seen[a], y \in seen[b] : v = x * y
    BY <1>2, <1>11 DEF Results, Is
  <2>2. PICK x \in seen[a], y \in seen[b] : v = x * y
    BY <2>1
  <2>3. s[2] \subseteq know.syms /\ Operands2(s) = s[2]
    BY <1>1, <1>11 DEF Is, Operands2
  <2>4. PICK p, q \in Int :
             /\ p + q = x + y /\ p * q = x * y
             /\ Respects(p, e, upper) /\ Respects(q, f, upper) /\ e \in End /\ f \in End
             /\ (\A o \in s[2] : Rep(know, o) \in know.nn) => p >= 0 /\ q >= 0
    <3> HIDE DEF e, f
    <3> QED BY <1>9, <2>1, <2>2, <2>3
  <2>5. CASE ~\A o \in s[2] : Rep(know, o) \in know.nn
    <3>1. T = Unbounded
      BY <1>2, <1>11, <2>3, <2>5 DEF TransferBound, Is
    <3> QED BY <3>1 DEF Respects
  <2>6. CASE \A o \in s[2] : Rep(know, o) \in know.nn
    <3> DEFINE Positive(x1) == Is(x1, "fin") /\ x1[2] >= 0
    <3>1. T = IF Positive(e) /\ Positive(f) THEN Fin(e[2] * f[2])
              ELSE IF Bot \in {e, f} THEN Bot
              ELSE IF upper THEN Unbounded ELSE Fin(0)
      BY <1>2, <1>11, <2>3, <2>6 DEF TransferBound, Is
    <3> HIDE DEF e, f
    <3>2. p \in Nat /\ q \in Nat /\ v = p * q /\ p * q \in Nat
      BY <2>2, <2>4, <2>6
    <3>3. e # Bot /\ f # Bot
      BY <2>4, BotIsNotRespected
    <3>4. CASE Positive(e) /\ Positive(f)
      <4>1. e # Unbounded /\ e[2] \in Nat /\ f # Unbounded /\ f[2] \in Nat
        BY <2>4, <3>4, Ends
      <4>2. IF upper THEN p <= e[2] /\ q <= f[2] ELSE e[2] <= p /\ f[2] <= q
        BY <2>4, <4>1 DEF Respects
      <4>3. e[2] * f[2] \in Int /\ IF upper THEN v <= e[2] * f[2] ELSE e[2] * f[2] <= v
        <5>1. CASE upper
          BY <3>2, <4>1, <4>2, <5>1, ProductMonotone
        <5>2. CASE ~upper
          BY <3>2, <4>1, <4>2, <5>2, ProductMonotone
        <5> QED BY <5>1, <5>2
      <4> QED BY <1>2, <3>1, <3>4, <4>3, FinRespected
    <3>5. CASE ~(Positive(e) /\ Positive(f)) /\ upper
      <4>1. T = Unbounded
        BY <3>1, <3>3, <3>5
      <4> QED BY <4>1 DEF Respects
    <3>6. CASE ~(Positive(e) /\ Positive(f)) /\ ~upper
      <4>1. T = Fin(0)
        BY <3>1, <3>3, <3>6
      <4> QED BY <1>2, <3>2, <3>6, <4>1, FinRespected
    <3> QED BY <3>4, <3>5, <3>6
  <2> QED BY <2>5, <2>6
<1>12. CASE Is(s, "phi") /\ s \in DOMAIN know.inputs
  <2>1. PICK o \in know.inputs[s] : v \in seen[o]
    BY <1>12 DEF Results, Is
  <2>2. know.inputs[s] \subseteq know.syms
    BY <1>1, <1>12 DEF WellFormed
  <2> DEFINE B == {Of(i) : i \in know.inputs[s]}
  <2>3. T = JoinAll(B, upper)
    BY <1>12 DEF TransferBound, Is
  <2>4. B \in SUBSET End
    <3>1. ASSUME NEW i \in know.inputs[s] PROVE Of(i) \in End
      BY <2>2, <3>1 DEF Judging, Settled, Represented, Side
    <3> QED BY <3>1
  <2>5. Of(o) \in B /\ Respects(v, Of(o), upper)
    BY <1>3, <2>1, <2>2
  <2> HIDE DEF B
  <2> QED BY <1>2, <2>3, <2>4, <2>5, JoinKeeps
<1>13. CASE /\ s[1] \notin {"const", "and", "len", "add", "add2", "mul", "div"}
            /\ ~(Is(s, "phi") /\ s \in DOMAIN know.inputs)
  <2>1. T = Unbounded
    BY <1>13 DEF TransferBound, Is
  <2> QED BY <2>1 DEF Respects
<1> QED BY <1>4, <1>5, <1>6, <1>7, <1>8, <1>10, <1>11, <1>12, <1>13 DEF Is

----------------------------------------------------------------------------
(* Every value of a run. *)

LEMMA BoundHolds ==
  ASSUME NEW know, Judging(know), NEW s \in know.syms, NEW v \in Results(know, s), NEW upper \in BOOLEAN
  PROVE  Respects(v, Side(know, upper)[Rep(know, s)], upper)
<1> DEFINE bound == Side(know, upper)
           T == TransferBound(know, s, bound, upper)
<1>1. CASE Rep(know, s) = s
  <2>1. bound[s] \in {Unbounded, JoinAll({bound[s], T}, upper)}
    BY DEF Judging, Settled, Stable, Side, Updated, JoinBounds
  <2>2. Respects(v, T, upper)
    BY BoundIsRight
  <2>3. bound[s] \in End /\ T \in End
    BY <2>2, RespectedIsEnd DEF Judging, Settled, Side
  <2>4. v \in Int
    BY DEF Results
  <2> HIDE DEF T, bound
  <2>5. Respects(v, JoinAll({bound[s], T}, upper), upper)
    BY <2>2, <2>3, <2>4, JoinKeeps
  <2>6. Respects(v, bound[s], upper)
    BY <2>1, <2>5 DEF Respects
  <2> QED BY <1>1, <2>6 DEF bound
<1>2. CASE Rep(know, s) # s
  <2>1. s \in DOMAIN know.inputs /\ \A o \in know.inputs[s] : Rep(know, o) = Rep(know, s)
    BY <1>2 DEF Judging, Settled, Represented
  <2>2. Is(s, "phi") /\ know.inputs[s] \subseteq know.syms
    BY <2>1 DEF Judging, Settled, WellFormed
  <2>3. PICK o \in know.inputs[s] : v \in seen[o]
    BY <2>1, <2>2 DEF Results, Is
  <2> QED BY <2>1, <2>2, <2>3, Operand
<1> QED BY <1>1, <1>2

LEMMA SignHolds ==
  ASSUME NEW know, Judging(know), NEW s \in know.syms, NEW v \in Results(know, s),
         Rep(know, s) \in know.nn
  PROVE  v >= 0
<1>1. CASE Rep(know, s) = s
  BY <1>1, SignIsRight
<1>2. CASE Rep(know, s) # s
  <2>1. s \in DOMAIN know.inputs /\ \A o \in know.inputs[s] : Rep(know, o) = Rep(know, s)
    BY <1>2 DEF Judging, Settled, Represented
  <2>2. Is(s, "phi") /\ know.inputs[s] \subseteq know.syms
    BY <2>1 DEF Judging, Settled, WellFormed
  <2>3. PICK o \in know.inputs[s] : v \in seen[o]
    BY <2>1, <2>2 DEF Results, Is
  <2> QED BY <2>1, <2>2, <2>3, Operand
<1> QED BY <1>1, <1>2

LEMMA EvaluationIsJudged ==
  ASSUME NEW know, Judging(know), NEW s \in know.syms, Evaluate(know, s)
  PROVE  seen' \in [know.syms -> SUBSET Int] /\ JudgementsHold(know)'
<1>1. PICK v \in Results(know, s) : seen' = [seen EXCEPT ![s] = @ \cup {v}]
  BY DEF Evaluate
<1>2. v \in Int /\ seen \in [know.syms -> SUBSET Int]
  BY DEF Results, Judging
<1>3. seen' \in [know.syms -> SUBSET Int]
  BY <1>1, <1>2
<1>4. Judged(know, s, v)
  <2>1. Respects(v, know.ub[Rep(know, s)], TRUE) /\ Respects(v, know.lb[Rep(know, s)], FALSE)
    BY BoundHolds DEF Side
  <2> QED BY <2>1, SignHolds DEF Judged
<1>5. ASSUME NEW o \in know.syms, NEW w \in seen'[o] PROVE Judged(know, o, w)
  <2>1. seen'[o] = IF o = s THEN seen[s] \cup {v} ELSE seen[o]
    BY <1>1, <1>2
  <2>2. w \in seen[o] \/ (o = s /\ w = v)
    BY <2>1
  <2> QED BY <1>4, <2>2 DEF Judging, JudgementsHold
<1> QED BY <1>3, <1>5 DEF JudgementsHold

\* What the analyses of a function say of a symbol (compute_nonneg, compute_ub, compute_lb) is
\* true of every value it takes in every run, once they have come to an end, as long as no
\* integer overflows and no negative number is shifted.
THEOREM JudgementsAreRight ==
  ASSUME NEW CONSTANT know, Settled(know)
  PROVE  Execution(know) => []JudgementsHold(know)
<1> DEFINE Right == seen \in [know.syms -> SUBSET Int] /\ JudgementsHold(know)
<1>1. Fresh(know) => Right
  BY DEF Fresh, JudgementsHold
<1>2. Right /\ [\E s \in know.syms : Evaluate(know, s)]_seen => Right'
  <2> SUFFICES ASSUME Right, [\E s \in know.syms : Evaluate(know, s)]_seen PROVE Right'
    OBVIOUS
  <2>1. ASSUME NEW s \in know.syms, Evaluate(know, s) PROVE Right'
    BY <2>1, EvaluationIsJudged DEF Judging
  <2>2. CASE UNCHANGED seen
    BY <2>2 DEF JudgementsHold
  <2> QED BY <2>1, <2>2
<1> QED BY <1>1, <1>2, PTL DEF Execution

----------------------------------------------------------------------------
(* What is less than what, at one moment. *)

LEMMA MomentOf ==
  ASSUME NEW know, NEW val, Settled(know), Moment(know, val), NEW s \in know.syms
  PROVE  /\ val[s] \in Int
         /\ Rep(know, s) \in know.syms /\ val[Rep(know, s)] = val[s]
BY DEF Moment, Settled, Represented

\* The values of a symbol that is never negative.
LEMMA MomentIsJudged ==
  ASSUME NEW know, NEW val, Settled(know), Happens(know, val), JudgementsHold(know), NEW s \in know.syms
  PROVE  /\ Rep(know, s) \in know.nn => val[s] >= 0
         /\ Respects(val[s], know.ub[Rep(know, s)], TRUE)
         /\ Respects(val[s], know.lb[Rep(know, s)], FALSE)
BY DEF Happens, JudgementsHold, Judged

\* A symbol less than its base, or half a sum.
LEMMA ShrunkIsLess ==
  ASSUME NEW know, NEW val, Settled(know), Moment(know, val), NEW s \in know.syms, Is(s, "add")
  PROVE  /\ Rep(know, s[2]) \in know.syms /\ s[3] \in Int
         /\ val[s] = val[Rep(know, s[2])] + s[3]
<1>1. s[2] \in know.syms /\ s[3] \in Int
  BY WidthAssumption DEF Settled, WellFormed, Operands2, Is, Long
<1>2. val[s] = val[s[2]] + s[3]
  BY DEF Moment
<1> QED BY <1>1, <1>2, MomentOf

LEMMA HalfIsLess ==
  ASSUME NEW a \in Nat, NEW b \in Nat, NEW l \in Int, a < l, b < l
  PROVE  Quotient(a + b, 2) < l
<1>1. Quotient(a + b, 2) = (a + b) \div 2
  BY QuotientOfNat
<1>2. 2 * ((a + b) \div 2) <= a + b /\ (a + b) \div 2 \in Nat
  BY DivideNat
<1> QED BY <1>1, <1>2

\* The facts saturate_lt adds follow from those it is given.
LEMMA SaturationIsRight ==
  ASSUME NEW know, NEW val, Settled(know), Happens(know, val), JudgementsHold(know),
         NEW lt \in Facts(know), True(lt, val)
  PROVE  Saturated(know, lt) \in Facts(know) /\ True(Saturated(know, lt), val)
<1> DEFINE shrunk == {s \in know.syms : Is(s, "add") /\ s[3] <= 0}
           mids == {s \in know.syms : Is(s, "div") /\ s[3] = 2 /\ Is(s[2], "add2")}
           Base(s) == Rep(know, s[2])
           short == {p[2] : p \in {q \in lt : Is(q[2], "const") /\ q[2][2] >= 0 /\ 2 * q[2][2] <= IntMax}}
           Good(x, y) == x \in know.syms /\ y \in know.syms /\ val[x] < val[y]
<1>0. Moment(know, val)
  BY DEF Happens
<1>1. \A x, y : <<x, y>> \in lt => Good(x, y)
  BY DEF Facts, True
<1>2. \A p \in lt : p = <<p[1], p[2]>>
  BY DEF Facts
<1>3. ASSUME NEW s \in shrunk, s[3] < 0 PROVE Good(s, Base(s))
  BY <1>0, <1>3, MomentOf, ShrunkIsLess
<1>4. ASSUME NEW s \in shrunk, NEW p \in lt, p[1] = Base(s) PROVE Good(s, p[2])
  <2>1. Good(p[1], p[2])
    BY <1>1, <1>2
  <2>2. val[s] = val[Base(s)] + s[3] /\ s[3] <= 0 /\ s[3] \in Int
    BY <1>0, ShrunkIsLess
  <2> QED BY <1>0, <1>4, <2>1, <2>2, MomentOf
<1>5. ASSUME NEW m \in mids, NEW l \in short,
             \A o \in m[2][2] : Rep(know, o) \in know.nn /\ <<Rep(know, o), l>> \in lt
      PROVE  Good(m, l)
  <2>1. m[2] \in know.syms /\ val[m] = Quotient(val[m[2]], 2)
    BY <1>0 DEF Settled, WellFormed, Operands2, Is, Moment
  <2>2. PICK a, b \in m[2][2] : m[2][2] = {a, b}
    BY <2>1 DEF Settled, WellFormed, Is
  <2>3. a \in know.syms /\ b \in know.syms /\ val[m[2]] = val[a] + val[b]
    BY <1>0, <2>1, <2>2 DEF Settled, WellFormed, Operands2, Is, Moment
  <2>4. Good(Rep(know, a), l) /\ Good(Rep(know, b), l)
    BY <1>1, <1>5
  <2>5. val[a] >= 0 /\ val[b] >= 0
    BY <1>5, <2>3, MomentIsJudged
  <2>6. val[a] \in Nat /\ val[b] \in Nat /\ val[a] < val[l] /\ val[b] < val[l] /\ val[l] \in Int
    BY <1>0, <2>3, <2>4, <2>5, MomentOf
  <2> QED BY <2>1, <2>3, <2>4, <2>6, HalfIsLess
<1>6. ASSUME NEW p \in lt, NEW q \in lt, q[1] = p[2] PROVE Good(p[1], q[2])
  <2>1. Good(p[1], p[2]) /\ Good(p[2], q[2])
    BY <1>1, <1>2, <1>6
  <2> QED BY <1>0, <2>1, MomentOf
<1>7. ASSUME NEW fact \in Saturated(know, lt)
      PROVE  fact \in know.syms \X know.syms /\ val[fact[1]] < val[fact[2]]
  <2>1. \/ fact \in lt
        \/ \E s \in shrunk : s[3] < 0 /\ fact = <<s, Base(s)>>
        \/ \E s \in shrunk : \E p \in lt : p[1] = Base(s) /\ fact = <<s, p[2]>>
        \/ \E m \in mids : \E l \in short :
             /\ \A o \in m[2][2] : Rep(know, o) \in know.nn /\ <<Rep(know, o), l>> \in lt
             /\ fact = <<m, l>>
        \/ \E p, q \in lt : q[1] = p[2] /\ fact = <<p[1], q[2]>>
    <3>1. CASE fact \in ByShrinking(know, lt)
      BY <3>1 DEF ByShrinking
    <3>2. CASE fact \in ByHalving(know, lt)
      BY <3>2 DEF ByHalving
    <3>3. CASE fact \in Transitively(lt)
      BY <3>3 DEF Transitively
    <3> QED BY <3>1, <3>2, <3>3 DEF Saturated
  <2>2. \E x, y : fact = <<x, y>> /\ Good(x, y)
    BY <1>1, <1>2, <1>3, <1>4, <1>5, <1>6, <2>1
  <2> QED BY <2>2
<1> QED BY <1>7 DEF Facts, True

----------------------------------------------------------------------------
(* Accesses. *)

LEMMA AffineIsWithin ==
  ASSUME NEW know, NEW val, Settled(know), Happens(know, val), JudgementsHold(know),
         NEW lt \in Facts(know), True(lt, val), NEW m \in know.syms,
         NEW other \in know.syms, Rep(know, other) = other,
         NEW len \in know.syms, Rep(know, len) = len, val[len] <= IntMax,
         Affine(know, lt, m, other, len)
  PROVE  val[m] + val[other] \in Nat /\ val[m] + val[other] < val[len]
<1>0. Moment(know, val)
  BY DEF Happens
<1>1. PICK n, p \in m[2] :
        /\ m[2] = {n, p}
        /\ Is(Rep(know, n), "const") /\ Rep(know, n)[2] >= 1
        /\ {<<Rep(know, p), Rep(know, n)>>, <<other, Rep(know, n)>>} \subseteq lt
        /\ {Rep(know, p), other} \subseteq know.nn
        /\ Is(know.lb[len], "fin")
        /\ LET N == Rep(know, n)
           IN know.lb[len][2] >= IF N[2] * N[2] <= LongMax THEN N[2] * N[2] ELSE LongMax
  BY DEF Affine
<1> DEFINE N == Rep(know, n)[2]
<1>2. n \in know.syms /\ p \in know.syms /\ val[m] = val[n] * val[p]
  BY <1>0, <1>1 DEF Affine, Settled, WellFormed, Operands2, Is, Moment
<1>3. N \in Nat /\ val[n] = N /\ N >= 1
  <2>1. Rep(know, n) \in know.syms /\ val[Rep(know, n)] = val[n] /\ val[n] \in Int
    BY <1>0, <1>2, MomentOf
  <2>2. val[Rep(know, n)] = N
    BY <1>0, <1>1, <2>1 DEF Moment
  <2> QED BY <1>1, <2>1, <2>2
<1>4. val[p] \in Nat /\ val[p] < N
  <2>1. val[Rep(know, p)] < val[Rep(know, n)]
    BY <1>1 DEF True
  <2>2. val[p] >= 0
    BY <1>1, <1>2, MomentIsJudged
  <2> QED BY <1>0, <1>2, <1>3, <2>1, <2>2, MomentOf
<1>5. val[other] \in Nat /\ val[other] < N
  <2>1. val[other] < val[Rep(know, n)]
    BY <1>1 DEF True
  <2>2. val[other] >= 0
    BY <1>1, MomentIsJudged
  <2> QED BY <1>0, <1>2, <1>3, <2>1, <2>2, MomentOf
<1>6. know.lb[len][2] \in Int /\ know.lb[len][2] <= val[len] /\ val[len] \in Int
  <2>1. Respects(val[len], know.lb[len], FALSE)
    BY MomentIsJudged
  <2>2. know.lb[len] \in End /\ know.lb[len] # Unbounded
    BY <1>1, Ends DEF Settled
  <2> QED BY <1>0, <1>1, <2>1, <2>2, RespectedIsEnd, Ends, MomentOf
<1>7. N * N \in Nat /\ N * N <= val[len]
  <2>1. N * N \in Nat
    BY <1>3
  <2>2. val[len] < LongMax /\ LongMax \in Int /\ IntMax \in Int
    BY <1>6, WidthAssumption
  <2> QED BY <1>1, <1>6, <2>1, <2>2
<1>8. val[n] * val[p] <= N * (N - 1) /\ N * (N - 1) = N * N - N /\ val[n] * val[p] \in Nat
  <2>1. val[p] <= N - 1 /\ N - 1 \in Nat
    BY <1>3, <1>4
  <2> QED BY <1>3, <1>4, <2>1, ProductMonotone
<1> QED BY <1>2, <1>3, <1>5, <1>6, <1>7, <1>8

LEMMA IndexIsWithin ==
  ASSUME NEW know, NEW val, Settled(know), Happens(know, val), JudgementsHold(know),
         NEW lt \in Facts(know), True(lt, val),
         NEW i \in know.syms, Rep(know, i) = i,
         NEW len \in know.syms, Rep(know, len) = len, val[len] <= IntMax,
         InBounds(know, lt, i, len)
  PROVE  0 <= val[i] /\ val[i] < val[len]
<1> DEFINE ub == know.ub[i]
           lb == know.lb[i]
           least == know.lb[len]
<1>0. Moment(know, val) /\ val[i] \in Int /\ val[len] \in Int
  BY MomentOf DEF Happens
<1>1. /\ i \in know.nn => val[i] >= 0
      /\ Respects(val[i], ub, TRUE) /\ Respects(val[i], lb, FALSE) /\ Respects(val[len], least, FALSE)
  BY MomentIsJudged
<1>2. CASE <<i, len>> \in lt /\ i \in know.nn
  BY <1>1, <1>2 DEF True
<1>3. CASE /\ ~(<<i, len>> \in lt /\ i \in know.nn)
           /\ Is(len, "const") /\ UbConst(i) # {}
  <2>1. val[len] = len[2] /\ \A u \in UbConst(i) : u < len[2]
    BY <1>0, <1>3 DEF InBounds, Moment
  <2>2. CASE Is(i, "const") /\ i[2] >= 0
    <3>1. val[i] = i[2] /\ UbConst(i) = {i[2]}
      BY <1>0, <2>2 DEF UbConst, Moment, Is
    <3> QED BY <1>0, <2>1, <2>2, <3>1
  <2>3. CASE Is(i, "and") /\ i[3] >= 0
    <3>1. val[i] \in 0 .. i[3]
      BY <1>0, <2>3 DEF Moment
    <3>2. i[3] < len[2] /\ i[3] \in Int
      BY <2>1, <2>3 DEF UbConst, Is, Settled, WellFormed
    <3> QED BY <1>0, <2>1, <3>1, <3>2
  <2> QED BY <1>3, <2>2, <2>3 DEF UbConst
<1>4. CASE /\ Is(ub, "fin") /\ Is(lb, "fin") /\ Is(least, "fin")
           /\ lb[2] >= 0 /\ 0 <= ub[2] /\ ub[2] < least[2]
  <2>1. {ub, lb, least} \subseteq End
    BY DEF Settled
  <2>2. /\ ub # Unbounded /\ lb # Unbounded /\ least # Unbounded
        /\ ub[2] \in Int /\ lb[2] \in Int /\ least[2] \in Int
    BY <1>4, <2>1, Ends
  <2>3. val[i] <= ub[2] /\ lb[2] <= val[i] /\ least[2] <= val[len]
    BY <1>1, <2>2, RespectedIsEnd
  <2> QED BY <1>0, <1>4, <2>2, <2>3
<1>5. ASSUME Is(i, "add2"), NEW m \in i[2], NEW o \in i[2], i[2] = {m, o},
             Affine(know, lt, Rep(know, m), Rep(know, o), len)
      PROVE  0 <= val[i] /\ val[i] < val[len]
  <2>1. m \in know.syms /\ o \in know.syms /\ val[i] = val[m] + val[o]
    BY <1>0, <1>5 DEF Settled, WellFormed, Operands2, Is, Moment
  <2>2. /\ Rep(know, m) \in know.syms /\ val[Rep(know, m)] = val[m]
        /\ Rep(know, o) \in know.syms /\ val[Rep(know, o)] = val[o]
        /\ Rep(know, Rep(know, o)) = Rep(know, o)
    BY <2>1, MomentOf DEF Happens, Settled, Represented
  <2> QED BY <1>5, <2>1, <2>2, AffineIsWithin
<1> QED BY <1>2, <1>3, <1>4, <1>5 DEF InBounds

\* A branch is taken by a comparison that holds: the facts of its edges are true.
LEMMA FactsOfABranch ==
  ASSUME NEW fn \in {"lt", "gt", "ge", "le"}, NEW x, NEW y, NEW val, val[x] \in Int, val[y] \in Int
  PROVE  IF Compares(fn, val[x], val[y]) THEN True(StrictFacts(fn, x, y)[1], val)
                                         ELSE True(StrictFacts(fn, x, y)[2], val)
<1>1. CASE fn = "lt"
  BY <1>1 DEF Compares, StrictFacts, True
<1>2. CASE fn = "gt"
  BY <1>2 DEF Compares, StrictFacts, True
<1>3. CASE fn = "ge"
  BY <1>3 DEF Compares, StrictFacts, True
<1>4. CASE fn = "le"
  BY <1>4 DEF Compares, StrictFacts, True
<1> QED BY <1>1, <1>2, <1>3, <1>4

LEMMA WhatFollowsIsRight ==
  ASSUME NEW know, NEW val, Settled(know), Happens(know, val), JudgementsHold(know),
         NEW found \in Facts(know), True(found, val), NEW lt, Follows(know, found, lt)
  PROVE  lt \in Facts(know) /\ True(lt, val)
<1> DEFINE F == {x \in Facts(know) : True(x, val)}
<1>1. found \in F /\ F \in SUBSET Facts(know)
  OBVIOUS
<1>2. \A x \in F : Saturated(know, x) \in F
  BY SaturationIsRight
<1>3. lt \in F
  BY <1>1, <1>2 DEF Follows
<1> QED BY <1>3

\* A check of an index is removed (provably_in_bounds) only where the index lies within the
\* array: whenever the symbols have values that belong together, the facts found by the branch
\* analysis are true of them, and lt are these after any number of rounds of saturate_lt; as long
\* as no integer overflows and no negative number is shifted.
THEOREM RemovedChecksAreRedundant ==
  ASSUME NEW CONSTANT know, Settled(know)
  PROVE  Execution(know) =>
           [](\A val : \A found \in Facts(know) : \A lt, i, len :
                /\ Happens(know, val) /\ True(found, val) /\ Follows(know, found, lt)
                /\ InBounds(know, lt, i, len)
                => Within(know, val, i, len))
<1>1. JudgementsHold(know) =>
        \A val : \A found \in Facts(know) : \A lt, i, len :
           /\ Happens(know, val) /\ True(found, val) /\ Follows(know, found, lt)
           /\ InBounds(know, lt, i, len)
           => Within(know, val, i, len)
  <2> SUFFICES ASSUME JudgementsHold(know), NEW val, NEW found \in Facts(know), NEW lt, NEW i, NEW len,
                      Happens(know, val), True(found, val), Follows(know, found, lt),
                      InBounds(know, lt, i, len),
                      {i, len} \subseteq know.syms, Rep(know, i) = i, Rep(know, len) = len,
                      val[len] <= IntMax
               PROVE  val[i] \in 0 .. val[len] - 1
    BY DEF Within
  <2>1. val[i] \in Int /\ val[len] \in Int
    BY MomentOf DEF Happens
  <2>2. lt \in Facts(know) /\ True(lt, val)
    BY WhatFollowsIsRight
  <2>3. 0 <= val[i] /\ val[i] < val[len]
    BY <2>2, IndexIsWithin
  <2> QED BY <2>1, <2>3
<1> QED BY <1>1, JudgementsAreRight, PTL
=============================================================================
