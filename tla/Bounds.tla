------------------------------- MODULE Bounds -------------------------------
(***************************************************************************)
(* Elision of bounds checks (crates/solver/src/bounds.rs).  Every value of *)
(* a function has a number, its symbol: copies share it, a merge of values *)
(* that differ is a phi.  What is known of symbols, in which intervals they*)
(* lie and which are less than which at a block, shows that an index lies  *)
(* within its array; the access is then unchecked.                         *)
(*                                                                         *)
(* Merges, phis and their collapse are those of Passes (refcopy.rs).  The  *)
(* pass computes with 64 bits and checks what it adds and multiplies.      *)
(***************************************************************************)
EXTENDS Passes, Symbols

----------------------------------------------------------------------------
(* Symbols. *)

SymConst(c) == <<"const", c>>
Opaque(b, i) == <<"opaque", b, i>>
SymArray(b, i) == <<"array", b, i>>
SymLen(a) == <<"len", a>>
SymAdd(s, c) == <<"add", s, c>>
SymAdd2(x, y) == <<"add2", {x, y}>>
SymMul(x, y) == <<"mul", {x, y}>>
SymAnd(s, m) == <<"and", s, m>>
SymDiv(s, d) == <<"div", s, d>>

\* null has the number of the second statement of the first block.
SymOf(o, env) ==
  IF IsConst(o) THEN SymConst(o[3])
  ELSE IF o = Null THEN Opaque(1, 2)
  ELSE Value(env, o)

\* The symbol of a binary operation that has one.
SymOfBinary(fn, a, b, env, own) ==
  LET x == SymOf(a, env)
      y == SymOf(b, env)
  IN CASE fn = "add" /\ IsLocal(a) /\ IsConst(b) -> SymAdd(x, b[3])
       [] fn = "add" /\ IsConst(a) /\ IsLocal(b) -> SymAdd(y, a[3])
       [] fn = "add" /\ IsLocal(a) /\ IsLocal(b) -> SymAdd2(x, y)
       [] fn = "mul" /\ IsLocal(a) /\ IsLocal(b) -> SymMul(x, y)
       [] fn = "sub" /\ IsLocal(a) /\ IsConst(b) -> SymAdd(x, -b[3])
       [] fn = "div" /\ IsLocal(a) /\ IsConst(b) /\ b[3] >= 1 -> SymDiv(x, b[3])
       [] fn \in {"shr", "ushr"} /\ IsLocal(a) /\ b = Const(1) -> SymDiv(x, 2)
       [] fn = "and" /\ Is(x, "const") /\ x[2] >= 0 -> SymAnd(y, x[2])
       [] fn = "and" /\ ~Is(x, "const") /\ Is(y, "const") /\ y[2] >= 0 -> SymAnd(x, y[2])
       [] OTHER -> own

\* A state of the numbering: the symbols of locals, the lengths of arrays.
StepEnv(st, b, i, s) ==
  LET Defined(sym) == [s EXCEPT !.env = (st.dest :> sym) @@ @]
      array == SymOf(st.args[1], s.env)
      len == IF array \in DOMAIN s.len THEN s.len[array] ELSE SymLen(array)
  IN CASE st.dest = None -> s
       [] st.op = "use" -> Defined(SymOf(st.args[1], s.env))
       [] st.op = "convert" /\ IsLocal(st.args[1]) -> Defined(SymOf(st.args[1], s.env))
       [] st.op = "binary" ->
            Defined(SymOfBinary(st.name, st.args[1], st.args[2], s.env, Opaque(b, i)))
       [] st.op = "newarray" ->
            [env |-> (st.dest :> SymArray(b, i)) @@ s.env,
             len |-> (SymArray(b, i) :> SymOf(st.args[1], s.env)) @@ s.len]
       [] st.op = "arraylen" ->
            [env |-> (st.dest :> len) @@ s.env, len |-> (array :> len) @@ s.len]
       [] OTHER -> Defined(Opaque(b, i))

\* The states before the statements of block b, and the one after it.
NumberBlock(f, b, s) ==
  FoldLeft(LAMBDA ts, i : Append(ts, StepEnv(f.blocks[b].stmts[i], b, i, Last(ts))), <<s>>,
           [i \in DOMAIN f.blocks[b].stmts |-> i])

SymsIn(f, b, out) == MergeIn(f, b, out)
\* One round over the blocks in order; the lengths are found anew in every round.
NumberingRound(f, out) ==
  FoldLeft(LAMBDA t, b : LET s == Last(NumberBlock(f, b, [env |-> SymsIn(f, b, t.out), len |-> t.len]))
                         IN [out |-> (b :> s.env) @@ t.out, len |-> s.len],
           [out |-> out, len |-> <<>>], [b \in DOMAIN f.blocks |-> b])
RECURSIVE GlobalNumbering(_, _, _, _)
GlobalNumbering(f, last, next, rounds) ==
  IF next.out = last \/ rounds = 0 THEN [converged |-> next.out = last, out |-> last, len |-> next.len]
  ELSE GlobalNumbering(f, next.out, NumberingRound(f, next.out), rounds - 1)

----------------------------------------------------------------------------
(* What holds of a symbol everywhere: the least and greatest solutions.     *)

RECURSIVE SymClosure(_, _)
SymClosure(inputs, syms) ==
  LET more == syms \cup UNION {Operands2(s) \cup IF s \in DOMAIN inputs THEN inputs[s] ELSE {} : s \in syms}
  IN IF more = syms THEN syms ELSE SymClosure(inputs, more)

CollapsedPhis(inputs) == ComputeRepr(inputs, <<>>)

RECURSIVE ComputeNonneg(_, _)
ComputeNonneg(know, nn) ==
  LET still == {s \in nn : Nonneg(know, s, nn)}
  IN IF still = nn THEN nn ELSE ComputeNonneg(know, still)

\* Mutant: two rounds, as if the end of an interval were found at once.
MAX_ITERTwo == [upper |-> 2, lower |-> 2]
\* Whatever has been found after so many rounds is used.
MAX_ITER == [upper |-> 64, lower |-> 256]
RECURSIVE ComputeBounds(_, _, _, _, _)
ComputeBounds(know, upper, last, now, rounds) ==
  IF now.bounds = last \/ rounds = 0 THEN now.bounds
  ELSE ComputeBounds(know, upper, now.bounds, BoundsRound(know, upper, now), rounds - 1)
BoundsOf(know, upper) ==
  ComputeBounds(know, upper, <<>>, [bounds |-> [s \in know.syms |-> Bot], moves |-> [s \in know.syms |-> 0]],
                IF upper THEN MAX_ITER.upper ELSE MAX_ITER.lower)

----------------------------------------------------------------------------
(* What is less than what, block by block. *)

\* The last comparison in block b that defines the condition of its branch, its operands
\* looked up with no lengths but those the block itself asks for.  If it compares a result of
\* jrt_lcmp with 0 the operands are those of the last such call, in the numbering before it.
FindCmp(f, b, envIn) ==
  LET bb == f.blocks[b]
      Defines(i) == /\ bb.stmts[i].op = "binary" /\ bb.stmts[i].dest = bb.term.args[1]
                    /\ bb.stmts[i].name \in {"lt", "ge", "gt", "le"}
      cmps == SelectSeq([i \in DOMAIN bb.stmts |-> i], Defines)
      i == Last(cmps)
      states == NumberBlock(f, b, [env |-> envIn, len |-> <<>>])
      OfLongs(m) == /\ m < i /\ bb.stmts[i].args[2] = Const(0)
                     /\ bb.stmts[m].op = "call" /\ bb.stmts[m].name = "jrt_lcmp"
                     /\ bb.stmts[m].dest = bb.stmts[i].args[1]
      lcmps == SelectSeq([m \in DOMAIN bb.stmts |-> m], OfLongs)
      from == IF lcmps = <<>> THEN i ELSE Last(lcmps)
      Sym(k) == SymOf(bb.stmts[from].args[k], states[from].env)
  IN IF bb.term.op # "branch" \/ cmps = <<>> THEN <<>>
     ELSE <<bb.stmts[i].name, Sym(1), Sym(2)>>

\* The facts of the edge from block p to block b.
EdgeFacts(f, know, p, b) ==
  IF know.cmps[p] = <<>> THEN {}
  ELSE LET facts == StrictFacts(know.cmps[p][1], Rep(know, know.cmps[p][2]), Rep(know, know.cmps[p][3]))
       IN UNION {facts[k] : k \in {j \in 1..2 : f.blocks[p].term.to[j] = b}}

\* A fact holds at a block if it does on every edge to it.
FactsInto(f, edges, lt, b) ==
  LET preds == Predecessors(f, b)
      Along(p) == lt[p] \cup edges[<<p, b>>]
  IN IF preds = {} THEN {}
     ELSE {fact \in Along(CHOOSE p \in preds : TRUE) : \A p \in preds : fact \in Along(p)}
RECURSIVE LtFixpoint(_, _, _)
LtFixpoint(f, edges, lt) ==
  LET next == FoldLeft(LAMBDA t, b : (b :> FactsInto(f, edges, t, b)) @@ t, lt, [b \in DOMAIN f.blocks |-> b])
  IN IF next = lt THEN lt ELSE LtFixpoint(f, edges, next)

RECURSIVE SaturateLt(_, _)
SaturateLt(know, lt) ==
  IF Saturated(know, lt) = lt THEN lt ELSE SaturateLt(know, Saturated(know, lt))

----------------------------------------------------------------------------
(* Accesses. *)

\* Mutant: the index alone is looked at.
ProvablyNonneg(know, lt, env, array, index) == Rep(know, SymOf(index, env)) \in know.nn
ProvablyInBounds(know, lt, env, array, index) ==
  LET a == Rep(know, SymOf(array, env))
  IN a \in DOMAIN know.len
     /\ InBounds(know, lt, Rep(know, SymOf(index, env)), Rep(know, know.len[a]))

\* What the analyses know of a function whose numbering is g: the states before its
\* statements, the comparisons its branches test, and what follows from them.
Numbered(f, g) ==
  [envs |-> [b \in DOMAIN f.blocks |-> NumberBlock(f, b, [env |-> SymsIn(f, b, g.out), len |-> g.len])],
   cmps |-> [b \in DOMAIN f.blocks |-> FindCmp(f, b, SymsIn(f, b, g.out))],
   inputs |-> PhiInputs(f, g.out), len |-> g.len]
WithSymbols(f, know) ==
  LET InState(s) == {s.env[l] : l \in DOMAIN s.env}
      InBlock(b) == UNION {{SymOf(o, know.envs[b][i].env) : o \in ToSet(f.blocks[b].stmts[i].args)} :
                             i \in DOMAIN f.blocks[b].stmts}
      InCmp(cmp) == {cmp[k] : k \in 2..Len(cmp)}
  IN know @@ [repr |-> CollapsedPhis(know.inputs),
              syms |-> SymClosure(know.inputs,
                         UNION {UNION {InState(s) : s \in ToSet(know.envs[b])} \cup InBlock(b) \cup InCmp(know.cmps[b]) :
                                  b \in DOMAIN f.blocks}
                         \cup {know.len[a] : a \in DOMAIN know.len})]
WithSigns(know) == know @@ [nn |-> ComputeNonneg(know, know.syms)]
WithBounds(know) == know @@ [ub |-> BoundsOf(know, TRUE), lb |-> BoundsOf(know, FALSE)]
Knowledge(f, g) == WithBounds(WithSigns(WithSymbols(f, Numbered(f, g))))

FactsOn(f, edges) ==
  LtFixpoint(f, edges, [b \in DOMAIN f.blocks |-> IF Predecessors(f, b) = {} THEN {}
                                                  ELSE UNION {edges[e] : e \in DOMAIN edges}])
FactsAt(f, know) ==
  FactsOn(f, [e \in {d \in (DOMAIN f.blocks) \X (DOMAIN f.blocks) : d[1] \in Predecessors(f, d[2])} |->
                EdgeFacts(f, know, e[1], e[2])])

IsAccess(st) == st.op \in {"arrayload", "arraystore"}
UncheckedIn(bb, know, lt, envs) ==
  LET Access(st, env) ==
        IF IsAccess(st) /\ ProvablyInBounds(know, lt, env, st.args[1], st.args[2])
        THEN [st EXCEPT !.name = "unchecked"] ELSE st
  IN BasicBlock([i \in DOMAIN bb.stmts |-> Access(bb.stmts[i], envs[i].env)], bb.term)
Unchecked(f, know, lt) ==
  [f EXCEPT !.blocks = [b \in DOMAIN f.blocks |->
     IF \E st \in ToSet(f.blocks[b].stmts) : IsAccess(st)
     THEN UncheckedIn(f.blocks[b], know, SaturateLt(know, lt[b]), know.envs[b]) ELSE f.blocks[b]]]
UncheckedAs(f, know) == Unchecked(f, know, FactsAt(f, know))

NumberingOf(f) ==
  LET none == [b \in DOMAIN f.blocks |-> <<>>]
  IN GlobalNumbering(f, none, NumberingRound(f, none), ROUNDS - 1)
ElideWith(f, g) == IF g.converged THEN UncheckedAs(f, Knowledge(f, g)) ELSE f
ElideBounds(f) ==
  IF \A st \in AllStatements(f) : ~IsAccess(st) THEN f ELSE ElideWith(f, NumberingOf(f))

\* What is known of a function once its analyses have ended.
HasSettled(f) ==
  LET g == NumberingOf(f) IN g.converged => Settled(Knowledge(f, g))
=============================================================================
