------------------------------ MODULE Scalars ------------------------------
(***************************************************************************)
(* The passes over scalars that run before the bounds checks are looked at: *)
(* propagation of constants (crates/solver/src/constprop.rs) and fusion of  *)
(* a comparison of longs with the test of its result (longcmp.rs).          *)
(***************************************************************************)
EXTENDS Ir, TLC

----------------------------------------------------------------------------
(* constprop: a local whose only definition is a constant is replaced by it *)
(* where the definition dominates every use.                                *)

\* The blocks on every path to a block; one that nothing leads to has only itself.
RECURSIVE GreatestDominators(_, _)
GreatestDominators(f, dom) ==
  LET Common(b) == LET preds == Predecessors(f, b)
                   IN IF preds = {} THEN {}
                      ELSE {d \in DOMAIN f.blocks : \A p \in preds : d \in dom[p]}
      next == FoldLeft(LAMBDA so_far, b : Append(so_far, {b} \cup IF b = 1 THEN {} ELSE Common(b)),
                       <<>>, [b \in DOMAIN f.blocks |-> b])
  IN IF next = dom THEN dom ELSE GreatestDominators(f, next)
Dominators(f) ==
  GreatestDominators(f, [b \in DOMAIN f.blocks |-> IF b = 1 THEN {1} ELSE DOMAIN f.blocks])

\* Where a statement stands; the terminator stands after the last one.
Sites(f) == UNION {{b} \X DOMAIN f.blocks[b].stmts : b \in DOMAIN f.blocks}
At(f, s) == f.blocks[s[1]].stmts[s[2]]
DefinitionsOf(f, l) == {s \in Sites(f) : At(f, s).dest = l}
UsesOf(f, l) ==
  {s \in Sites(f) : l \in ToSet(At(f, s).args)}
  \cup {<<b, Len(f.blocks[b].stmts) + 1>> : b \in {c \in DOMAIN f.blocks : l \in ToSet(f.blocks[c].term.args)}}

DominatesUse(dom, d, u) == IF u[1] = d[1] THEN u[2] > d[2] ELSE d[1] \in dom[u[1]]

ScalarConstants(f) ==
  LET dom == Dominators(f)
      IsConstant(l) == \E d \in Sites(f) :
        /\ DefinitionsOf(f, l) = {d}
        /\ At(f, d).op = "use" /\ IsConst(At(f, d).args[1])
        /\ \A u \in UsesOf(f, l) : DominatesUse(dom, d, u)
  IN {l \in Destinations(f) : IsConstant(l)}

PropagateConstScalars(f) ==
  LET consts == ScalarConstants(f)
      ValueOf(l) == At(f, CHOOSE d \in Sites(f) : At(f, d).dest = l).args[1]
      With(args) == [i \in DOMAIN args |-> IF args[i] \in consts THEN ValueOf(args[i]) ELSE args[i]]
      Replaced(bb) == BasicBlock([i \in DOMAIN bb.stmts |-> [bb.stmts[i] EXCEPT !.args = With(@)]],
                                 [bb.term EXCEPT !.args = With(@)])
  IN IF consts = {} THEN f
     ELSE [f EXCEPT !.blocks = [b \in DOMAIN f.blocks |-> Replaced(f.blocks[b])]]

----------------------------------------------------------------------------
(* longcmp: c = lcmp(x, y); d = c < 0 becomes d = x < y.                    *)

\* Whether l is read from statement i on, before something else defines it.
ReadsLocalAfter(bb, i, l) ==
  LET later == i..Len(bb.stmts)
      Until(k) == \A n \in later : n < k => bb.stmts[n].dest # l
  IN \/ \E k \in later : l \in ToSet(bb.stmts[k].args) /\ Until(k)
     \/ l \in ToSet(bb.term.args) /\ Until(Len(bb.stmts) + 1)

FuseBlock(bb) ==
  LET Fusible(i) ==
        /\ i + 1 \in DOMAIN bb.stmts
        /\ LET c == bb.stmts[i]
               t == bb.stmts[i + 1]
           IN /\ c.op = "call" /\ c.name = "jrt_lcmp"
              /\ t.op = "binary" /\ t.name \in Comparisons /\ t.args = <<c.dest, Const(0)>>
              /\ ~ReadsLocalAfter(bb, i + 2, c.dest)
      Fused(i) == IF i - 1 \in DOMAIN bb.stmts /\ Fusible(i - 1)
                  THEN [bb.stmts[i] EXCEPT !.args = bb.stmts[i - 1].args]
                  ELSE bb.stmts[i]
      kept == SelectSeq([i \in DOMAIN bb.stmts |-> i], LAMBDA i : ~Fusible(i))
  IN BasicBlock([n \in DOMAIN kept |-> Fused(kept[n])], bb.term)

FuseLongCompares(f) == [f EXCEPT !.blocks = [b \in DOMAIN f.blocks |-> FuseBlock(f.blocks[b])]]
=============================================================================
