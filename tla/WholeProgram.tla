---------------------------- MODULE WholeProgram ----------------------------
(***************************************************************************)
(* run of the solver (crates/solver/src/lib.rs), for programs of static    *)
(* methods: functions main cannot reach are dropped, and where the class   *)
(* may refer to itself but no store can close a cycle, the program is      *)
(* linked without the cycle collector.                                     *)
(***************************************************************************)
EXTENDS Ir

CallsOf(f) == {st.name : st \in {s \in AllStatements(f) : s.op = "call"}}
RECURSIVE Reachable(_, _)
Reachable(fs, fns) ==
  LET more == fns \cup (UNION {CallsOf(fs[fn]) : fn \in fns} \cap DOMAIN fs)
  IN IF more = fns THEN fns ELSE Reachable(fs, more)
Prune(fs) == [fn \in Reachable(fs, {"main"}) |-> fs[fn]]

----------------------------------------------------------------------------
(* shape_proves_acyclic: every store of a reference stores an object that  *)
(* was just made and that nothing else refers to.                          *)

Made(f) == {st.dest : st \in {s \in AllStatements(f) : s.op \in {"new", "newarray"}}}
\* The function called last in the text for the value of local l.
MakerOf(f, l) ==
  FoldLeft(LAMBDA fn, st : IF st.op = "call" /\ st.dest = l THEN st.name ELSE fn, "",
           FlattenSeq([b \in DOMAIN f.blocks |-> f.blocks[b].stmts]))

\* Mutant: every function does.
ReturnsAnything(f, allocators) == TRUE
\* All it returns was made in it, or by such a function; null is as good.
ReturnsFresh(f, allocators) ==
  \A b \in DOMAIN f.blocks : f.blocks[b].term.op = "return" =>
    \A l \in ToSet(f.blocks[b].term.args) :
      l = Null \/ (IsLocal(l) /\ (l \in Made(f) \/ MakerOf(f, l) \in allocators))
RECURSIVE AllocatorLike(_, _)
AllocatorLike(fs, allocators) ==
  LET left == {fn \in allocators : ReturnsFresh(fs[fn], allocators)}
  IN IF left = allocators THEN left ELSE AllocatorLike(fs, left)

\* The locals that hold a fresh object after statement st: any use ends that.
FreshAfter(allocators, fresh, st) ==
  LET unused == fresh \ ToSet(st.args)
  IN IF st.op \in {"new", "newarray"} \/ (st.op = "call" /\ st.name \in allocators)
     THEN unused \cup ({st.dest} \ {None})
     ELSE unused \ {st.dest}
FreshThrough(allocators, fresh, stmts) ==
  FoldLeft(LAMBDA s, st : FreshAfter(allocators, s, st), fresh, stmts)
\* Fresh at the start of a block: what is so at the end of all its predecessors.
RECURSIVE FreshAtEntry(_, _, _)
FreshAtEntry(allocators, f, entry) ==
  LET out == [b \in DOMAIN f.blocks |-> FreshThrough(allocators, entry[b], f.blocks[b].stmts)]
      next == [b \in DOMAIN f.blocks |->
                 LET preds == Predecessors(f, b)
                 IN {l \in UNION {out[q] : q \in preds} : \A q \in preds : l \in out[q]}]
  IN IF next = entry THEN entry ELSE FreshAtEntry(allocators, f, next)

\* The class's field and the static variable may both close a cycle.
StoresFreshOnly(allocators, f) ==
  LET entry == FreshAtEntry(allocators, f, [b \in DOMAIN f.blocks |-> {}])
  IN \A b \in DOMAIN f.blocks : \A i \in DOMAIN f.blocks[b].stmts :
       LET st == f.blocks[b].stmts[i]
       IN st.op \in {"putfield", "putstatic"} =>
            Last(st.args) \in FreshThrough(allocators, entry[b], SubSeq(f.blocks[b].stmts, 1, i - 1)) \cup {Null}

ShapeProvesAcyclic(fs) ==
  LET allocators == AllocatorLike(fs, DOMAIN fs)
  IN \A fn \in DOMAIN fs : StoresFreshOnly(allocators, fs[fn])
=============================================================================
