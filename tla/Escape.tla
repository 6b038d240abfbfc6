------------------------------- MODULE Escape -------------------------------
(***************************************************************************)
(* Escape analysis (crates/solver/src/escape.rs): an object that nothing   *)
(* outside its function can refer to is placed in the function's frame, an *)
(* array of integers in the frame or in the function's region.  Neither is *)
(* counted, and both are gone when the function returns.                   *)
(***************************************************************************)
EXTENDS Passes

STACK_ARR_CAP == 3    \* elements of an array in the frame; 1024 in the source

----------------------------------------------------------------------------
(* Control flow and liveness. *)

\* The blocks that lie on a cycle.
CyclicBlocks(f) ==
  LET to[bs \in SUBSET DOMAIN f.blocks] ==
        LET more == bs \cup UNION {ToSet(f.blocks[b].term.to) : b \in bs}
        IN IF more = bs THEN bs ELSE to[more]
  IN {b \in DOMAIN f.blocks : b \in to[ToSet(f.blocks[b].term.to)]}

LocalsIn(args) == {l \in ToSet(args) : IsLocal(l)}
\* The locals live before statement i of block b, given those live after the block.
LiveBefore(f, b, i, after) ==
  LET stmts == f.blocks[b].stmts
  IN FoldRight(LAMBDA st, live : (live \ {st.dest}) \cup LocalsIn(st.args),
               SubSeq(stmts, i, Len(stmts)), after \cup LocalsIn(f.blocks[b].term.args))
RECURSIVE LiveAfterBlocks(_, _)
LiveAfterBlocks(f, after) ==
  LET next == FoldLeft(LAMBDA t, b : (b :> UNION {LiveBefore(f, s, 1, after[s]) : s \in ToSet(f.blocks[b].term.to)}) @@ t,
                       <<>>, [b \in DOMAIN f.blocks |-> b])
  IN IF next = after THEN after ELSE LiveAfterBlocks(f, next)
Liveness(f) == LiveAfterBlocks(f, [b \in DOMAIN f.blocks |-> {}])

----------------------------------------------------------------------------
(* Which parameters escape. *)

AliasSet(f, root) == WithCopies(f, {root})

ArgEscapes(fs, fn, j, summaries) == fn \in DOMAIN fs => <<fn, j>> \in summaries

\* A parameter escapes where it, or a copy, is passed on, stored or returned.
ParamEscapes(fs, fn, j, summaries) ==
  LET f == fs[fn]
      aliases == AliasSet(f, f.params[j])
  IN \/ \E st \in AllStatements(f) :
          \/ st.op = "call" /\ \E k \in DOMAIN st.args : st.args[k] \in aliases /\ ArgEscapes(fs, st.name, k, summaries)
          \/ st.op \in {"putfield", "putstatic", "arraystore"} /\ Last(st.args) \in aliases
     \/ \E b \in DOMAIN f.blocks : f.blocks[b].term.op = "return" /\ ToSet(f.blocks[b].term.args) \cap aliases # {}
RECURSIVE ParamSummaries(_, _)
ParamSummaries(fs, summaries) ==
  LET RefParams(fn) == {j \in DOMAIN fs[fn].params : IsRef(fs[fn].params[j])}
      more == UNION {{<<fn, j>> : j \in {k \in RefParams(fn) : ParamEscapes(fs, fn, k, summaries)}} : fn \in DOMAIN fs}
  IN IF more = summaries THEN summaries ELSE ParamSummaries(fs, more)

----------------------------------------------------------------------------
(* Which objects stay. *)

Allocation(f, s) == f.blocks[s[1]].stmts[s[2]]
IsObject(f, s) == Allocation(f, s).op = "new"
InFrame(st) == IsConst(st.args[1]) /\ st.args[1][3] <= STACK_ARR_CAP
\* Where objects are made that may stay: outside of loops an array of any length may.
News(f, cyclic) ==
  {s \in UNION {{b} \X DOMAIN f.blocks[b].stmts : b \in DOMAIN f.blocks} :
     LET st == Allocation(f, s)
     IN \/ st.op = "new"
        \/ /\ st.op = "newarray"
           /\ IsConst(st.args[1]) => st.args[1][3] > 0
           /\ InFrame(st) \/ s[1] \notin cyclic}

\* The objects that local l may hold.
ObjsOf(aliases, l) == {s \in DOMAIN aliases : l \in aliases[s]}

\* Objects that escape at statement st.  The class has a reference field, so that a callee
\* might store in it what is counted.
EscapeAt(fs, f, aliases, summaries, st) ==
  LET Objs(l) == ObjsOf(aliases, l)
      value == Last(st.args)
  IN CASE st.op = "call" ->
            UNION {{s \in Objs(st.args[j]) : IsObject(f, s) \/ ArgEscapes(fs, st.name, j, summaries)} :
                     j \in DOMAIN st.args}
       [] st.op \in {"putstatic", "arraystore"} -> Objs(value)
       [] st.op = "putfield" ->
            IF Objs(st.args[1]) = {} THEN Objs(value)
            ELSE IF Objs(value) = {} /\ IsLocal(value) /\ IsRef(value) THEN Objs(st.args[1])
            ELSE {}
       [] OTHER -> {}

\* Objects made in a loop that something else than the destination may still refer to from
\* the round before.
StillHeld(f, aliases, cyclic) ==
  LET after == Liveness(f)
  IN {s \in DOMAIN aliases : s[1] \in cyclic
        /\ (aliases[s] \ {Allocation(f, s).dest}) \cap LiveBefore(f, s[1], s[2], after[s[1]]) # {}}

Direct(fs, f, aliases, summaries, cyclic) ==
  UNION {EscapeAt(fs, f, aliases, summaries, st) : st \in AllStatements(f)}
  \cup UNION {UNION {ObjsOf(aliases, l) : l \in ToSet(f.blocks[b].term.args)} :
                b \in {c \in DOMAIN f.blocks : f.blocks[c].term.op = "return"}}
  \cup StillHeld(f, aliases, cyclic)

\* Mutant: a container that escapes does not take its content with it.
DirectlyEscaping(f, aliases, out) == out
\* Container and content stay together or not at all.
RECURSIVE Escaping(_, _, _)
Escaping(f, aliases, out) ==
  LET puts == {st \in AllStatements(f) : st.op = "putfield"}
      Linked(st) == {{v, o} : v \in ObjsOf(aliases, st.args[2]), o \in ObjsOf(aliases, st.args[1])}
      more == out \cup UNION {e \in UNION {Linked(st) : st \in puts} : e \cap out # {}}
  IN IF more = out THEN out ELSE Escaping(f, aliases, more)

StackAllocateIn(fs, f, summaries) ==
  LET cyclic == CyclicBlocks(f)
      aliases == [s \in News(f, cyclic) |-> AliasSet(f, Allocation(f, s).dest)]
      out == Escaping(f, aliases, Direct(fs, f, aliases, summaries, cyclic))
      Placed(st) == IF st.op = "new" THEN "stacknew" ELSE IF InFrame(st) THEN "stackarray" ELSE "regionarray"
      Rewritten(b, i) == LET st == f.blocks[b].stmts[i]
                         IN IF <<b, i>> \in DOMAIN aliases \ out THEN [st EXCEPT !.op = Placed(st)] ELSE st
  IN [f EXCEPT !.blocks =
        [b \in DOMAIN f.blocks |-> BasicBlock([i \in DOMAIN f.blocks[b].stmts |-> Rewritten(b, i)], f.blocks[b].term)]]

StackAllocate(fs) ==
  LET summaries == ParamSummaries(fs, {})
  IN [fn \in DOMAIN fs |-> StackAllocateIn(fs, fs[fn], summaries)]
=============================================================================
