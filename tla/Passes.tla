------------------------------- MODULE Passes -------------------------------
(***************************************************************************)
(* The optimisation passes that change which references are copied, checked*)
(* and counted, in the order the driver runs them: redundant copies of     *)
(* references (crates/solver/src/refcopy.rs), tests for pending exceptions *)
(* (pending.rs), calls of small functions (inline.rs).                     *)
(***************************************************************************)
EXTENDS Ir, TLC

CONSTANT TooLarge   \* functions whose code, most of it not modelled, is over SIZE_LIMIT
SIZE_LIMIT == 16
PER_CALLER_LIMIT == 64

RuntimeFunctions == {"jrt_take_pending", "jrt_pending_set", "jrt_lcmp", "jrt_idiv", "jrt_irem"}
ThrowingRuntime == {"jrt_idiv", "jrt_irem"}

----------------------------------------------------------------------------
(* refcopy: a copy s -> d is dropped where value numbering shows that d     *)
(* holds the value of s already.  A value is named by where it comes from;  *)
(* the parameters are known where no block precedes, as the source has it.  *)

Undefined(l) == <<"undefined", l>>
Value(env, l) == IF l \in DOMAIN env THEN env[l] ELSE Undefined(l)

DefSym(st, env, b, i) ==
  IF st.op # "use" THEN <<"def", b, i>>
  ELSE IF st.args[1] = Null THEN <<"null">>
  ELSE Value(env, st.args[1])

AfterStatement(f, b, env, i) ==
  LET st == f.blocks[b].stmts[i]
  IN IF IsRef(st.dest) THEN (st.dest :> DefSym(st, env, b, i)) @@ env ELSE env

\* The numbering before statement n of block b; with n past the last one, after the block.
TransferBlock(f, b, env, n) ==
  FoldLeft(LAMBDA e, i : AfterStatement(f, b, e, i), env, [i \in 1..(n-1) |-> i])

\* Mutant: where predecessors disagree, or one has no value, any value will do.
MergeAny(f, b, out) ==
  LET preds == Predecessors(f, b)
      Incoming(l) == {Value(out[p], l) : p \in {q \in preds : l \in DOMAIN out[q]}}
  IN IF preds = {} THEN [l \in ToSet(f.params) |-> <<"param", l>>]
     ELSE [l \in UNION {DOMAIN out[p] : p \in preds} |-> CHOOSE v \in Incoming(l) : TRUE]
\* The numbering a block is entered with: the value all its predecessors agree on, or a phi.
MergeIn(f, b, out) ==
  LET preds == Predecessors(f, b)
      Incoming(l) == {Value(out[p], l) : p \in preds}
      defined == UNION {DOMAIN out[p] : p \in preds}
      Agreed(l) == /\ \A p \in preds : l \in DOMAIN out[p]
                   /\ Cardinality(Incoming(l)) = 1
  IN IF preds = {} THEN [l \in ToSet(f.params) |-> <<"param", l>>]
     ELSE [l \in defined |-> IF Agreed(l) THEN CHOOSE v \in Incoming(l) : TRUE
                                          ELSE <<"phi", b, l>>]

\* The fixpoint; a round visits the blocks in order and uses what it has just found.  After
\* so many rounds the search is given up.
ROUNDS == 200
RECURSIVE Numbering(_, _, _)
Numbering(f, out, rounds) ==
  LET Visit(o, b) ==
        (b :> TransferBlock(f, b, MergeIn(f, b, o), Len(f.blocks[b].stmts) + 1)) @@ o
      next == FoldLeft(Visit, out, [b \in DOMAIN f.blocks |-> b])
  IN IF next = out \/ rounds = 1 THEN [converged |-> next = out, out |-> next]
     ELSE Numbering(f, next, rounds - 1)

\* What flows into each phi that has a value on every edge.
PhiInputs(f, out) ==
  LET phis == {phi \in UNION {{<<b, l>> : l \in DOMAIN MergeIn(f, b, out)} : b \in DOMAIN f.blocks} :
                 /\ MergeIn(f, phi[1], out)[phi[2]] = <<"phi", phi[1], phi[2]>>
                 /\ \A p \in Predecessors(f, phi[1]) : phi[2] \in DOMAIN out[p]}
      Key(phi) == <<"phi", phi[1], phi[2]>>
  IN [k \in {Key(phi) : phi \in phis} |-> {out[p][k[3]] : p \in Predecessors(f, k[2])}]

\* A phi all of whose other inputs are one value is that value.
Canon(repr, v) == IF v \in DOMAIN repr THEN repr[v] ELSE v
RECURSIVE ComputeRepr(_, _)
ComputeRepr(inputs, repr) ==
  LET Distinct(phi) == {Canon(repr, v) : v \in inputs[phi]} \ {phi}
      collapsible == {phi \in DOMAIN inputs : phi \notin DOMAIN repr /\ Cardinality(Distinct(phi)) = 1}
  IN IF collapsible = {} THEN repr
     ELSE LET phi == CHOOSE x \in collapsible : TRUE
              to == CHOOSE v \in Distinct(phi) : TRUE
          IN ComputeRepr(inputs, (phi :> to) @@ [x \in DOMAIN repr |->
                                                   IF repr[x] = phi THEN to ELSE repr[x]])

ElideRefCopies(f) ==
  LET numbered == Numbering(f, [b \in DOMAIN f.blocks |-> <<>>], ROUNDS)
      out == numbered.out
      repr == ComputeRepr(PhiInputs(f, out), <<>>)
      Redundant(b, i) ==
        LET st == f.blocks[b].stmts[i]
            env == TransferBlock(f, b, MergeIn(f, b, out), i)
        IN /\ st.op = "use" /\ IsRef(st.dest) /\ IsRef(st.args[1])
           /\ st.dest \in DOMAIN env /\ st.args[1] \in DOMAIN env
           /\ Canon(repr, env[st.dest]) = Canon(repr, env[st.args[1]])
      Kept(b) == LET s == f.blocks[b].stmts
                     keep == SelectSeq([i \in DOMAIN s |-> i], LAMBDA i : ~Redundant(b, i))
                 IN [n \in DOMAIN keep |-> s[keep[n]]]
  IN IF ~numbered.converged THEN f
     ELSE [f EXCEPT !.blocks = [b \in DOMAIN f.blocks |-> BasicBlock(Kept(b), f.blocks[b].term)]]

----------------------------------------------------------------------------
(* pending: the test after a block that cannot throw is dropped.            *)

Copies(f) == {st \in AllStatements(f) : st.op = "use" /\ IsLocal(st.args[1])}
RECURSIVE WithCopies(_, _)
WithCopies(f, ls) ==
  LET more == ls \cup {st.dest : st \in {c \in Copies(f) : c.args[1] \in ls}}
  IN IF more = ls THEN ls ELSE WithCopies(f, more)

\* Results of New and their copies, without those that some other statement defines.
NonNullLocals(f) ==
  LET nn == WithCopies(f, {st.dest : st \in {n \in AllStatements(f) : n.op = "new"}})
      NonNull(st) == st.op = "new" \/ (st \in Copies(f) /\ st.args[1] \in nn)
  IN nn \ {st.dest : st \in {s \in AllStatements(f) : ~NonNull(s)}}

\* Mutant: a store through null is not counted among what throws.
CanThrowLoads(st, throwFree, nn) ==
  \/ st.op = "call" /\ st.name \notin throwFree \cup (RuntimeFunctions \ ThrowingRuntime)
  \/ st.op = "getfield" /\ st.args[1] \notin nn
  \/ st.op \in {"arrayload", "arraystore"} /\ st.name = "checked"
  \/ st.op = "arraylen"
CanThrow(st, throwFree, nn) ==
  \/ st.op = "call" /\ st.name \notin throwFree \cup (RuntimeFunctions \ ThrowingRuntime)
  \/ st.op \in {"getfield", "putfield"} /\ st.args[1] \notin nn
  \/ st.op \in {"arrayload", "arraystore"} /\ st.name = "checked"
  \/ st.op = "arraylen"

RECURSIVE ThrowFree(_, _)
ThrowFree(fs, free) ==
  LET Free(f) == LET nn == NonNullLocals(f)
                 IN \A st \in AllStatements(f) : ~CanThrow(st, free, nn)
      still == {fn \in free : Free(fs[fn])}
  IN IF still = free THEN free ELSE ThrowFree(fs, still)

ElidePendingIn(f, throwFree) ==
  LET nn == NonNullLocals(f)
      Elided(bb) == BasicBlock(Front(bb.stmts), Goto(bb.term.to[2]))
      Dead(bb) == /\ bb.stmts # <<>> /\ Last(bb.stmts).name = "jrt_pending_set"
                  /\ bb.term.op = "branch" /\ bb.term.args[1] = Last(bb.stmts).dest
                  /\ \A st \in ToSet(Front(bb.stmts)) : ~CanThrow(st, throwFree, nn)
  IN [f EXCEPT !.blocks = 
       [b \in DOMAIN f.blocks |-> LET bb == f.blocks[b] IN IF Dead(bb) THEN Elided(bb) ELSE bb]]

ElidePending(fs) ==
  LET throwFree == ThrowFree(fs, DOMAIN fs)
  IN [fn \in DOMAIN fs |-> ElidePendingIn(fs[fn], throwFree)]

----------------------------------------------------------------------------
(* inline: a call of a small function that does not call itself is replaced *)
(* by the function's blocks.                                                *)

Calls(f) == {st.name : st \in {s \in AllStatements(f) : s.op = "call"}}
Candidates(fs) == {fn \in DOMAIN fs \ TooLarge : Size(fs[fn]) <= SIZE_LIMIT /\ fn \notin Calls(fs[fn])}

\* Blocks of the k-th function spliced in, its first one at place `first`, those it
\* returns from going to `cont` with the result in `dest`.
SpliceCallee(callee, dest, k, first, cont) ==
  LET Ren(ls) == [i \in DOMAIN ls |-> Renamed(ls[i], k)]
      Moved(st) == [st EXCEPT !.dest = Renamed(@, k), !.args = Ren(@)]
      Term(t) == IF t.op = "return" THEN Goto(cont)
                 ELSE [t EXCEPT !.args = Ren(@), !.to = [i \in DOMAIN @ |-> @[i] + first - 1]]
      Result(t) == IF t.op = "return" /\ t.args # <<>> THEN <<Use(dest, Renamed(t.args[1], k))>>
                   ELSE <<>>
  IN [b \in DOMAIN callee.blocks |->
        LET bb == callee.blocks[b]
        IN BasicBlock([i \in DOMAIN bb.stmts |-> Moved(bb.stmts[i])] \o Result(bb.term),
                      Term(bb.term))]

\* The block is split at statement i, a call of `callee`.
Splice(f, b, i, callee, k) ==
  LET bb == f.blocks[b]
      call == bb.stmts[i]
      first == Len(f.blocks) + 1
      cont == first + Len(callee.blocks)
      args == [a \in DOMAIN call.args |-> Use(Renamed(callee.params[a], k), call.args[a])]
      head == BasicBlock(SubSeq(bb.stmts, 1, i - 1) \o args, Goto(first))
      tail == BasicBlock(SubSeq(bb.stmts, i + 1, Len(bb.stmts)), bb.term)
  IN [f EXCEPT !.blocks = [f.blocks EXCEPT ![b] = head]
                          \o SpliceCallee(callee, call.dest, k, first, cont) \o <<tail>>]

\* The call sites in the order find_call_site meets them: the first is spliced, up to
\* the limit per caller.
RECURSIVE InlineInto(_, _, _, _)
InlineInto(fs, fn, f, k) ==
  LET IsSite(b, i) == /\ f.blocks[b].stmts[i].op = "call"
                      /\ f.blocks[b].stmts[i].name \in Candidates(fs) \ {fn}
      blocks == {b \in DOMAIN f.blocks : \E i \in DOMAIN f.blocks[b].stmts : IsSite(b, i)}
  IN IF blocks = {} \/ k > PER_CALLER_LIMIT THEN f
     ELSE LET b == Min(blocks)
              i == Min({n \in DOMAIN f.blocks[b].stmts : IsSite(b, n)})
          IN InlineInto(fs, fn, Splice(f, b, i, fs[f.blocks[b].stmts[i].name], k), k + 1)

InlineProgram(fs) == [fn \in DOMAIN fs |-> InlineInto(fs, fn, fs[fn], 1)]
=============================================================================
