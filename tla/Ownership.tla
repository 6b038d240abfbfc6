----------------------------- MODULE Ownership -----------------------------
(***************************************************************************)
(* The analyses by which the backend (crates/backend/src/lib.rs) decides,  *)
(* for every local that holds a reference, whether the local owns a count: *)
(* parameters that are never written and borrow slots own none, immortal   *)
(* ones hold nothing that is counted, moved ones hand their count on.      *)
(***************************************************************************)
EXTENDS Passes

\* The greatest subset of ls in which every statement that defines one is allowed,
\* given the subset itself.
Supported(f, ls, Allowed(_, _)) ==
  LET Greatest[c \in SUBSET ls] ==
        LET kept == c \ {st.dest : st \in {s \in AllStatements(f) : ~Allowed(s, c)}}
        IN IF kept = c THEN c ELSE Greatest[kept]
  IN Greatest[ls]

Candidate(f) == RefLocals(f) \ ToSet(f.params)

\* Objects and arrays in a frame or a region.
OffHeap == {"stacknew", "stackarray", "regionarray"}
PlacedArrays == {"stackarray", "regionarray"}

ImmortalOnlyLocals(f) ==
  LET Immortal(st, imm) == \/ st.op \in OffHeap
                           \/ st.op = "use" /\ st.args[1] \in imm \cup {Null}
                           \/ st.op = "getfield" /\ st.args[1] \in imm
  IN Supported(f, Candidate(f), Immortal)

\* The functions from which a statement of the kind can be reached by calls.
RECURSIVE WithCallers(_, _)
WithCallers(fs, fns) ==
  LET more == fns \cup {fn \in DOMAIN fs : Calls(fs[fn]) \cap fns # {}}
  IN IF more = fns THEN fns ELSE WithCallers(fs, more)
Writers(fs, op) == WithCallers(fs, {fn \in DOMAIN fs : \E st \in AllStatements(fs[fn]) : st.op = op})

\* Mutant: the writes of a function's own statements only, not those of its callees.
FieldWritesOfItsOwn(fs) ==
  {fn \in DOMAIN fs : \E st \in AllStatements(fs[fn]) : st.op = "putfield"}
\* One class with one field and one static field, no opaque call.
InstanceFieldWrites(fs) == Writers(fs, "putfield")
\* Mutant: the same for static variables.
StaticWritesOfItsOwn(fs) ==
  {fn \in DOMAIN fs : \E st \in AllStatements(fs[fn]) : st.op = "putstatic"}
StaticWriteEffects(fs) == Writers(fs, "putstatic")

BorrowSlots(fs, fn, borrowed) ==
  LET writesField == fn \in InstanceFieldWrites(fs)
      writesStatic == fn \in StaticWriteEffects(fs)
      Stable(o, b) == o \in borrowed \cup b
      Borrows(st, b) ==
        \/ st.op \in PlacedArrays
        \/ st.op = "use" /\ (st.args[1] = Null \/ Stable(st.args[1], b))
        \/ st.op = "getstatic" /\ ~writesStatic
        \/ st.op = "getfield" /\ ~writesField /\ Stable(st.args[1], b)
  IN Supported(fs[fn], Candidate(fs[fn]), Borrows)

\* The computation of the pass, but new arrays on the heap count.
NonNull(f) ==
  LET Fresh(st) == st.op \in {"new", "stacknew", "newarray"}
      nn == WithCopies(f, {st.dest : st \in {n \in AllStatements(f) : Fresh(n)}})
      Sure(st) == Fresh(st) \/ st.op \in PlacedArrays \/ (st \in Copies(f) /\ st.args[1] \in nn)
  IN nn \ {st.dest : st \in {s \in AllStatements(f) : ~Sure(s)}}

WrittenLocals(f) == {st.dest : st \in {s \in AllStatements(f) : s.op \notin PlacedArrays}} \ {None}
BorrowedParams(f) == ToSet(f.params) \ WrittenLocals(f)

Owned(f) == {st.dest : st \in {s \in AllStatements(f) : s.op \in {"call", "new", "newarray"} \cup OffHeap}}
Consumed(f) == {st.args[2] : st \in {s \in AllStatements(f) : s.op = "putfield"}}
               \cup UNION {ToSet(f.blocks[b].term.args) : b \in {b \in DOMAIN f.blocks :
                                                              f.blocks[b].term.op = "return"}}
\* Mutant: a local is moved however often it is used.
MovedHoweverUsed(f, excluded) == (Candidate(f) \cap Owned(f) \cap Consumed(f)) \ excluded
MovedLocals(f, excluded) ==
  {l \in (Candidate(f) \cap Owned(f) \cap Consumed(f)) \ excluded : UseCount(f, l) = 1}

\* A function with what emit_function knows of its locals.
Analysed(fs, fn) ==
  LET f == fs[fn]
      borrowed == BorrowedParams(f)
      imm == ImmortalOnlyLocals(f)
      borrow == BorrowSlots(fs, fn, borrowed)
  IN [params |-> f.params, blocks |-> f.blocks, locals |-> Locals(f), borrowed |-> borrowed,
      imm |-> imm, borrow |-> borrow, nn |-> NonNull(f),
      moved |-> MovedLocals(f, borrowed \cup imm \cup borrow)]
=============================================================================
