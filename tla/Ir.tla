-------------------------------- MODULE Ir --------------------------------
(***************************************************************************)
(* The mid-level representation (crates/ir/src/lib.rs): functions of basic *)
(* blocks with an explicit terminator, locals in place of an operand stack.*)
(* A local has the type its kind says.  Blocks are numbered from 1.        *)
(***************************************************************************)
EXTENDS Integers, Sequences, FiniteSets, SequencesExt

\* A local: the splice it was renamed by (0 in the function it was made for), the
\* map of the frontend that names it, and its key in that map.
Local(kind, n) == <<0, kind, n>>
Null == Local("null", 0)      \* the operand ConstNull
None == Local("none", 0)      \* no destination
Const(v) == Local("const", v)     \* ConstI32
LConst(v) == Local("lconst", v)   \* ConstI64
IsConst(l) == l[2] \in {"const", "lconst"}
IsLocal(l) == l[2] \notin {"null", "none", "const", "lconst"}
IsRef(l) == l[2] \in {"slot", "stack"}
IsLong(l) == l[2] \in {"lslot", "lstack", "lconst"}
IsInt(l) == IsLocal(l) /\ ~IsRef(l)       \* i32 or i64
Renamed(l, k) == IF IsLocal(l) THEN <<k, l[2], l[3]>> ELSE l

Statement(op, dest, args, name) == [op |-> op, dest |-> dest, args |-> args, name |-> name]
Use(d, o) == Statement("use", d, <<o>>, "")
Call(d, fn, args) == Statement("call", d, args, fn)
New(d) == Statement("new", d, <<>>, "")
GetField(d, o, key) == Statement("getfield", d, <<o>>, key)
PutField(o, v, key) == Statement("putfield", None, <<o, v>>, key)
GetStatic(d) == Statement("getstatic", d, <<>>, "")
PutStatic(v) == Statement("putstatic", None, <<v>>, "")
\* The comparisons have the results 0 and 1.
Comparisons == {"eq", "ne", "lt", "ge", "gt", "le"}
Binary(fn, d, a, b) == Statement("binary", d, <<a, b>>, fn)
Convert(d, o) == Statement("convert", d, <<o>>, "")
\* A comparison of integers that are not modelled.
Compare(d) == Statement("compare", d, <<>>, "")
\* Arrays of integers; an access is checked or unchecked.
NewArray(d, n) == Statement("newarray", d, <<n>>, "")
ArrayLen(d, a) == Statement("arraylen", d, <<a>>, "")
ArrayLoad(d, a, i) == Statement("arrayload", d, <<a, i>>, "checked")
ArrayStore(a, i, v) == Statement("arraystore", None, <<a, i, v>>, "checked")

Goto(b) == [op |-> "goto", args |-> <<>>, to |-> <<b>>]
Branch(c, b, e) == [op |-> "branch", args |-> <<c>>, to |-> <<b, e>>]
Return(args) == [op |-> "return", args |-> args, to |-> <<>>]

BasicBlock(stmts, term) == [stmts |-> stmts, term |-> term]

AllStatements(f) == UNION {ToSet(f.blocks[b].stmts) : b \in DOMAIN f.blocks}
Destinations(f) == {st.dest : st \in AllStatements(f)} \ {None}
Operands(f) == UNION {ToSet(st.args) : st \in AllStatements(f)}
               \cup UNION {ToSet(f.blocks[b].term.args) : b \in DOMAIN f.blocks}
Locals(f) == {l \in ToSet(f.params) \cup Destinations(f) \cup Operands(f) : IsLocal(l)}
RefLocals(f) == {l \in Locals(f) : IsRef(l)}

\* The same statement may stand in several places, so uses are counted by position.
Occurrences(s, l) == Cardinality({i \in DOMAIN s : s[i] = l})
UseCount(f, l) ==
  LET InBlock(bb) == Occurrences(bb.term.args, l)
                     + FoldLeft(LAMBDA n, st : n + Occurrences(st.args, l), 0, bb.stmts)
  IN FoldLeft(LAMBDA n, bb : n + InBlock(bb), 0, f.blocks)

Predecessors(f, b) == {p \in DOMAIN f.blocks : b \in ToSet(f.blocks[p].term.to)}
Size(f) == FoldLeft(LAMBDA n, bb : n + Len(bb.stmts), 0, f.blocks)
=============================================================================
