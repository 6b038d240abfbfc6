------------------------------ MODULE Lowering ------------------------------
(***************************************************************************)
(* lower_method and lower_block of the frontend: bytecode to basic blocks. *)
(* Every JVM variable and every stack depth has one local per type, so the *)
(* value at depth d is always in the same local.  An instruction that may  *)
(* throw ends its block, which tests for a pending exception and goes to   *)
(* the handler or to a last block that leaves the function.                *)
(***************************************************************************)
EXTENDS Ir, TLC

Slot(n) == Local("slot", n)
Depth(d) == Local("stack", d)
\* Integers: int and long.
ISlot(n) == Local("islot", n)
IDepth(d) == Local("istack", d)
LSlot(n) == Local("lslot", n)
LDepth(d) == Local("lstack", d)
Condition(pc) == Local("cond", pc)
FieldKey == "f"

Throws(op) == op \in {"invokestatic", "invokespecial", "getfield", "putfield", "idiv", "irem",
                     "arraylength", "iaload", "iastore"}
Branches(op) == op \in {"ifnull", "if", "if_icmp", "ifcmp"}
Jumps(op) == op = "goto" \/ Branches(op)

\* The addresses at which blocks start.
Leaders(m) ==
  {1} \cup {m.code[i].n : i \in {i \in DOMAIN m.code : Jumps(m.code[i].op)}}
      \cup {i + 1 : i \in {i \in 1..(Len(m.code) - 1) :
                             LET op == m.code[i].op
                             IN Jumps(op) \/ Throws(op) \/ op \in {"areturn", "return"}}}
      \cup {m.handlers[h].at : h \in DOMAIN m.handlers}
Starts(m) == SelectSeq([i \in DOMAIN m.code |-> i], LAMBDA i : i \in Leaders(m))
BlockOf(m, pc) == CHOOSE b \in DOMAIN Starts(m) : Starts(m)[b] = pc
HandlerBlocks(m) == {BlockOf(m, m.handlers[h].at) : h \in DOMAIN m.handlers}

\* The block exceptions that leave the method go to, after all others.
Propagate(m) == Len(Starts(m)) + 1
\* The handlers of the model catch everything, so the first that covers pc is it.
ExceptionTarget(m, pc) ==
  LET hs == SelectSeq(m.handlers, LAMBDA h : h.from <= pc /\ pc < h.to)
  IN IF hs = <<>> THEN Propagate(m) ELSE BlockOf(m, hs[1].at)

Division == [idiv |-> "jrt_idiv", irem |-> "jrt_irem"]

\* The statements of one instruction i at stack depth d, and the depth after it.
Emitted(stmts, depth) == [stmts |-> stmts, depth |-> depth]

LoadsAndStores == {"aload", "astore", "iload", "istore", "lload", "lstore", "iconst", "lconst",
                   "aconst_null", "dup", "pop"}
LoweredMove(i, d) ==
  CASE i.op = "aload" -> Emitted(<<Use(Depth(d), Slot(i.n))>>, d + 1)
    [] i.op = "astore" -> Emitted(<<Use(Slot(i.n), Depth(d-1))>>, d - 1)
    [] i.op = "iload" -> Emitted(<<Use(IDepth(d), ISlot(i.n))>>, d + 1)
    [] i.op = "istore" -> Emitted(<<Use(ISlot(i.n), IDepth(d-1))>>, d - 1)
    [] i.op = "lload" -> Emitted(<<Use(LDepth(d), LSlot(i.n))>>, d + 1)
    [] i.op = "lstore" -> Emitted(<<Use(LSlot(i.n), LDepth(d-1))>>, d - 1)
    [] i.op = "iconst" -> Emitted(<<Use(IDepth(d), Const(i.n))>>, d + 1)
    [] i.op = "lconst" -> Emitted(<<Use(LDepth(d), LConst(i.n))>>, d + 1)
    [] i.op = "aconst_null" -> Emitted(<<Use(Depth(d), Null)>>, d + 1)
    [] i.op = "dup" -> Emitted(<<Use(Depth(d), Depth(d-1))>>, d + 1)
    [] i.op = "pop" -> Emitted(<<>>, d - 1)

\* A division is a call of the runtime: it may throw.
Operators == {"ibinary", "lbinary", "iinc", "idiv", "irem", "lcmp", "i2l", "l2i"}
LoweredOperator(i, d) ==
  CASE i.op = "ibinary" -> Emitted(<<Binary(i.fn, IDepth(d-2), IDepth(d-2), IDepth(d-1))>>, d - 1)
    [] i.op = "lbinary" -> Emitted(<<Binary(i.fn, LDepth(d-2), LDepth(d-2), LDepth(d-1))>>, d - 1)
    [] i.op = "iinc" -> Emitted(<<Binary("add", ISlot(i.n), ISlot(i.n), Const(i.by))>>, d)
    [] i.op \in {"idiv", "irem"} ->
         Emitted(<<Call(IDepth(d-2), Division[i.op], <<IDepth(d-2), IDepth(d-1)>>)>>, d - 1)
    [] i.op = "lcmp" ->
         Emitted(<<Call(IDepth(d-2), "jrt_lcmp", <<LDepth(d-2), LDepth(d-1)>>)>>, d - 1)
    [] i.op = "i2l" -> Emitted(<<Convert(LDepth(d-1), IDepth(d-1))>>, d)
    [] i.op = "l2i" -> Emitted(<<Convert(IDepth(d-1), LDepth(d-1))>>, d)

\* What an instruction that ends its block leaves to the terminator: the condition of pc.
LoweredControl(i, pc, d) ==
  CASE i.op = "if_icmp" -> Emitted(<<Binary(i.fn, Condition(pc), IDepth(d-2), IDepth(d-1))>>, d - 2)
    [] i.op = "if" -> Emitted(<<Binary(i.fn, Condition(pc), IDepth(d-1), Const(0))>>, d - 1)
    [] i.op = "ifnull" -> Emitted(<<Binary(i.fn, Condition(pc), Depth(d-1), Null)>>, d - 1)
    [] i.op = "ifcmp" -> Emitted(<<Compare(Condition(pc))>>, d)
    [] i.op = "areturn" -> Emitted(<<>>, d - 1)
    [] i.op \in {"return", "goto"} -> Emitted(<<>>, d)

Arrays == {"newarray", "arraylength", "iaload", "iastore"}
LoweredArray(i, d) ==
  CASE i.op = "newarray" -> Emitted(<<NewArray(Depth(d-1), IDepth(d-1))>>, d)
    [] i.op = "arraylength" -> Emitted(<<ArrayLen(IDepth(d-1), Depth(d-1))>>, d)
    [] i.op = "iaload" -> Emitted(<<ArrayLoad(IDepth(d-2), Depth(d-2), IDepth(d-1))>>, d - 1)
    [] i.op = "iastore" -> Emitted(<<ArrayStore(Depth(d-3), IDepth(d-2), IDepth(d-1))>>, d - 3)

\* Object.<init> is not a class of the program: its call is omitted.
LoweredObject(i, d) ==
  CASE i.op = "new" -> Emitted(<<New(Depth(d))>>, d + 1)
    [] i.op = "invokespecial" -> Emitted(<<>>, d - 1)
    [] i.op = "getfield" -> Emitted(<<GetField(Depth(d-1), Depth(d-1), FieldKey)>>, d)
    [] i.op = "putfield" -> Emitted(<<PutField(Depth(d-2), Depth(d-1), FieldKey)>>, d - 2)
    [] i.op = "getstatic" -> Emitted(<<GetStatic(Depth(d))>>, d + 1)
    [] i.op = "putstatic" -> Emitted(<<PutStatic(Depth(d-1))>>, d - 1)
    [] i.op = "invokestatic" ->
         LET args == [a \in 1..i.n |-> Depth(d - i.n + a - 1)]
         IN IF i.void THEN Emitted(<<Call(None, i.fn, args)>>, d - i.n)
            ELSE Emitted(<<Call(Depth(d - i.n), i.fn, args)>>, d - i.n + 1)

Lowered(i, pc, d) ==
  CASE i.op \in LoadsAndStores -> LoweredMove(i, d)
    [] i.op \in Operators -> LoweredOperator(i, d)
    [] i.op \in Arrays -> LoweredArray(i, d)
    [] Jumps(i.op) \/ i.op \in {"areturn", "return"} -> LoweredControl(i, pc, d)
    [] OTHER -> LoweredObject(i, d)

\* throw_after: an omitted constructor call does not ask for the test.
MayThrow(op) == Throws(op) /\ op # "invokespecial"

LowerBlock(m, b, entry) ==
  LET first == Starts(m)[b]
      last == IF b < Len(Starts(m)) THEN Starts(m)[b+1] - 1 ELSE Len(m.code)
      handler == b \in HandlerBlocks(m)
      start == [stmts |-> IF handler THEN <<Call(Depth(0), "jrt_take_pending", <<>>)>> ELSE <<>>,
                depth |-> entry]
      body == FoldLeft(LAMBDA acc, k : LET l == Lowered(m.code[first + k - 1], first + k - 1, acc.depth)
                                       IN [stmts |-> acc.stmts \o l.stmts, depth |-> l.depth],
                       start, [k \in 1..(last - first + 1) |-> k])
      op == m.code[last].op
      Block(more, term) == [stmts |-> body.stmts \o more, term |-> term, depth |-> body.depth]
  IN CASE op = "areturn" -> Block(<<>>, Return(<<Depth(body.depth)>>))
       [] op = "return" -> Block(<<>>, Return(<<>>))
       [] op = "goto" -> Block(<<>>, Goto(BlockOf(m, m.code[last].n)))
       [] Branches(op) ->
            Block(<<>>, Branch(Condition(last), BlockOf(m, m.code[last].n), b + 1))
       [] MayThrow(op) ->
            Block(<<Call(Condition(last), "jrt_pending_set", <<>>)>>,
                  Branch(Condition(last), ExceptionTarget(m, last), b + 1))
       [] OTHER -> Block(<<>>, Goto(b + 1))

\* The worklist: a block is lowered once, with the stack depth its first visitor leaves;
\* handlers are entered with the exception alone.
RECURSIVE LowerReachable(_, _, _, _)
LowerReachable(m, todo, entry, done) ==
  IF todo = <<>> THEN done
  ELSE LET b == Last(todo)
       IN IF b \in DOMAIN done THEN LowerReachable(m, Front(todo), entry, done)
          ELSE LET bb == LowerBlock(m, b, entry[b])
                   succs == SelectSeq(bb.term.to, LAMBDA s : s < Propagate(m))
               IN LowerReachable(m, Front(todo) \o succs,
                                 entry @@ [s \in ToSet(succs) |-> bb.depth],
                                 b :> BasicBlock(bb.stmts, bb.term) @@ done)

LowerMethod(m) ==
  LET handlers == HandlerBlocks(m)
      done == LowerReachable(m, <<1>> \o SetToSeq(handlers),
                             [h \in handlers |-> 1] @@ (1 :> 0), <<>>)
  IN [params |-> [n \in DOMAIN m.params |-> Local(m.params[n], n-1)],
      blocks |-> [b \in 1..Propagate(m) |->
                    IF b = Propagate(m) THEN
                      BasicBlock(<<>>, Return(IF m.void THEN <<>> ELSE <<Null>>))
                    ELSE IF b \in DOMAIN done THEN done[b]
                    ELSE BasicBlock(<<>>, Return(<<>>))]]
=============================================================================
