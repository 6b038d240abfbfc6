-------------------------------- MODULE Jvm --------------------------------
(***************************************************************************)
(* What a Java program means: the bytecode javac makes of small programs   *)
(* and the outcome the Java virtual machine gives them.  Neither is code   *)
(* of the repository; the compiler takes the one and promises the other.   *)
(*                                                                         *)
(* A program has a static method main, at most one other with a parameter, *)
(* and make(), which returns a new object.  The other one is small(q) or   *)
(* large(q), or a void method, touch(q), act(q) or, of an array, fill(q).  *)
(* Objects have one field and the constructor javac gives them, init;      *)
(* arrays have integers as elements.                                       *)
(***************************************************************************)
EXTENDS Operators, Sequences, SequencesExt, TLC

CONSTANTS MaxObj,      \* objects a run may allocate, those of the initial heap included
          MAX_STEPS,   \* instructions a run may execute
          MAX_CHOICES  \* comparisons of integers that are not modelled a run may make

NULL == 0
Obj == 1..MaxObj
\* The exceptions of the runtime.
NPE == MaxObj + 1
BOUNDS == MaxObj + 2
ARITHMETIC == MaxObj + 3
NEGATIVE_SIZE == MaxObj + 4
Exceptions == NPE..NEGATIVE_SIZE

Ins(op, fn, n) == [op |-> op, fn |-> fn, n |-> n, by |-> 0, void |-> FALSE]
Op(op) == Ins(op, "", 0)
Arity(fn) == IF fn = "make" THEN 0 ELSE 1
IsVoid(fn) == fn \in {"touch", "act", "fill", "init"}
Invoke(fn) == [Ins("invokestatic", fn, Arity(fn)) EXCEPT !.void = IsVoid(fn)]

----------------------------------------------------------------------------
(* What javac compiles. *)

\* Callees the inliner takes and such as are too large for it.
Callees == {"small", "large", "touch", "act", "fill"}

\* An expression: its kind, a variable or a number, its operands.
X(k, v, es) == [k |-> k, v |-> v, es |-> es]
E(k, v) == X(k, v, <<>>)
RECURSIVE Expression(_)
Expression(e) ==
  FlattenSeq([i \in DOMAIN e.es |-> Expression(e.es[i])]) \o
  CASE e.k = "operands" -> <<>>
    [] e.k = "var" -> <<Ins("aload", "", e.v)>>
    [] e.k = "null" -> <<Op("aconst_null")>>
    [] e.k = "make" -> <<Invoke("make")>>
    [] e.k = "new" -> <<Op("new"), Op("dup"), Invoke("init")>>
    [] e.k = "field" -> <<Ins("aload", "", e.v), Op("getfield")>>
    [] e.k = "static" -> <<Op("getstatic")>>
    [] e.k \in Callees -> <<Ins("aload", "", e.v), Invoke(e.k)>>
    [] e.k \in {"iload", "lload", "iconst", "lconst"} -> <<Ins(e.k, "", e.v)>>
    [] e.k \in {"add", "sub", "mul", "and", "shr", "ushr"} -> <<Ins("ibinary", e.k, 0)>>
    [] e.k = "lcmp" -> <<Op("lcmp")>>    \* other compilers than javac use its value
    [] e.k = "ladd" -> <<Ins("lbinary", "add", 0)>>
    [] e.k \in {"idiv", "irem", "i2l", "l2i", "arraylength", "iaload", "newarray"} -> <<Op(e.k)>>

\* A condition on two integers, two longs or a reference, or one that is not modelled;
\* Jump(c, holds, n) is how its code ends: it goes to n when it holds, or does not.
Cond(k, fn, es) == [k |-> k, fn |-> fn, es |-> es]
OperandsOf(c) == X("operands", 0, c.es)
Opposite == [eq |-> "ne", ne |-> "eq", lt |-> "ge", ge |-> "lt", gt |-> "le", le |-> "gt"]
Jump(c, holds, n) ==
  LET fn == IF holds \/ c.k = "any" THEN c.fn ELSE Opposite[c.fn]
  IN CASE c.k = "any" -> <<Ins("ifcmp", "", n)>>
       [] c.k \in {"if_icmp", "if", "ifnull"} -> <<Ins(c.k, fn, n)>>
       [] c.k = "lcmp" -> <<Op("lcmp"), Ins("if", fn, n)>>

\* v = e, v.f = e, S = e, e as a statement, a[i] = e; a statement of statements.
St(k, v, e, c, body) == [k |-> k, v |-> v, e |-> e, c |-> c, body |-> body]
Unknown == Cond("any", "", <<>>)
S(k, v, e) == St(k, v, e, Unknown, <<>>)
\* Its code around that of e.
Before(s) == IF s.k \in {"field", "element"} THEN <<Ins("aload", "", s.v)>> ELSE <<>>
After(s) ==
  CASE s.k = "skip" \/ (s.k = "eval" /\ IsVoid(s.e.k)) -> <<>>
    [] s.k = "var" -> <<Ins("astore", "", s.v)>>
    [] s.k = "field" -> <<Op("putfield")>>
    [] s.k = "static" -> <<Op("putstatic")>>
    [] s.k = "eval" /\ ~IsVoid(s.e.k) -> <<Op("pop")>>
    [] s.k \in {"istore", "lstore"} -> <<Ins(s.k, "", s.v)>>
    [] s.k = "iinc" -> <<[Ins("iinc", "", s.v) EXCEPT !.by = s.e.v]>>
    [] s.k = "element" -> <<Op("iastore")>>

\* do body while (c); / if (c) body / while (c) body / try body catch (Exception e) {}
While(c, body) == St("while", 0, E("null", 0), c, body)
If(c, body) == St("if", 0, E("null", 0), c, body)
Do(c, body) == St("do", 0, E("null", 0), c, body)
Try(body) == St("try", 0, E("null", 0), Unknown, body)

\* Code at the address `at`, and the handlers of everything the bodies of try can throw.
Out(code, handlers) == [code |-> code, handlers |-> handlers]
RECURSIVE Compiled(_, _)
Compiled(ss, at) ==
  LET \* at the address `here`; e is the code of its expression or of its condition's operands
      One(s, here, e) ==
        LET test == Len(e) + Len(Jump(s.c, TRUE, 0))
            body == Compiled(s.body, IF s.k \in {"while", "if"} THEN here + test ELSE here)
            n == Len(body.code)
        IN CASE s.k = "do" -> Out(body.code \o e \o Jump(s.c, TRUE, here), body.handlers)
             [] s.k = "if" -> Out(e \o Jump(s.c, FALSE, here + test + n) \o body.code, body.handlers)
             [] s.k = "while" ->
                  Out(e \o Jump(s.c, FALSE, here + test + n + 1) \o body.code \o <<Ins("goto", "", here)>>,
                      body.handlers)
             [] s.k = "try" ->
                  Out(body.code \o <<Ins("goto", "", here + n + 2), Op("pop")>>,
                      Append(body.handlers, [from |-> here, to |-> here + n, at |-> here + n + 1]))
             [] OTHER -> Out(Before(s) \o e \o After(s), <<>>)
      Evaluated(s) == Expression(CASE s.k \in {"do", "if", "while"} -> OperandsOf(s.c)
                                   [] s.k \in {"skip", "iinc", "try"} -> OperandsOf(Unknown)
                                   [] OTHER -> s.e)
      Then(done, s) == LET next == One(s, at + Len(done.code), Evaluated(s))
                       IN Out(done.code \o next.code, done.handlers \o next.handlers)
  IN FoldLeft(Then, Out(<<>>, <<>>), ss)

\* A method: the kinds of its parameters, its statements, how it ends.
Method(m) ==
  LET body == Compiled(m.body, 1)
      last == IF m.void THEN <<Op("return")>> ELSE Expression(m.returns) \o <<Op("areturn")>>
  IN [params |-> m.params, code |-> body.code \o last, handlers |-> body.handlers, void |-> m.void]
Source(params, body, void, returns) == [params |-> params, body |-> body, void |-> void, returns |-> returns]
\* main(p, n) { ss; return e; }, fn(q) { ts; return r; }, make() { return new; };
\* a void fn(q) is { ts; }; the constructor calls Object's.
JavaProgram(ss, e, fn, ts, r) ==
  LET methods == "main" :> Source(<<"slot", "islot">>, ss, FALSE, e)
                 @@ fn :> Source(<<"slot">>, ts, IsVoid(fn), r)
                 @@ "make" :> Source(<<>>, <<>>, FALSE, E("new", 0))
  IN [m \in DOMAIN methods |-> Method(methods[m])]
     @@ "init" :> [params |-> <<"slot">>, code |-> <<Ins("aload", "", 0), Op("invokespecial"), Op("return")>>,
                   handlers |-> <<>>, void |-> TRUE]

----------------------------------------------------------------------------
(* What the virtual machine does with it. *)

Variables == 0..4
Frame(fn, args) == [fn |-> fn, pc |-> 1, stack |-> <<>>,
                    vars |-> [n \in Variables |-> IF n < Len(args) THEN args[n+1] ELSE NULL]]
Top(j) == Last(j.frames)
Instruction(prog, j) == prog[Top(j).fn].code[Top(j).pc]

\* The operand stack, the variables and the next instruction of the top frame.
Go(j, stack, vars, pc) ==
  [j EXCEPT !.frames = Append(Front(@), [Top(j) EXCEPT !.stack = stack, !.vars = vars, !.pc = pc])]
Below(st, n) == SubSeq(st, 1, Len(st) - n)
Shift(j, n, vs) == Go(j, Below(Top(j).stack, n) \o vs, Top(j).vars, Top(j).pc + 1)

\* An exception: the first handler around the instruction, else the caller's.
RECURSIVE Unwind(_, _, _)
Unwind(prog, j, exception) ==
  IF j.frames = <<>> THEN [j EXCEPT !.thrown = exception]
  ELSE LET hs == SelectSeq(prog[Top(j).fn].handlers,
                           LAMBDA h : h.from <= Top(j).pc /\ Top(j).pc < h.to)
       IN IF hs = <<>> THEN Unwind(prog, [j EXCEPT !.frames = Front(@)], exception)
          ELSE Go(j, <<exception>>, Top(j).vars, hs[1].at)

Finish(j, vs) ==
  LET rest == [j EXCEPT !.frames = Front(@)]
  IN IF rest.frames # <<>> THEN Shift(rest, 0, vs)
     ELSE IF vs = <<>> THEN rest ELSE [rest EXCEPT !.result = vs[1]]

Execute(prog, j) ==
  LET i == Instruction(prog, j)
      st == Top(j).stack
      At(n) == IF n < Len(st) THEN st[Len(st) - n] ELSE NULL
      a == At(0)
      b == At(1)
      vars == Top(j).vars
      JumpIf(n, taken) == Go(j, Below(st, n), vars, IF taken THEN i.n ELSE Top(j).pc + 1)
      Throw(e) == Unwind(prog, j, e)
  IN CASE i.op \in {"aload", "iload", "lload"} -> Shift(j, 0, <<vars[i.n]>>)
       [] i.op \in {"astore", "istore", "lstore"} ->
            Go(j, Below(st, 1), [vars EXCEPT ![i.n] = a], Top(j).pc + 1)
       [] i.op = "iinc" ->
            Go(j, st, [vars EXCEPT ![i.n] = Wrap(@ + i.by, IntMax)], Top(j).pc + 1)
       [] i.op = "aconst_null" -> Shift(j, 0, <<NULL>>)
       [] i.op \in {"iconst", "lconst"} -> Shift(j, 0, <<i.n>>)
       [] i.op = "dup" -> Shift(j, 0, <<a>>)
       [] i.op \in {"pop", "invokespecial"} -> Shift(j, 1, <<>>)
       [] i.op = "new" ->
            Shift([j EXCEPT !.next = @ + 1], 0, <<j.next>>)
       [] i.op = "getstatic" -> Shift(j, 0, <<j.static>>)
       [] i.op = "putstatic" -> Shift([j EXCEPT !.static = a], 1, <<>>)
       [] i.op = "getfield" -> IF a = NULL THEN Throw(NPE) ELSE Shift(j, 1, <<j.field[a]>>)
       [] i.op = "putfield" ->
            IF b = NULL THEN Throw(NPE) ELSE Shift([j EXCEPT !.field[b] = a], 2, <<>>)
       [] i.op = "newarray" ->
            IF a < 0 THEN Throw(NEGATIVE_SIZE)
            ELSE Shift([j EXCEPT !.next = @ + 1, !.elems[j.next] = [k \in 1..a |-> 0]], 1, <<j.next>>)
       [] i.op = "arraylength" -> IF a = NULL THEN Throw(NPE) ELSE Shift(j, 1, <<Len(j.elems[a])>>)
       [] i.op = "iaload" ->
            IF b = NULL THEN Throw(NPE)
            ELSE IF a + 1 \notin DOMAIN j.elems[b] THEN Throw(BOUNDS)
            ELSE Shift(j, 2, <<j.elems[b][a + 1]>>)
       [] i.op = "iastore" ->
            IF At(2) = NULL THEN Throw(NPE)
            ELSE IF b + 1 \notin DOMAIN j.elems[At(2)] THEN Throw(BOUNDS)
            ELSE Shift([j EXCEPT !.elems[At(2)][b + 1] = a], 3, <<>>)
       [] i.op = "ibinary" -> Shift(j, 2, <<Wrap(Exact(i.fn, b, a, IntMax), IntMax)>>)
       [] i.op = "lbinary" -> Shift(j, 2, <<Wrap(Exact(i.fn, b, a, LongMax), LongMax)>>)
       [] i.op \in {"idiv", "irem"} ->
            IF a = 0 THEN Throw(ARITHMETIC)
            ELSE Shift(j, 2, <<Wrap(IF i.op = "idiv" THEN Quotient(b, a) ELSE Remainder(b, a), IntMax)>>)
       [] i.op = "i2l" -> Shift(j, 0, <<>>)
       [] i.op = "l2i" -> Shift(j, 1, <<Wrap(a, IntMax)>>)
       [] i.op = "lcmp" -> Shift(j, 2, <<Sign(b, a)>>)
       [] i.op = "invokestatic" ->
            LET n == i.n
                caller == Go(j, Below(st, n), vars, Top(j).pc)
            IN [caller EXCEPT !.frames =
                  Append(@, Frame(i.fn, SubSeq(st, Len(st) - n + 1, Len(st))))]
       [] i.op = "areturn" -> Finish(j, <<a>>)
       [] i.op = "return" -> Finish(j, <<>>)
       [] i.op = "goto" -> JumpIf(0, TRUE)
       [] i.op = "ifnull" -> JumpIf(1, Compares(i.fn, a, NULL))
       [] i.op = "if" -> JumpIf(1, Compares(i.fn, a, 0))
       [] i.op = "if_icmp" -> JumpIf(2, Compares(i.fn, b, a))
       [] i.op = "ifcmp" -> [JumpIf(0, j.choices # <<>> /\ Head(j.choices))
                               EXCEPT !.choices = IF @ = <<>> THEN @ ELSE Tail(@)]

\* Runs to the end; a run that needs more steps or objects than there are is not stopped.
RECURSIVE Run(_, _, _)
Run(prog, j, steps) ==
  IF j.frames = <<>> THEN [j EXCEPT !.stopped = TRUE]
  ELSE IF steps = 0 \/ (Instruction(prog, j).op \in {"new", "newarray"} /\ j.next > MaxObj) THEN j
  ELSE Run(prog, Execute(prog, j), steps - 1)

\* An initial heap: main's arguments, the static variable, the fields, the elements, the
\* number of objects.
Outcome(prog, heap, choices) ==
  Run(prog, [frames |-> <<Frame("main", heap.args)>>, field |-> heap.field, elems |-> heap.elems,
             static |-> heap.static, next |-> heap.objects + 1, thrown |-> NULL,
             result |-> NULL, choices |-> choices, stopped |-> FALSE], MAX_STEPS)

RECURSIVE ReachableFrom(_, _)
ReachableFrom(field, os) ==
  LET more == (os \cup {field[o] : o \in os}) \ {NULL}
  IN IF more = os THEN os ELSE ReachableFrom(field, more)

\* What a caller can observe of a final state.
Observable(thrown, result, static, field, elems, arg) ==
  LET os == ReachableFrom(field, {arg, static, result} \ {NULL})
  IN [thrown |-> thrown, result |-> result, static |-> static,
      objects |-> [o \in os |-> <<field[o], elems[o]>>]]
=============================================================================
