----------------------------- MODULE MCCompiler -----------------------------
(***************************************************************************)
(* Programs and heaps for Compiler.                                        *)
(***************************************************************************)
EXTENDS Compiler

\* main's parameters, a reference and an int; a local reference.
p == 0
n == 1
x == 2
var(v) == E("var", v)
fieldOf(v) == E("field", v)
static == E("static", 0)
make == E("make", 0)
null == E("null", 0)

First == {S("var", x, e) : e \in {var(p), make, fieldOf(p), static}}
Simple == {S("var", x, fieldOf(x)), S("var", p, fieldOf(x)), S("var", x, make),
           S("field", p, null), S("field", p, var(x)), S("field", x, var(p)), S("field", p, make),
           S("static", 0, var(x)), S("static", 0, null)}
ObjectCallees == Callees \ {"fill"}
CallsTo(fn) == IF IsVoid(fn) THEN {S("eval", 0, E(fn, p))}
               ELSE {S("var", x, E(fn, x)), S("field", x, E(fn, p))}
Results == {var(x), fieldOf(p)}
nothing == S("skip", 0, null)
Bodies == {<<<<>>, fieldOf(p)>>,
           <<<<S("static", 0, null)>>, fieldOf(p)>>,
           <<<<S("field", p, null)>>, var(p)>>,
           <<<<S("var", p, fieldOf(p))>>, static>>,
           <<<<S("field", p, static)>>, make>>,
           <<<<S("var", p, fieldOf(p))>>, make>>}
LargeBodies == {b \in Bodies : b[1] # <<>>}

Shapes == {"plain", "if", "try", "do", "while"}
Loops == {"do", "while"}
Shaped(shape, s) ==
  CASE shape = "plain" -> s
    [] shape = "do" -> Do(Unknown, <<s>>)
    [] shape = "if" -> If(Unknown, <<s>>)
    [] shape = "while" -> While(Cond("ifnull", "ne", <<var(x)>>), <<s>>)
    [] shape = "try" -> Try(<<s>>)
\* A moved local is defined by a call and consumed by a store of a field.
StoresFresh(s) == s.k = "field" /\ s.e.k = "make"

\* A program is called by what it is made of: the statements of main, what it returns, the
\* other method.
Uncalled == {<<"small", <<<<>>, var(p)>>>>}
Combined(firsts, shapes, seconds, results, callees) ==
  {<<<<c[1], Shaped(c[2], c[3])>>, c[4], c[5]>> : c \in firsts \X shapes \X seconds \X results \X callees}
Named(cs) == [c \in cs |-> JavaProgram(c[1], c[2], c[3][1], c[3][2][1], c[3][2][2])]

\* Statements without calls; a small callee; a large one; void ones.  There is no loop around a
\* store of a fresh object.
Objects ==
  Combined(First, Shapes \ Loops, Simple, Results, Uncalled)
  \cup Combined(First, Loops, {s \in Simple : ~StoresFresh(s)}, Results, Uncalled)
  \cup UNION {Combined(First \ {S("var", x, static)}, Shapes \ {"if", "while"}, CallsTo(fn), {var(x)},
                       {fn} \X (IF fn = "small" THEN Bodies ELSE LargeBodies)) : fn \in ObjectCallees}
  \cup UNION {Combined({S("var", x, static)}, {"plain"}, CallsTo(fn), {var(x)}, {fn} \X LargeBodies) :
               fn \in ObjectCallees}
\* Only such loops.
FreshInLoops == Combined(First, Loops, {s \in Simple : StoresFresh(s)}, Results, Uncalled)

\* main makes an object of its own and calls a small function with one it was given.
OwnObjects == {<<<<S("var", x, E("new", 0)), S("eval", 0, E("small", p))>>, var(x), <<"small", b>>>> : b \in Bodies}
\* A void method makes objects that may stay in its frame, or main's when it is inlined: straight
\* on, in and around a loop.
new == E("new", 0)
y == 3
Uses == {S("field", x, var(x)), S("field", x, null), S("field", x, new), S("var", x, fieldOf(x)),
         S("var", x, new), S("var", y, new), S("static", 0, var(x)), S("var", p, var(x))}
List == <<S("var", x, new), S("field", x, var(y)), S("var", y, var(x))>>
Making == {<<<<S("var", x, new), s, t>>, "touch">> : s \in Uses, t \in Uses}
          \cup {<<<<S("var", x, new), Do(Unknown, <<s>>), S("var", p, var(x))>>, "act">> : s \in Uses}
          \cup {<<<<S("var", y, null), Do(Unknown, body)>>, "act">> :
                  body \in {<<S("var", x, new), s, t>> : s \in Uses, t \in Uses} \cup {List}}
          \cup {<<<<S("var", y, new), Do(Unknown, <<S("var", x, new), S("field", y, null), S("var", y, var(x))>>)>>, "act">>}
InFrames == {<<<<S("eval", 0, E(c[2], p))>>, var(p), <<c[2], <<c[1], null>>>>>> : c \in Making}
\* Another object's field is set to one made here.
GivenAway == {<<<<S("eval", 0, E("act", p))>>, var(p), <<"act", <<<<S("var", x, new), S("field", p, var(x))>>, null>>>>>>}
\* A callee returns what it was given, and makes an object as well.
Getters == {<<<<S("var", x, var(p)), S("field", x, E(fn, p))>>, var(x), <<fn, <<body, var(p)>>>>>> :
              fn \in {"small", "large"}, body \in {<<S("var", x, new)>>, <<If(Unknown, <<S("var", p, new)>>)>>}}
EntryLoops == {<<<<Do(Unknown, <<S("var", p, fieldOf(p))>>)>>, var(p), c>> : c \in Uncalled}

NoElements == [o \in Obj |-> <<>>]
Fields(f1, f2) == [o \in Obj |-> CASE o = 1 -> f1 [] o = 2 -> f2 [] OTHER -> NULL]
Given(args, s, k, f, es) == [args |-> args, static |-> s, objects |-> k, field |-> f, elems |-> es]
ObjectHeaps == {Given(<<1, 0>>, 2, 2, Fields(2, NULL), NoElements),
                Given(<<1, 0>>, NULL, 2, Fields(2, 1), NoElements),
                Given(<<NULL, 0>>, 1, 1, Fields(NULL, NULL), NoElements)}

----------------------------------------------------------------------------
(* Programs about arrays of integers. *)

i == 3
j == 4
int(v) == E("iload", v)
const(k) == E("iconst", k)
long(v) == E("lload", v)
length(a) == X("arraylength", 0, <<var(a)>>)
Of2(fn, e1, e2) == X(fn, 0, <<e1, e2>>)
plus(e, k) == IF k = 0 THEN e ELSE Of2("add", e, const(k))
array(e) == X("newarray", 0, <<e>>)
element(a, e) == X("iaload", 0, <<var(a), e>>)
SetElement(a, e, v) == S("element", a, X("operands", 0, <<e, v>>))
SetInt(v, e) == S("istore", v, e)
Increase(v, k) == S("iinc", v, const(k))
Less(e1, e2) == Cond("if_icmp", "lt", <<e1, e2>>)
LessEqual(e1, e2) == Cond("if_icmp", "le", <<e1, e2>>)

\* x is main's array, or a new one; i runs up to a bound; an element near i is set.
Arrays == {<<>>, <<S("var", x, array(int(n)))>>, <<S("var", x, array(const(3)))>>}
Accessed(setup) == IF setup = <<>> THEN p ELSE x
Indices == {int(i), plus(int(i), 1), plus(int(i), -1), Of2("and", int(i), const(3)), Of2("mul", int(i), int(i)), int(n)}
Limits(a) == {length(p), length(a), int(n), const(3)}
For(from, limit, step, body) ==
  <<SetInt(i, from), While(Less(int(i), limit), body \o <<Increase(i, step)>>)>>
Counting(setup, froms, step) ==
  {<<setup \o For(from, limit, step, <<SetElement(Accessed(setup), index, int(i))>>), var(Accessed(setup))>> :
     from \in froms, limit \in Limits(Accessed(setup)), index \in Indices}

\* The index runs down.
Down ==
  {<<setup \o <<SetInt(i, from), While(LessEqual(const(0), int(i)), <<SetElement(Accessed(setup), index, int(i)), Increase(i, -1)>>)>>,
     var(Accessed(setup))>> :
     setup \in Arrays, from \in {plus(length(p), -1), length(p), int(n), const(3)}, index \in {int(i), plus(int(i), 1), plus(int(i), -1)}}
\* Without a loop: a guard, a mask.
Guarded ==
  {<<<<S("var", x, array(const(k))), If(Less(int(n), length(a)), <<SetElement(a, index, const(1))>>)>>, var(x)>> :
     k \in {1, 4}, a \in {p, x}, index \in {int(n), Of2("and", int(n), const(3)), plus(int(n), 1)}}
\* x[i * 2 + j] for i, j < 2
Matrix ==
  {<<<<S("var", x, array(size))>>
     \o For(const(0), const(2), 1,
            <<SetInt(j, const(0)),
              While(Less(int(j), const(limit)),
                    <<SetElement(x, Of2("add", Of2("mul", int(i), const(2)), int(j)), int(j)), Increase(j, 1)>>)>>),
     var(x)>> : size \in {const(4), const(3), int(n), Of2("mul", const(2), const(2))}, limit \in {2, 3}}
\* A long counts, compared as a long.
LongLoops ==
  {<<<<S("lstore", i, E("lconst", 0)),
       While(Cond("lcmp", "lt", <<long(i), X("i2l", 0, <<limit>>)>>),
             <<SetElement(p, X("l2i", 0, <<long(i)>>), const(1)),
               S("lstore", i, Of2("ladd", long(i), E("lconst", 1)))>>)>>, var(p)>> : limit \in {length(p), int(n)}}
Signs == {<<<<SetInt(n, Of2("lcmp", X("i2l", 0, <<int(n)>>), E("lconst", 1))), SetElement(p, const(0), int(n))>>, var(p)>>}
\* The array or the index is another one than the guard has seen.
Reassigned ==
  {<<<<S("var", x, array(const(2)))>> \o For(const(0), length(p), 1, <<SetElement(p, int(i), const(1)), change>>), var(p)>> :
     change \in {S("var", p, var(x)), SetInt(i, int(n)), SetInt(n, plus(int(n), 1)), Increase(i, 1)}}
\* Halves: lo = n, hi = j
Search ==
  {<<<<S("var", x, array(const(4))), SetInt(n, const(0)), SetInt(j, plus(length(x), -1)),
       While(LessEqual(int(n), int(j)),
             <<SetInt(i, half), SetElement(x, int(i), const(1)), up, SetInt(j, plus(int(i), -1))>>)>>, var(x)>> :
     half \in {Of2("shr", Of2("add", int(n), int(j)), const(1)), Of2("idiv", Of2("add", int(n), int(j)), const(2))},
     up \in {nothing, If(Unknown, <<SetInt(n, plus(int(i), 1))>>)}}
\* A parameter that is set on one path only.
Assigned ==
  {<<<<If(Unknown, <<SetInt(n, const(0))>>), SetElement(p, int(n), const(3))>>, var(p)>>,
   <<<<If(Less(int(n), const(2)), <<SetInt(n, const(2))>>), SetElement(p, int(n), int(n))>>, var(p)>>}
\* Division by zero, an exception caught, elements read.
Dividing ==
  {<<<<SetInt(i, const(0)), Try(<<SetInt(i, Of2(fn, const(2), int(n)))>>), shape>>, var(p)>> :
     fn \in {"idiv", "irem"},
     shape \in {Try(<<SetElement(p, int(i), element(p, const(1)))>>), SetElement(p, const(0), element(p, int(i)))}}

\* A void method has an array of its own, in its frame, its region or on the heap.
Sizes == {const(3), const(4), length(p), plus(length(p), -3)}
Sum(index) == SetElement(p, const(0), Of2("add", element(p, const(0)), element(x, index)))
Filling ==
  {<<S("var", x, array(size))>> \o For(const(0), length(x), 1, <<SetElement(x, int(i), int(i))>>) \o <<Sum(index), t>> :
     size \in Sizes, index \in {const(2), element(p, const(0))}, t \in {nothing, S("static", 0, var(x)), S("var", p, var(x))}}
  \cup {<<S("var", j, var(p)), Do(Unknown, <<S("var", x, array(size)), SetElement(x, const(1), const(1)), Sum(const(0)), t>>)>> :
          size \in Sizes, t \in {nothing, S("var", j, var(x))}}
OwnArrays == {<<<<S("eval", 0, E("fill", p))>>, var(p), <<"fill", <<body, null>>>>>> : body \in Filling}

\* The square of a counter that runs to 4; at 3 the model's integers overflow.
Squares ==
  {<<<<S("var", x, array(int(n)))>>
     \o For(const(0), const(limit), 1,
            <<If(Less(square, int(n)), <<SetElement(x, square, const(1))>>)>>), var(x)>> :
     limit \in {3, 4}, square \in {Of2("mul", int(i), int(i))}}
Loop(froms, step) == UNION {Counting(setup, froms, step) : setup \in Arrays}
WithNoCallee(cs) == {<<c[1], c[2], <<"none", <<<<>>, var(p)>>>>>> : c \in cs}
ArrayPrograms ==
  WithNoCallee(Loop({const(0), int(n)}, 1) \cup Loop({const(0)}, 2) \cup Down \cup Squares \cup Guarded \cup Matrix \cup LongLoops \cup Signs \cup Reassigned \cup Search \cup Assigned \cup Dividing)
ArrayHeap(len, k) ==
  Given(<<IF len = -1 THEN NULL ELSE 1, k>>, NULL, IF len = -1 THEN 0 ELSE 1, Fields(NULL, NULL),
        [o \in Obj |-> IF o = 1 /\ len # -1 THEN [q \in 1..len |-> 0] ELSE <<>>])
ArrayHeaps == {ArrayHeap(-1, 1), ArrayHeap(0, 2), ArrayHeap(2, -1), ArrayHeap(3, 2), ArrayHeap(7, 1)}

MCPrograms == Named(Objects \cup InFrames \cup ArrayPrograms \cup OwnArrays)
MCHeaps == [c \in DOMAIN MCPrograms |-> IF c[3][1] \in {"none", "fill"} THEN ArrayHeaps ELSE ObjectHeaps]
FreshPrograms == Named(FreshInLoops)
FreshHeaps == [c \in FreshInLoops |-> ObjectHeaps]
GivenAwayPrograms == Named(GivenAway)
GivenAwayHeaps == [c \in GivenAway |-> ObjectHeaps]
GetterPrograms == Named(Getters)
GetterHeaps == [c \in Getters |-> ObjectHeaps]
EntryPrograms == Named(EntryLoops)
EntryHeaps == [c \in EntryLoops |-> ObjectHeaps]
OverflowPrograms == Named(WithNoCallee(Squares))
OverflowHeaps == [c \in DOMAIN OverflowPrograms |-> ArrayHeaps]
\* Half of a number that may be negative, as a shift.
Halves ==
  {<<<<S("var", x, array(const(4))), SetInt(n, const(-1)), If(Unknown, <<SetInt(n, const(1))>>),
       SetInt(j, element(x, Of2("shr", int(n), const(1))))>>, var(x)>>}
ShiftPrograms == Named(WithNoCallee(Halves))
ShiftHeaps == [c \in DOMAIN ShiftPrograms |-> {ArrayHeap(3, 2)}]
=============================================================================
