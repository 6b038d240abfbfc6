------------------------------ MODULE Compiler ------------------------------
(***************************************************************************)
(* A compiled program at work: Java programs go through the frontend       *)
(* (Lowering), the passes (Passes) and the analyses of the backend         *)
(* (Ownership), and the code emit_function makes of the result runs on a   *)
(* heap of counted objects.  There is one action per statement and         *)
(* terminator that emit_function knows.                                    *)
(*                                                                         *)
(* An object number is never used twice, so a reference to an object that  *)
(* has been freed can be told from one to its successor at the address.    *)
(***************************************************************************)
EXTENDS Ownership, Jvm

CONSTANTS Programs,    \* a function to Java programs, from what they are called
          Heaps        \* for each of them, what main's caller may have built

L == INSTANCE Lowering
W == INSTANCE WholeProgram
Scalars == INSTANCE Scalars
B == INSTANCE Bounds
Stack == INSTANCE Escape

VARIABLES prog,      \* the program's name
          phase,     \* what the driver has made of it
          code,      \* its functions: bytecode, then the intermediate representation
          given,     \* whether it has no collector; of a run, the heap and what Java does
          frames,    \* functions in progress: name, block, statement, locals
          heap,      \* objects: counts, fields, which are freed; the static variable
          pending,   \* the pending exception
          choices,   \* results of the comparisons to come
          result     \* what main returned
compiled == <<prog, phase, code, given>>
machine == <<frames, heap, pending, choices, result>>
vars == <<prog, phase, code, given, frames, heap, pending, choices, result>>

----------------------------------------------------------------------------
(* Counting. *)

\* fault: code has touched an object that is gone, or null where it did not look.
\* home: for an object in a frame or a region, the depth of the frame and the statement.
\* reused: such objects whose place another one has taken.
\* lost: a moved local's count went nowhere, because the store it was meant for threw.
\* overflowed: an integer was too large for its type.
\* wild: an unchecked access was not within its array; what it does is not defined.
Faulty(h) == [h EXCEPT !.fault = TRUE]
Live(h, o) == o \in Obj \ (h.freed \cup h.reused)

\* The count of what is not counted.
IMMORTAL == -1

Retain(h, o) ==
  IF o \notin Obj \/ h.rc[o] = IMMORTAL THEN h
  ELSE IF ~Live(h, o) THEN Faulty(h) ELSE [h EXCEPT !.rc[o] = @ + 1]

\* Every object o is released drops[o] times.  An object whose last reference goes is freed,
\* and what it refers to is released in turn.
ReleaseAll(h, drops) ==
  LET counted == {o \in Obj : h.rc[o] # IMMORTAL}
      Left(o, gone) == h.rc[o] - drops[o] - Cardinality({p \in gone : h.field[p] = o})
      Freed[gone \in SUBSET Obj] ==
        LET more == {o \in counted : h.rc[o] > 0 /\ Left(o, gone) <= 0}
        IN IF more = gone THEN gone ELSE Freed[more]
      gone == Freed[{}]
  IN IF \E o \in counted : Left(o, gone) < 0 THEN Faulty(h)
     ELSE [h EXCEPT !.rc = [o \in counted |-> Left(o, gone)] @@ @,
                    !.freed = @ \cup gone,
                    !.field = [o \in gone |-> NULL] @@ @]
Release(h, o) == IF o \notin Obj THEN h ELSE ReleaseAll(h, [q \in Obj |-> IF q = o THEN 1 ELSE 0])

----------------------------------------------------------------------------
(* The function in progress. *)

Current == Last(frames)
Function == code[Current.fn]
Block == Function.blocks[Current.block]
Running == phase = "running" /\ frames # <<>> /\ ~heap.fault /\ ~heap.wild
AtStatement(op) == Running /\ Current.at <= Len(Block.stmts) /\ Block.stmts[Current.at].op = op
Stmt == Block.stmts[Current.at]
AtTerminator(op) == Running /\ Current.at > Len(Block.stmts) /\ Block.term.op = op

Read(l) == IF IsLocal(l) THEN Current.locals[l] ELSE IF IsConst(l) THEN l[3] ELSE NULL

Continue(fr) == frames' = Append(Front(frames), fr)
Advanced(fr) == [fr EXCEPT !.at = @ + 1]
Enter(b) == Continue([Current EXCEPT !.block = b, !.at = 1])

\* The code of function f that stores v in a local: frame and heap after it.
Uncounted(f, l) == ~IsRef(l) \/ l \in f.imm \cup f.borrow
StoreDest(f, fr, h, d, v, retain) ==
  [frame |-> IF d = None THEN fr ELSE [fr EXCEPT !.locals[d] = v],
   heap |-> IF Uncounted(f, d) THEN h
            ELSE Release(IF retain THEN Retain(h, v) ELSE h, fr.locals[d])]
\* The current statement leaves v in its destination and is done.
Store(h, v, retain) ==
  LET s == StoreDest(Function, Current, h, Stmt.dest, v, retain)
  IN Continue(Advanced(s.frame)) /\ heap' = s.heap

FrameFor(fn, args) ==
  LET f == code[fn]
      Arg(l) == CHOOSE a \in DOMAIN f.params : f.params[a] = l
  IN [fn |-> fn, block |-> 1, at |-> 1,
      locals |-> [l \in f.locals |-> IF l \in ToSet(f.params) THEN args[Arg(l)] ELSE NULL]]
\* A parameter that is written somewhere owns a count.
RetainParams(h, f, args) ==
  FoldLeft(Retain, h, [a \in DOMAIN args |->
                         IF ~IsRef(f.params[a]) \/ f.params[a] \in f.borrowed THEN NULL ELSE args[a]])

\* What a function gives up when it is left: everything its locals own.
Cleanup(h, f, fr) ==
  LET owning == {l \in f.locals : IsRef(l)} \ (f.borrowed \cup f.imm \cup f.borrow \cup f.moved)
  IN ReleaseAll(h, [o \in Obj |-> Cardinality({l \in owning : fr.locals[l] = o})])

\* With the frame at this depth go the objects in it and in its region.
Dismiss(h, depth) ==
  LET gone == {o \in Obj : h.home[o] # <<>> /\ h.home[o][1] = depth} \ h.freed
  IN IF gone = {} THEN h ELSE [h EXCEPT !.freed = @ \cup gone, !.rc = [o \in gone |-> 0] @@ @]

----------------------------------------------------------------------------
(* The driver. *)

Pass(from, to, fs) ==
  /\ phase = from
  /\ phase' = to
  /\ code' = fs
  /\ UNCHANGED <<prog, given, machine>>

LowerMethods == Pass("bytecode", "lowered", [fn \in DOMAIN code |-> L!LowerMethod(code[fn])])
\* What main cannot reach is dropped, and perhaps the collector.
WholeProgramPass ==
  /\ phase = "lowered"
  /\ phase' = "pruned"
  /\ code' = W!Prune(code)
  /\ given' = [acyclic |-> W!ShapeProvesAcyclic(code)]
  /\ UNCHANGED <<prog, machine>>
RefCopyPass == Pass("pruned", "copies elided", [fn \in DOMAIN code |-> ElideRefCopies(code[fn])])
ConstPass == Pass("copies elided", "constants propagated",
                  [fn \in DOMAIN code |-> Scalars!PropagateConstScalars(code[fn])])
LongComparePass == Pass("constants propagated", "comparisons fused",
                        [fn \in DOMAIN code |-> Scalars!FuseLongCompares(code[fn])])
BoundsPass == Pass("comparisons fused", "checks elided", [fn \in DOMAIN code |-> B!ElideBounds(code[fn])])
PendingPass == Pass("checks elided", "tests elided", ElidePending(code))
InlinePass == Pass("tests elided", "inlined", InlineProgram(code))
EscapePass == Pass("inlined", "stack allocated", Stack!StackAllocate(code))
EmitFunctions == Pass("stack allocated", "emitted", [fn \in DOMAIN code |-> Analysed(code, fn)])

\* The caller's heap: it holds main's first argument, which counts like a field.
NewHeap(g) ==
  [rc |-> [o \in Obj |-> Cardinality({q \in 1..g.objects : g.field[q] = o})
                         + Cardinality({n \in 1..2 : <<g.static, g.args[1]>>[n] = o})],
   field |-> g.field, elems |-> g.elems, freed |-> {}, reused |-> {}, home |-> [o \in Obj |-> <<>>], static |-> g.static, next |-> g.objects + 1,
   fault |-> FALSE, lost |-> FALSE, overflowed |-> FALSE, wild |-> FALSE]

HasChoices(java) == \E fn \in DOMAIN java : \E i \in DOMAIN java[fn].code : java[fn].code[i].op = "ifcmp"

Start ==
  /\ phase = "emitted"
  /\ phase' = "running"
  /\ LET java == Programs[prog]
     IN \E g \in Heaps[prog], cs \in [1..(IF HasChoices(java) THEN MAX_CHOICES ELSE 0) -> BOOLEAN] :
          /\ given' = [acyclic |-> given.acyclic, heap |-> g, outcome |-> Outcome(java, g, cs)]
          /\ choices' = cs
          /\ frames' = <<FrameFor("main", g.args)>>
          /\ heap' = RetainParams(NewHeap(g), code["main"], g.args)
  /\ UNCHANGED <<prog, code, pending, result>>

Init ==
  /\ prog \in DOMAIN Programs
  /\ phase = "bytecode"
  /\ code = Programs[prog]
  /\ given = <<>> /\ heap = [fault |-> FALSE, wild |-> FALSE, freed |-> {}]
  /\ frames = <<>> /\ choices = <<>>
  /\ pending = NULL /\ result = NULL

----------------------------------------------------------------------------
(* One action per statement and terminator. *)

\* The object operand of an access; where it is known not to be null nobody looks.
Operand == Read(Stmt.args[1])
Checked == Stmt.args[1] \notin Function.nn

Assign ==
  /\ AtStatement("use")
  /\ Store(heap, Read(Stmt.args[1]), TRUE)
  /\ UNCHANGED <<compiled, pending, choices, result>>

\* Continues with the callee; Return stores the result.
CallFunction ==
  /\ AtStatement("call") /\ Stmt.name \notin RuntimeFunctions
  /\ LET args == [a \in DOMAIN Stmt.args |-> Read(Stmt.args[a])]
     IN /\ frames' = Append(frames, FrameFor(Stmt.name, args))
        /\ heap' = RetainParams(heap, code[Stmt.name], args)
  /\ UNCHANGED <<compiled, pending, choices, result>>

TakePending ==
  /\ AtStatement("call") /\ Stmt.name = "jrt_take_pending"
  /\ Store(heap, pending, FALSE)
  /\ pending' = NULL
  /\ UNCHANGED <<compiled, choices, result>>

PendingSet ==
  /\ AtStatement("call") /\ Stmt.name = "jrt_pending_set"
  /\ Store(heap, IF pending = NULL THEN 0 ELSE 1, FALSE)
  /\ UNCHANGED <<compiled, pending, choices, result>>

\* A run that needs more objects than the model has ends here.
Allocate ==
  /\ AtStatement("new") /\ heap.next \in Obj
  /\ Store([heap EXCEPT !.rc[heap.next] = 1, !.next = @ + 1], heap.next, FALSE)
  /\ UNCHANGED <<compiled, pending, choices, result>>

LoadField ==
  /\ AtStatement("getfield") /\ ~(Operand = NULL /\ Checked)
  /\ IF Live(heap, Operand) THEN Store(heap, heap.field[Operand], TRUE)
     ELSE heap' = Faulty(heap) /\ UNCHANGED frames
  /\ UNCHANGED <<compiled, pending, choices, result>>

StoreField ==
  /\ AtStatement("putfield") /\ ~(Operand = NULL /\ Checked)
  /\ LET value == Stmt.args[2]
         taken == IF value \in Function.moved \cup Function.imm THEN heap
                  ELSE Retain(heap, Read(value))
     IN heap' = IF ~Live(heap, Operand) THEN Faulty(heap)
                ELSE LET stored == [taken EXCEPT !.field[Operand] = Read(value)]
                     IN IF Stmt.args[1] \in Function.imm THEN stored
                        ELSE Release(stored, heap.field[Operand])
  /\ Continue(Advanced(Current))
  /\ UNCHANGED <<compiled, pending, choices, result>>

\* jrt_throw_npe; the destination keeps its value, the function goes on to the test.
ThrowNpe ==
  /\ AtStatement("getfield") \/ AtStatement("putfield")
  /\ Operand = NULL /\ Checked
  /\ pending' = NPE
  /\ heap' = IF Stmt.op = "putfield" /\ Stmt.args[2] \in Function.moved
             THEN [heap EXCEPT !.lost = TRUE] ELSE heap
  /\ Continue(Advanced(Current))
  /\ UNCHANGED <<compiled, choices, result>>

LoadStatic ==
  /\ AtStatement("getstatic")
  /\ Store(heap, heap.static, TRUE)
  /\ UNCHANGED <<compiled, pending, choices, result>>

StoreStatic ==
  /\ AtStatement("putstatic")
  /\ LET v == Read(Stmt.args[1])
     IN heap' = Release([Retain(heap, v) EXCEPT !.static = v], heap.static)
  /\ Continue(Advanced(Current))
  /\ UNCHANGED <<compiled, pending, choices, result>>

\* The result v of an operation on integers, which wraps around.
Wide(l) == IF IsLong(l) THEN LongMax ELSE IntMax
StoreInteger(v) ==
  LET wrapped == Wrap(v, Wide(Stmt.dest))
  IN Store([heap EXCEPT !.overflowed = @ \/ wrapped # v], wrapped, FALSE)

Calculate ==
  /\ AtStatement("binary")
  /\ LET a == Read(Stmt.args[1])
         b == Read(Stmt.args[2])
     IN StoreInteger(IF Stmt.name \in Comparisons THEN Bit(Compares(Stmt.name, a, b))
                     ELSE Exact(Stmt.name, a, b, Wide(Stmt.dest)))
  /\ UNCHANGED <<compiled, pending, choices, result>>

ConvertInteger ==
  /\ AtStatement("convert")
  /\ StoreInteger(Operand)
  /\ UNCHANGED <<compiled, pending, choices, result>>

CompareLongs ==
  /\ AtStatement("call") /\ Stmt.name = "jrt_lcmp"
  /\ StoreInteger(Sign(Operand, Read(Stmt.args[2])))
  /\ UNCHANGED <<compiled, pending, choices, result>>

\* jrt_idiv, jrt_irem: a division by zero leaves an exception pending.
Divide ==
  /\ AtStatement("call") /\ Stmt.name \in ThrowingRuntime
  /\ LET b == Read(Stmt.args[2])
     IN IF b = 0 THEN Store(heap, 0, FALSE) /\ pending' = ARITHMETIC
        ELSE /\ StoreInteger(IF Stmt.name = "jrt_idiv" THEN Quotient(Operand, b) ELSE Remainder(Operand, b))
             /\ UNCHANGED pending
  /\ UNCHANGED <<compiled, choices, result>>

AllocateArray ==
  /\ AtStatement("newarray") /\ Operand >= 0 /\ heap.next \in Obj
  /\ Store([heap EXCEPT !.rc[heap.next] = 1, !.elems[heap.next] = [k \in 1..Operand |-> 0], !.next = @ + 1],
           heap.next, FALSE)
  /\ UNCHANGED <<compiled, pending, choices, result>>

\* In the frame or the region: not counted, the frame's place is the statement's own.
Here == <<Len(frames), Current.block, Current.at>>
Placed(elems) ==
  Store([heap EXCEPT !.rc[heap.next] = IMMORTAL, !.elems[heap.next] = elems, !.next = @ + 1,
                     !.home[heap.next] = Here,
                     !.reused = @ \cup {o \in Obj \ heap.freed : heap.home[o] = Here}], heap.next, FALSE)

AllocateInFrame ==
  /\ AtStatement("stacknew") /\ heap.next \in Obj
  /\ Placed(<<>>)
  /\ UNCHANGED <<compiled, pending, choices, result>>

PlaceArray ==
  /\ AtStatement("stackarray") \/ AtStatement("regionarray")
  /\ Operand >= 0 /\ heap.next \in Obj
  /\ Placed([k \in 1..Operand |-> 0])
  /\ UNCHANGED <<compiled, pending, choices, result>>

\* A negative size ends the program at once, whatever handlers there are.
AbortOnNegativeSize ==
  /\ AtStatement("newarray") \/ AtStatement("regionarray")
  /\ Operand < 0
  /\ pending' = NEGATIVE_SIZE
  /\ frames' = <<>>
  /\ heap' = [heap EXCEPT !.lost = TRUE]
  /\ UNCHANGED <<compiled, choices, result>>

LoadLength ==
  /\ AtStatement("arraylen")
  /\ IF Operand = NULL THEN Store(heap, 0, FALSE) /\ pending' = NPE
     ELSE /\ IF Live(heap, Operand) THEN Store(heap, Len(heap.elems[Operand]), FALSE)
             ELSE heap' = Faulty(heap) /\ UNCHANGED frames
          /\ UNCHANGED pending
  /\ UNCHANGED <<compiled, choices, result>>

AtAccess == AtStatement("arrayload") \/ AtStatement("arraystore")
Place == Read(Stmt.args[2]) + 1
ElementThere == Live(heap, Operand) /\ Place \in DOMAIN heap.elems[Operand]

LoadElement ==
  /\ AtStatement("arrayload") /\ ElementThere
  /\ Store(heap, heap.elems[Operand][Place], FALSE)
  /\ UNCHANGED <<compiled, pending, choices, result>>

StoreElement ==
  /\ AtStatement("arraystore") /\ ElementThere
  /\ Store([heap EXCEPT !.elems[Operand][Place] = Read(Stmt.args[3])], NULL, FALSE)
  /\ UNCHANGED <<compiled, pending, choices, result>>

\* A checked access that fails yields 0 and goes on to the test.  A release build does this
\* only if some function has a handler, a debug build in any case.
ThrowForElement ==
  /\ AtAccess /\ ~ElementThere /\ Stmt.name = "checked"
  /\ IF Operand = NULL THEN Checked /\ pending' = NPE
     ELSE Live(heap, Operand) /\ pending' = BOUNDS
  /\ Store(heap, 0, FALSE)
  /\ UNCHANGED <<compiled, choices, result>>

\* Without a handler anywhere the failing access ends the program in a release build.
Uncatchable ==
  \A fn \in DOMAIN code : \A st \in AllStatements(code[fn]) : st.op = "call" => st.name # "jrt_take_pending"
AbortAtElement ==
  /\ AtAccess /\ ~ElementThere /\ Stmt.name = "checked" /\ Uncatchable
  /\ IF Operand = NULL THEN Checked /\ pending' = NPE
     ELSE Live(heap, Operand) /\ pending' = BOUNDS
  /\ frames' = <<>>
  /\ heap' = [heap EXCEPT !.lost = TRUE]
  /\ UNCHANGED <<compiled, choices, result>>

\* No element, and nobody looks.
AccessNothing ==
  /\ AtAccess /\ ~ElementThere
  /\ Stmt.name = "checked" => Operand \in heap.freed \/ (Operand = NULL /\ ~Checked)
  /\ heap' = IF Stmt.name = "unchecked" /\ Operand \notin heap.freed
             THEN [heap EXCEPT !.wild = TRUE] ELSE Faulty(heap)
  /\ UNCHANGED <<compiled, frames, pending, choices, result>>

TestIntegers ==
  /\ AtStatement("compare")
  /\ Store(heap, IF choices # <<>> /\ Head(choices) THEN 1 ELSE 0, FALSE)
  /\ choices' = IF choices = <<>> THEN choices ELSE Tail(choices)
  /\ UNCHANGED <<compiled, pending, result>>

GotoBlock ==
  /\ AtTerminator("goto")
  /\ Enter(Block.term.to[1])
  /\ UNCHANGED <<compiled, heap, pending, choices, result>>

BranchOn ==
  /\ AtTerminator("branch")
  /\ Enter(Block.term.to[IF Read(Block.term.args[1]) = 0 THEN 2 ELSE 1])
  /\ UNCHANGED <<compiled, heap, pending, choices, result>>

\* The value leaves with a count of its own: a moved local's, or a new one.
ReturnValue ==
  /\ AtTerminator("return")
  /\ LET l == IF Block.term.args = <<>> THEN None ELSE Block.term.args[1]
         v == Read(l)
         kept == IF l \in Function.moved THEN heap ELSE Retain(heap, v)
         left == Dismiss(Cleanup(kept, Function, Current), Len(frames))
         caller == frames[Len(frames) - 1]
         f == code[caller.fn]
         call == f.blocks[caller.block].stmts[caller.at]
         s == StoreDest(f, caller, left, call.dest, v, FALSE)
     IN IF Len(frames) = 1
        THEN frames' = <<>> /\ heap' = left /\ result' = v
        ELSE /\ frames' = Append(Front(Front(frames)), Advanced(s.frame))
             /\ heap' = s.heap
             /\ UNCHANGED result
  /\ UNCHANGED <<compiled, pending, choices>>

Driver ==
  \/ LowerMethods \/ WholeProgramPass \/ RefCopyPass \/ ConstPass \/ LongComparePass \/ BoundsPass \/ PendingPass
  \/ InlinePass \/ EscapePass \/ EmitFunctions \/ Start
Step ==
  \/ Assign \/ CallFunction \/ TakePending \/ PendingSet \/ Allocate
  \/ LoadField \/ StoreField \/ ThrowNpe \/ LoadStatic \/ StoreStatic
  \/ Calculate \/ ConvertInteger \/ CompareLongs \/ Divide \/ AllocateArray \/ AllocateInFrame \/ PlaceArray \/ AbortOnNegativeSize
  \/ LoadLength \/ LoadElement \/ StoreElement \/ ThrowForElement \/ AbortAtElement \/ AccessNothing
  \/ TestIntegers \/ GotoBlock \/ BranchOn \/ ReturnValue
Next == Driver \/ Step

\* A function is in progress, and there is an object for an allocation that needs one.
Allocations == {"new", "newarray", "stacknew", "stackarray", "regionarray"}
CanStep ==
  Running /\ ((\E op \in Allocations : AtStatement(op)) =>
                 heap.next \in Obj \/ (Stmt.args # <<>> /\ Operand < 0))
\* One thread runs, and the machine runs it: WF_vars(Step), with ENABLED Step written out.
Fairness == []<>~CanStep \/ []<><<Step>>_vars
Spec == Init /\ [][Next]_vars /\ Fairness

----------------------------------------------------------------------------
(* Properties. *)

Finished == phase = "running" /\ frames = <<>>

\* No program touches an object that has been freed, and none follows a null reference
\* it has not tested: every retain, release and access of the emitted code, under all
\* the copies, tests and counts the compiler has left out, is of a live object.
AccessesAreLive == ~heap.fault

\* A program that ends does what Java says it does: same exception, same result, same
\* objects in the same fields, same numbers in the same arrays.
OutcomeIsJava ==
  Finished =>
    LET j == given.outcome
    IN /\ j.stopped
       /\ Observable(pending, result, heap.static, heap.field, heap.elems, given.heap.args[1])
            = Observable(j.thrown, j.result, j.static, j.field, j.elems, given.heap.args[1])

\* When main has returned, every object's count is the number of references to it: from
\* objects that are not freed, from the static variable, from main's caller.  A program
\* without cycles leaves nothing behind, and none frees what is still referred to.
BalancedAtReturn ==
  Finished /\ ~heap.lost =>
    \A o \in Obj :
      heap.rc[o] = Cardinality({p \in Obj \ heap.freed : heap.field[p] = o})
                   + Cardinality({n \in 1..3 : <<heap.static, given.heap.args[1], result>>[n] = o})

\* What is gone, with its frame or to make room for the next object of the same statement, is
\* referred to by no counted object, nor by the static variable or the result.
NothingDangles ==
  phase = "running" =>
    LET gone == heap.freed \cup heap.reused
    IN /\ \A p \in Obj : heap.rc[p] > 0 => heap.field[p] \notin gone
       /\ {heap.static, result} \cap gone = {}

\* Counted objects that refer to one another in a circle.
Circles(field, counted) == {c \in SUBSET counted \ {{}} : \A o \in c : field[o] \in c}

\* A program that is linked without the cycle collector never closes a cycle of references:
\* of a heap without one it makes another without, so counting alone frees everything.
NoCycleWithoutCollector ==
  phase = "running" /\ given.acyclic /\ Circles(given.heap.field, Obj) = {} =>
    Circles(heap.field, {o \in Obj : heap.rc[o] > 0}) = {}

\* A local that owns no count is kept alive by something else for as long as its function
\* runs: a borrowed parameter or a borrow slot never holds an object that is gone.
BorrowsStayAlive ==
  \A i \in DOMAIN frames :
    LET f == code[frames[i].fn]
    IN \A l \in f.borrowed \cup f.borrow : IsRef(l) => frames[i].locals[l] \notin heap.freed

\* A program that comes to an end in Java comes to an end compiled.
EndsAsInJava ==
  (phase = "running" /\ given.outcome.stopped) ~> Finished \/ heap.wild

\* Where the compiler has removed the check of an access the index is within the array,
\* unless integers have overflowed before.
UncheckedInBounds == heap.wild => heap.overflowed
\* Without that proviso.
AlwaysInBounds == ~heap.wild

\* Bounds checks are removed on the word of analyses that have come to an end: symbols, signs
\* and bounds agree with each other, and another round of the interval iterations, which stop
\* after MAX_ITER rounds, would change nothing.
AnalysesHaveSettled ==
  phase = "comparisons fused" => \A fn \in DOMAIN code : B!HasSettled(code[fn])
=============================================================================
