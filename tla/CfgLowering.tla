---------------------------- MODULE CfgLowering ----------------------------
(***************************************************************************)
(* The Builder of src/cfg/lower.rs, for the statements of RubyFlow: it     *)
(* turns a body into basic blocks.  Every operator that lowers something   *)
(* returns the code's Flow: the builder it leaves behind, the block that   *)
(* is current afterwards, the statement's value, and whether control       *)
(* comes out of it.  The order in which blocks are created is kept: their  *)
(* ids are the scheduler's priorities.  Operations that only record types  *)
(* for diagnostics are left out.                                           *)
(***************************************************************************)
EXTENDS RubyFlow, TLC

NoBlock == -1
NoValue == -1

Unreachable == [kind |-> "unreachable"]

\* Builder::new, for a "method" or a closure of kind "block" or "lambda".
EmptyBuilder(closure) ==
    [ blocks |-> << >>, next |-> 0, values |-> 0, closure |-> closure,
      loops |-> << >>, ensures |-> << >>, rescues |-> << >>,
      regions |-> << >>, ensureEntries |-> {} ]

NewBlock(b, unwind) ==
    [b EXCEPT !.next = @ + 1,
              !.blocks = @ @@ (b.next :> [ops |-> << >>, param |-> NoValue,
                                          term |-> Unreachable, unwind |-> unwind])]

NewBlockLike(b, block) == NewBlock(b, b.blocks[block].unwind)

AddParameter(b, block) == [b EXCEPT !.blocks[block].param = b.values, !.values = @ + 1]

\* An operation with a result, the value b.values, and one without.
Emit(b, block, operation) ==
    [b EXCEPT !.blocks[block].ops = Append(@, [operation EXCEPT !.result = b.values]),
              !.values = @ + 1]
Do(b, block, operation) == [b EXCEPT !.blocks[block].ops = Append(@, operation)]

Const(t) == [op |-> "const", result |-> NoValue, type |-> t]
CallOf(types) == [op |-> "call", result |-> NoValue, types |-> types]
Read == [op |-> "read", result |-> NoValue]
ReadParam == [op |-> "param", result |-> NoValue]
BindForTarget(v, t) == [op |-> "bind", result |-> NoValue, arg |-> v, type |-> t]
Write(v) == [op |-> "write", result |-> NoValue, arg |-> v]
Assertion(v) == [op |-> "assertion", result |-> NoValue, arg |-> v]
SetOutcome(kind, v) == [op |-> "outcome", result |-> NoValue, arg |-> v, kind |-> kind]

SetTerminator(b, block, term) == [b EXCEPT !.blocks[block].term = term]

Jump(b, block, target, v) ==
    SetTerminator(b, block, [kind |-> "jump", target |-> target, value |-> v])

(***************************************************************************)
(* A Branch on a value and what decides it, the PatternTest before it and  *)
(* the Conditional the graph records of it: the statement the test is      *)
(* about, the join after it, whether it is a loop's.                       *)
(***************************************************************************)
Branch(b, block, v, test, truthy, falsy) ==
    SetTerminator(b, block, [kind |-> "branch", value |-> v, test |-> test,
                             truthy |-> truthy, falsy |-> falsy])

OnCondition(s, join, loop) == [pattern |-> "condition", about |-> s, join |-> join, loop |-> loop]
OnTruth(s) == [pattern |-> "truthy", about |-> s, join |-> NoBlock]
OnNil(s) == [pattern |-> "nil", about |-> s, join |-> NoBlock]
OnIteration(s) == [pattern |-> "iteration", about |-> s, join |-> NoBlock]
OnCase(s, class, join) == [pattern |-> "case", about |-> s, class |-> class, join |-> join]

Normal(b, block, v) == [b |-> b, block |-> block, value |-> v, reachable |-> TRUE]
Abrupt(b, block) == [b |-> b, block |-> block, value |-> NoValue, reachable |-> FALSE]

Emitted(b, block, operation) == Normal(Emit(b, block, operation), block, b.values)

RECURSIVE Lower(_, _, _)

LowerSequence(b, ss, block) ==
    FoldLeft(LAMBDA flow, s : IF flow.reachable THEN Lower(flow.b, s, flow.block) ELSE flow,
             Lower(b, ss[1], block), Tail(ss))

LowerWrite(b, s, block) ==
    LET f == Lower(b, s.value, block)
    IN  IF f.reachable THEN [f EXCEPT !.b = Do(@, f.block, Write(f.value))] ELSE f

\* Control that comes out of a part goes on to this block, with the part's value.
Joined(f, target) == IF f.reachable THEN [f EXCEPT !.b = Jump(f.b, f.block, target, f.value)] ELSE f

LowerArm(b, s, block, join) == Joined(Lower(b, s, block), join)

\* Two ways on from here, and the block where they meet again with a value.
Fork(f) ==
    LET b1 == NewBlockLike(NewBlockLike(NewBlockLike(f.b, f.block), f.block), f.block)
    IN  [ b |-> AddParameter(b1, f.b.next + 2), value |-> b1.values,
          first |-> f.b.next, second |-> f.b.next + 1, join |-> f.b.next + 2 ]

LowerIf(b, s, block) ==
    LET c == Lower(b, s.cond, block)
        k == Fork(c)
        b1 == Branch(k.b, c.block, c.value, OnCondition(s.cond, k.join, FALSE), k.first, k.second)
        f == LowerArm(b1, s.then, k.first, k.join)
        g == LowerArm(f.b, s.else, k.second, k.join)
    IN  CASE ~ c.reachable              -> c
          [] f.reachable \/ g.reachable -> Emitted(g.b, k.join, Assertion(k.value))
          [] OTHER                      -> Abrupt(g.b, k.join)

\* The join counts as reachable also when the right operand leaves.
LowerLogical(b, s, block) ==
    LET left == Lower(b, s.left, block)
        k == Fork(left)
        rhs == k.first  existing == k.second
        b1 == IF s.kind = "and" THEN Branch(k.b, left.block, left.value, OnTruth(s), rhs, existing)
              ELSE Branch(k.b, left.block, left.value, OnTruth(s), existing, rhs)
        right == LowerArm(Jump(b1, existing, k.join, left.value), s.right, rhs, k.join)
    IN  IF left.reachable THEN Normal(right.b, k.join, k.value) ELSE left

\* lower_argument, for the operands of a call in order.
LowerOperands(b, operands, block) ==
    FoldLeft(LAMBDA flow, s : IF flow.reachable THEN Lower(flow.b, s, flow.block) ELSE flow,
             Normal(b, block, NoValue), operands)

LowerCall(b, s, block) ==
    LET f == LowerOperands(b, s.operands, block)
    IN  IF f.reachable THEN Emitted(f.b, f.block, CallOf(s.types)) ELSE Abrupt(f.b, f.block)

LowerSafeCall(b, s, block) ==
    LET f == Lower(b, s.receiver, block)
        k == Fork(f)
        b1 == Branch(k.b, f.block, f.value, OnNil(s.receiver), k.first, k.second)
        b2 == Jump(Emit(b1, k.first, Const("nil")), k.first, k.join, b1.values)
        b3 == Jump(Emit(b2, k.second, CallOf(s.types)), k.second, k.join, b2.values)
    IN  IF f.reachable THEN Emitted(b3, k.join, Assertion(k.value)) ELSE f

\* The tests of an arm: each class has a block of its own, but the first.
LowerTests(b, s, arm, test, v, join, body, next) ==
    FoldLeft(LAMBDA at, i :
                LET last == i = Len(arm.classes)
                    falsy == IF last THEN next ELSE at.b.next
                    b1 == IF last THEN at.b ELSE NewBlockLike(at.b, at.test)
                IN  [ b |-> Branch(b1, at.test, v, OnCase(s.value, arm.classes[i], join), body, falsy),
                      test |-> falsy ],
             [b |-> b, test |-> test], [i \in DOMAIN arm.classes |-> i]).b

LowerWhen(at, s, v, join, arm) ==
    LET body == at.b.next
        next == at.b.next + 1
        b1 == NewBlockLike(NewBlockLike(at.b, at.block), at.block)
        f == LowerArm(LowerTests(b1, s, arm, at.block, v, join, body, next), arm.body, body, join)
    IN  [b |-> f.b, block |-> next, anyNormal |-> at.anyNormal \/ f.reachable]

LowerCase(b, s, block) ==
    LET f == Lower(b, s.value, block)
        join == f.b.next
        joined == f.b.values
        arms == FoldLeft(LAMBDA at, arm : LowerWhen(at, s, f.value, join, arm),
                         [ b |-> AddParameter(NewBlockLike(f.b, f.block), join),
                           block |-> f.block, anyNormal |-> FALSE ], s.arms)
        g == LowerArm(arms.b, s.else, arms.block, join)
    IN  CASE ~ f.reachable                     -> f
          [] arms.anyNormal \/ g.reachable     -> Normal(g.b, join, joined)
          [] OTHER                             -> Abrupt(g.b, join)

\* The body of a loop and its way back, and the nil it is worth when nothing breaks out of it.
LowerRounds(b, s, header, body, normalExit, exit, exitValue) ==
    LET f == Lower([b EXCEPT !.loops = Append(@, [break |-> exit, next |-> header])], s.body, body)
        b1 == [f.b EXCEPT !.loops = b.loops]
        b2 == IF f.reachable THEN Jump(Emit(b1, f.block, Const("nil")), f.block, header, b1.values)
              ELSE b1
    IN  Normal(Jump(Emit(b2, normalExit, Const("nil")), normalExit, exit, b2.values), exit, exitValue)

LowerLoop(b, s, block) ==
    LET header == b.next  condition == b.next + 1  body == b.next + 2
        normalExit == b.next + 3  exit == b.next + 4
        b1 == NewBlockLike(b, block)
        b2 == NewBlockLike(NewBlockLike(NewBlockLike(NewBlockLike(b1, header), header), header), header)
        b3 == AddParameter(AddParameter(b2, exit), header)
        b4 == Jump(Emit(b3, block, Const("nil")), block, header, b3.values)
        c == Lower(Jump(b4, header, condition, NoValue), s.cond, condition)
        b5 == IF c.reachable
              THEN Branch(c.b, c.block, c.value, OnCondition(s.cond, exit, TRUE), body, normalExit)
              ELSE c.b
    IN  LowerRounds(b5, s, header, body, normalExit, exit, b2.values)

LowerForLoop(b, s, block) ==
    LET f == Lower(b, s.value, block)
        header == f.b.next  body == f.b.next + 1
        normalExit == f.b.next + 2  exit == f.b.next + 3
        b1 == NewBlockLike(f.b, f.block)
        b2 == NewBlockLike(NewBlockLike(NewBlockLike(b1, header), header), header)
        b3 == AddParameter(AddParameter(b2, exit), header)
        b4 == Jump(Emit(b3, f.block, Const("nil")), f.block, header, b3.values)
        b5 == Branch(b4, header, f.value, OnIteration(s.value), body, normalExit)
    IN  IF ~ f.reachable THEN f
        ELSE LowerRounds(Do(b5, body, BindForTarget(f.value, s.element)), s,
                         header, body, normalExit, exit, b2.values)

\* A pending outcome: through the innermost ensure if there is one, else to this terminator.
Leaving(b, block, kind, v, terminator) ==
    IF b.ensures # << >> THEN Jump(Do(b, block, SetOutcome(kind, v)), block, Last(b.ensures), v)
    ELSE SetTerminator(b, block, terminator)

LowerReturn(b, s, block) ==
    LET f == Lower(b, s.value, block)
        kind == IF b.closure = "block" THEN "nonlocal" ELSE "return"
    IN  Abrupt(Leaving(f.b, f.block, "return", f.value, [kind |-> kind, value |-> f.value]), f.block)

\* break or next out of a block: an outcome of the body, also when no ensure is in the way.
LowerBlockOutcome(b, s, block) ==
    LET f == Lower(b, s.value, block)
        b1 == Do(f.b, f.block, SetOutcome(s.op, f.value))
    IN  Abrupt(IF b.ensures # << >> THEN Jump(b1, f.block, Last(b.ensures), f.value)
               ELSE SetTerminator(b1, f.block, Unreachable), f.block)

\* lower_break, lower_next: in a loop, straight to the loop's block.
LowerLoopExit(b, s, block) ==
    CASE b.loops = << >> /\ b.closure = "lambda" -> LowerReturn(b, s, block)
      [] b.loops = << >> /\ b.closure = "block"  -> LowerBlockOutcome(b, s, block)
      [] OTHER ->
            LET f == Lower(b, s.value, block)
            IN  Abrupt(Jump(f.b, f.block, Last(b.loops)[s.op], f.value), f.block)

LowerRetry(b, block) == Abrupt(Jump(b, block, Last(b.rescues), NoValue), block)

\* The tests of a rescue, from block test on, and the clause bodies; each ends by going to done.
RECURSIVE LowerClauses(_, _, _, _, _, _)
LowerClauses(b, clauses, test, exception, unwind, done) ==
    LET clause == Head(clauses)
        last == Tail(clauses) = << >>
        body == b.next
        b1 == NewBlock(b, unwind)
        next == b1.next
        b2 == IF last /\ clause.class = "all" THEN b1 ELSE NewBlock(b1, unwind)
        b3 == IF clause.class = "all" THEN Jump(b2, test, body, NoValue)
              ELSE Branch(b2, test, exception, OnCase(Param, clause.class, NoBlock), body, next)
        b4 == Joined(Lower(b3, clause.body, body), done).b
    IN  CASE ~ last -> LowerClauses(b4, Tail(clauses), next, exception, unwind, done)
          [] last /\ clause.class # "all" ->
                SetTerminator(b4, next, [kind |-> "raise", value |-> exception])
          [] OTHER -> b4

(***************************************************************************)
(* The blocks of a begin, in their order: after it, the entries of its     *)
(* ensure and its rescue if it has them, the protected body.               *)
(***************************************************************************)
Protect(b, s, block) ==
    LET outer == b.blocks[block].unwind
        ensured == s.ensure # << >>
        rescued == s.rescue # << >>
        after == b.next
        ensure == IF ensured THEN after + 1 ELSE NoBlock
        unwind == IF ensured THEN ensure ELSE outer
        rescue == IF ~ rescued THEN NoBlock ELSE IF ensured THEN after + 2 ELSE after + 1
        b1 == AddParameter(NewBlock(b, outer), after)
        b2 == IF ~ ensured THEN b1
              ELSE [AddParameter(NewBlock(b1, outer), ensure)
                        EXCEPT !.ensureEntries = @ \union {ensure}, !.ensures = Append(@, ensure)]
        b3 == IF rescued THEN NewBlock(b2, unwind) ELSE b2
    IN  [ b |-> Jump(NewBlock(b3, IF rescued THEN rescue ELSE unwind), block, b3.next, NoValue),
          start |-> b3.next, rescue |-> rescue, unwind |-> unwind,
          ensure |-> ensure, ensureValue |-> b.values + 1,
          after |-> after, afterValue |-> b.values,
          done |-> IF ensured THEN ensure ELSE after ]

\* What follows the protected body when it completes.
LowerElse(f, s, unwind) ==
    IF ~ f.reachable \/ s.else = << >> THEN f
    ELSE Lower(Jump(NewBlock(f.b, unwind), f.block, f.b.next, NoValue), s.else[1], f.b.next)

LowerProtected(c, s) == Joined(LowerElse(Lower(c.b, s.body, c.start), s, c.unwind), c.done).b

\* A handler can retry from the protected body's start.
LowerRescue(b, c, s) ==
    IF s.rescue = << >> THEN b
    ELSE [LowerClauses([AddParameter(b, c.rescue) EXCEPT
                           !.regions = Append(@, [entry |-> c.rescue, exit |-> c.after, protected |-> c.start]),
                           !.rescues = Append(@, c.start)],
                       s.rescue, c.rescue, b.values, c.unwind, c.done)
             EXCEPT !.rescues = b.rescues]

CompleteEnsure(f, c) ==
    IF ~ f.reachable THEN f.b
    ELSE SetTerminator(f.b, f.block,
             [ kind |-> "complete", target |-> c.after, value |-> c.ensureValue,
               pending |-> IF f.b.ensures = << >> THEN NoBlock ELSE Last(f.b.ensures) ])

LowerEnsure(b, c, s) ==
    IF s.ensure = << >> THEN b ELSE CompleteEnsure(Lower(b, s.ensure[1], c.ensure), c)

LowerBegin(b, s, block) ==
    LET c == Protect(b, s, block)
        rescued == LowerRescue(LowerProtected(c, s), c, s)
    IN  Normal(LowerEnsure([rescued EXCEPT !.ensures = b.ensures], c, s), c.after, c.afterValue)

Lower(b, s, block) ==
    CASE s.op = "lit"     -> Emitted(b, block, Const(s.type))
      [] s.op = "param"   -> Emitted(b, block, ReadParam)
      [] s.op = "get"     -> Emitted(b, block, Read)
      [] s.op = "set"     -> LowerWrite(b, s, block)
      [] s.op = "call"    -> LowerCall(b, s, block)
      [] s.op = "safe"    -> LowerSafeCall(b, s, block)
      [] s.op = "seq"     -> LowerSequence(b, s.body, block)
      [] s.op = "if"      -> LowerIf(b, s, block)
      [] s.op = "logical" -> LowerLogical(b, s, block)
      [] s.op = "case"    -> LowerCase(b, s, block)
      [] s.op = "while"   -> LowerLoop(b, s, block)
      [] s.op = "for"     -> LowerForLoop(b, s, block)
      [] s.op = "begin"   -> LowerBegin(b, s, block)
      [] s.op = "return"  -> LowerReturn(b, s, block)
      [] s.op \in {"break", "next"} -> LowerLoopExit(b, s, block)
      [] s.op = "retry"   -> LowerRetry(b, block)

\* Builder::finish: falling off the end returns; a block nobody closed is unreachable.
Finish(f) == IF f.reachable THEN SetTerminator(f.b, f.block, [kind |-> "return", value |-> f.value]) ELSE f.b
Graph(source, closure) == Finish(Lower(NewBlock(EmptyBuilder(closure), NoBlock), source, 0))
=============================================================================
