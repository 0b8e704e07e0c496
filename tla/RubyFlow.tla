------------------------------ MODULE RubyFlow ------------------------------
(***************************************************************************)
(* The Ruby statements whose control flow src/cfg/lower.rs spells out in   *)
(* blocks, and what Ruby does with them: the outcomes of running one, as a *)
(* set.  It is the reference the block transfer is checked against and is  *)
(* written from the language, not from typey.                              *)
(*                                                                         *)
(* There is one local variable, x; a value is named for its class, and     *)
(* only nil is falsy.  A call may raise a StandardError ("Std") besides    *)
(* returning; raise raises an "Err", which is one.                         *)
(***************************************************************************)
EXTENDS Integers, Sequences, SequencesExt

Lit(t) == [op |-> "lit", type |-> t]
Param == [op |-> "param"]       \* a parameter that may be nil
Get == [op |-> "get"]
Set(s) == [op |-> "set", value |-> s]

\* A call with its operands: the receiver, if it is written, and the arguments.
CallWith(operands, types) == [op |-> "call", operands |-> operands, types |-> types]
Call(t) == CallWith(<< >>, {t})
Find(t) == CallWith(<< >>, {t, "nil"})
Raise == CallWith(<< >>, {})
SafeCall(receiver, t) == [op |-> "safe", receiver |-> receiver, types |-> {t}]

Seqn(ss) == [op |-> "seq", body |-> ss]
IfOn(c, s, t) == [op |-> "if", cond |-> c, then |-> s, else |-> t]
If(s, t) == IfOn(Param, s, t)
And(s, t) == [op |-> "logical", kind |-> "and", left |-> s, right |-> t]
Or(s, t) == [op |-> "logical", kind |-> "or", left |-> s, right |-> t]
When(classes, s) == [classes |-> classes, body |-> s]
CaseOf(s, arms, orElse) == [op |-> "case", value |-> s, arms |-> arms, else |-> orElse]

WhileOn(c, s) == [op |-> "while", cond |-> c, body |-> s]
While(s) == WhileOn(Param, s)
\* for x in ...; the elements are of class t.
For(s, t, body) == [op |-> "for", value |-> s, element |-> t, body |-> body]
Return(s) == [op |-> "return", value |-> s]
Break(s) == [op |-> "break", value |-> s]
NextValue(s) == [op |-> "next", value |-> s]
Retry == [op |-> "retry"]

\* Parts of a begin that are not there are empty sequences; a clause without a class takes all.
Clause(class, s) == [class |-> class, body |-> s]
Begin(body, clauses, orElse, ensure) ==
    [op |-> "begin", body |-> body, rescue |-> clauses, else |-> orElse, ensure |-> ensure]

Outcome(kind, value, x) == [kind |-> kind, value |-> value, x |-> x]
Only(outcomes, kinds) == { o \in outcomes : o.kind \in kinds }
Truthy(o) == o.value # "nil"

\* A clause may take any exception (an "Err" is raised by what is only known to be a "Std").
Refuses(class, exception) == class = "Err" /\ exception = "Std"

\* Continue every normal outcome of these.
Continue(outcomes, After(_)) ==
    (outcomes \ Only(outcomes, {"normal"})) \union UNION { After(o) : o \in Only(outcomes, {"normal"}) }

RECURSIVE Run(_, _)

Then(outcomes, s) == Continue(outcomes, LAMBDA o : Run(s, o.x))

InOrder(ss, x) == FoldLeft(Then, { Outcome("normal", "nil", x) }, ss)

\* A call, once its operands have been evaluated.
Send(types, x) == { Outcome("normal", t, x) : t \in types }
                      \union { Outcome("raise", IF types = {} THEN "Err" ELSE "Std", x) }

Chosen(s, value) ==
    LET matching == { i \in DOMAIN s.arms : \E j \in DOMAIN s.arms[i].classes : s.arms[i].classes[j] = value }
    IN  IF matching = {} THEN s.else
        ELSE s.arms[CHOOSE i \in matching : \A j \in matching : i <= j].body

\* An ensure body that completes hands on the outcome it came from; any other replaces it.
Ensured(outcomes, s) ==
    UNION { { IF e.kind = "normal" THEN [o EXCEPT !.x = e.x] ELSE e : e \in Run(s, o.x) }
            : o \in outcomes }

\* What the first clause on does with an exception.
RECURSIVE Handled(_, _)
Handled(clauses, o) ==
    IF clauses = << >> THEN {o}
    ELSE Run(Head(clauses).body, o.x)
           \union (IF Refuses(Head(clauses).class, o.value) THEN Handled(Tail(clauses), o) ELSE {})

\* A begin without its ensure, entered with any of these values of x; retry enters it again.
RECURSIVE Guarded(_, _)
Guarded(s, xs) ==
    LET body == UNION { Run(s.body, x) : x \in xs }
        raised == Only(body, {"raise"})
        handled == IF s.rescue = << >> THEN raised ELSE UNION { Handled(s.rescue, o) : o \in raised }
        completed == IF s.else = << >> THEN body \ raised ELSE Then(body \ raised, s.else[1])
        retried == IF s.rescue = << >> THEN {} ELSE Only(handled, {"retry"})
        again == xs \union { o.x : o \in retried }
    IN  IF again # xs THEN Guarded(s, again) ELSE completed \union (handled \ retried)

\* What comes before the body in a round of a loop: truthy to go on.
Ahead(s, xs) ==
    UNION { IF s.op = "while" THEN Run(s.cond, x)
            ELSE { Outcome("normal", s.element, s.element), Outcome("normal", "nil", x) } : x \in xs }
Bodies(s, xs) == UNION { Run(s.body, o.x) : o \in { o \in Only(Ahead(s, xs), {"normal"}) : Truthy(o) } }

\* The values x may have when a round begins.
RECURSIVE Rounds(_, _)
Rounds(s, xs) ==
    LET next == xs \union { o.x : o \in Only(Bodies(s, xs), {"normal", "next"}) }
    IN  IF next = xs THEN xs ELSE Rounds(s, next)

\* A loop; value is what it is worth when nothing breaks out of it.
Loop(s, x, value) ==
    LET ahead == Ahead(s, Rounds(s, {x}))
        body == Bodies(s, Rounds(s, {x}))
    IN  { [o EXCEPT !.value = value] : o \in { o \in Only(ahead, {"normal"}) : ~ Truthy(o) } }
          \union { [o EXCEPT !.kind = "normal"] : o \in Only(body, {"break"}) }
          \union ((ahead \union body) \ Only(ahead \union body, {"normal", "next", "break"}))

Leave(kind, s, x) ==
    { IF o.kind = "normal" THEN [o EXCEPT !.kind = kind] ELSE o : o \in Run(s, x) }

Run(s, x) ==
    CASE s.op = "lit"     -> { Outcome("normal", s.type, x) }
      [] s.op = "param"   -> { Outcome("normal", t, x) : t \in {"true", "nil"} }
      [] s.op = "get"     -> { Outcome("normal", x, x) }
      [] s.op = "set"     -> { IF o.kind = "normal" THEN [o EXCEPT !.x = o.value] ELSE o : o \in Run(s.value, x) }
      [] s.op = "call"    -> Continue(InOrder(s.operands, x), LAMBDA o : Send(s.types, o.x))
      [] s.op = "safe"    -> Continue(Run(s.receiver, x), LAMBDA o : IF Truthy(o) THEN Send(s.types, o.x) ELSE {o})
      [] s.op = "seq"     -> InOrder(s.body, x)
      [] s.op = "if"      -> Continue(Run(s.cond, x), LAMBDA o : Run(IF Truthy(o) THEN s.then ELSE s.else, o.x))
      [] s.op = "logical" -> Continue(Run(s.left, x),
                                      LAMBDA o : IF Truthy(o) = (s.kind = "and") THEN Run(s.right, o.x) ELSE {o})
      [] s.op = "case"    -> Continue(Run(s.value, x), LAMBDA o : Run(Chosen(s, o.value), o.x))
      [] s.op = "while"   -> Loop(s, x, "nil")
      [] s.op = "for"     -> Continue(Run(s.value, x), LAMBDA o : Loop(s, o.x, o.value))
      [] s.op = "begin"   -> IF s.ensure = << >> THEN Guarded(s, {x})
                             ELSE Ensured(Guarded(s, {x}), s.ensure[1])
      [] s.op \in {"return", "break", "next"} -> Leave(s.op, s.value, x)
      [] s.op = "retry"   -> { Outcome("retry", "nil", x) }
=============================================================================
