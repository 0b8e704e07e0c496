-------------------------- MODULE MCFlowNarrowing --------------------------
(***************************************************************************)
(* FlowNarrowing with the exact algebra of values: a type is the set of    *)
(* values it stands for, given by their tags, and what its arrays and      *)
(* hashes hold.  A narrowing that loses a value here is wrong with every   *)
(* algebra; that the algebra of types.rs and of class tests is sound is    *)
(* the lattice run's business.                                             *)
(***************************************************************************)
EXTENDS FlowLaws, Sequences

\* Tags: a value without parts is its own.  Base has subclasses Foo and Bar; Bar includes Mod.
Object(class) == << "object", class >>
Scalars == {<< "nil" >>, << "true" >>, << "false" >>, << "integer" >>,
            Object("Foo"), Object("Bar"), Object("Base")}
ClassTags == [ Base |-> {"Base", "Foo", "Bar"}, Mod |-> {"Bar"},
               Foo |-> {"Foo"}, Bar |-> {"Bar"} ]

\* What an array or a hash holds is any value or one of a set of integers and nil.
Elements == {<< "nil" >>, << "integer" >>}
Flat(tags) == [any |-> FALSE, tags |-> tags, array |-> Absent, hash |-> Absent]
Anything == [Flat({}) EXCEPT !.any = TRUE]
Parts == {Anything} \union {Flat(tags) : tags \in SUBSET Elements}
Tagged(tags, array, hash) == [any |-> FALSE, tags |-> tags, array |-> array, hash |-> hash]
Types == {Anything} \union {Flat(tags) : tags \in SUBSET Scalars}
             \union {Tagged(tags, part, Absent) : tags \in SUBSET {<< "nil" >>}, part \in Parts}
             \union {Tagged(tags, Absent, part) : tags \in SUBSET {<< "nil" >>}, part \in Parts}

MCNever == Flat({})
MCAny == Anything
MCNil == Flat({<< "nil" >>})
Bool == Flat({<< "true" >>, << "false" >>})
MCLiterals == {Flat({<< "true" >>}), Flat({<< "false" >>})}
TheInteger == Flat({<< "integer" >>})
OfClass(name) == Flat({Object(c) : c \in ClassTags[name]})

JoinFlat(s, t) == IF s.any \/ t.any THEN MCAny ELSE Flat(s.tags \union t.tags)
MeetFlat(s, t) == IF s.any THEN t ELSE IF t.any THEN s ELSE Flat(s.tags \intersect t.tags)
JoinPart(s, t) == IF s = Absent THEN t ELSE IF t = Absent THEN s ELSE JoinFlat(s, t)
MeetPart(s, t) == IF Absent \in {s, t} THEN Absent ELSE MeetFlat(s, t)

MCJoin(s, t) ==
    LET joined == Tagged(s.tags \union t.tags, JoinPart(s.array, t.array), JoinPart(s.hash, t.hash))
    IN  IF s.any \/ t.any \/ joined \notin Types THEN MCAny ELSE joined
MCMeet(s, t) ==
    IF s.any THEN t ELSE IF t.any THEN s
    ELSE Tagged(s.tags \intersect t.tags, MeetPart(s.array, t.array), MeetPart(s.hash, t.hash))
MCWithout(t, excluded) == IF t.any THEN t ELSE [t EXCEPT !.tags = @ \ excluded.tags]
Falsy == {<< "nil" >>, << "false" >>}
MCTruthyPart(t) == MCWithout(t, Flat(Falsy))
MCFalsyPart(t) == IF t.any THEN t ELSE Flat(t.tags \intersect Falsy)

Nilable(t) == MCJoin(t, MCNil)
Maybe == Nilable(TheInteger)
Held(t) == IF t \in Parts THEN t ELSE MCAny
ArrayType(t) == [MCNever EXCEPT !.array = Held(t)]
MCElementOf(t) == IF t = Tagged({}, t.array, Absent) THEN t.array ELSE Absent
\* Every key in these bodies is a symbol.
MCHashOf(k, t) == [MCNever EXCEPT !.hash = Held(t)]
MCHashValueOf(t) == IF t = Tagged({}, Absent, t.hash) THEN t.hash ELSE Absent
MCSymbol == Flat({})

Describes1(v, t) == t.any \/ v \in t.tags
MCDescribes(v, t) ==
    CASE t.any -> TRUE
      [] ~ t.any /\ v[1] = "array" -> t.array # Absent /\ \A x \in v[2] : Describes1(x, t.array)
      [] ~ t.any /\ v[1] = "hash" ->
            t.hash # Absent /\ \A k \in Key : v[2][k] = << "missing" >> \/ Describes1(v[2][k], t.hash)
      [] OTHER -> v \in t.tags

FitsPart(s, t) == IF s = Absent THEN TRUE ELSE t # Absent /\ (s.any \/ t.any \/ s.tags \subseteq t.tags)
MCIsAssignable(s, t) ==
    s.any \/ t.any \/ (/\ s.tags \subseteq t.tags
                      /\ FitsPart(s.array, t.array) /\ FitsPart(s.hash, t.hash))
MCMeetPredicate(t, class) == MCMeet(t, class)
MCWithoutPredicate(t, class) == MCWithout(t, class)
MCCaseReachability(t, class) ==
    << t.any \/ t.tags \intersect class.tags # {},
       t.any \/ ~ t.tags \subseteq class.tags \/ t.array # Absent \/ t.hash # Absent >>

Names == {"x", "y", "@v"}
Ivars == {"@v"}

NilV == << "nil" >>
TrueV == << "true" >>
FalseV == << "false" >>
One == << "integer" >>
Array(vs) == << "array", vs >>
Hash(k, j) == << "hash", [k |-> k, j |-> j] >>

Classes == {OfClass(name) : name \in DOMAIN ClassTags} \union {MCNil}

Holding(vs) == IF vs = {} THEN MCAny ELSE Flat(vs)
TypeOf(v) ==
    CASE v[1] = "array" -> ArrayType(Holding(v[2]))
      [] v[1] = "hash"  -> MCHashOf(MCSymbol, Holding({v[2][k] : k \in Key} \ {Missing}))
      [] OTHER          -> Flat({v})

-----------------------------------------------------------------------------
(* Bodies.                                                                 *)

Atom(op, n) == [op |-> op, name |-> n, negated |-> FALSE, class |-> Absent]
IsA(n, class) == [op |-> "is_a?", name |-> n, negated |-> FALSE, class |-> OfClass(class)]
CaseEq(n, class) == [IsA(n, class) EXCEPT !.op = "==="]
Not(a) == [a EXCEPT !.negated = TRUE]
Single(a) == [kind |-> "atom", left |-> a, right |-> a]
And(a, b) == [kind |-> "and", left |-> a, right |-> b]
Or(a, b) == [kind |-> "or", left |-> a, right |-> b]
Either(atoms) == {Single(a) : a \in atoms} \union {Single(Not(a)) : a \in atoms}

Literal(v) == [kind |-> "literal", value |-> v]
Untyped == [kind |-> "untyped"]
OfCondition(c) == [kind |-> "condition", cond |-> c]
OfKey(n, k) == [kind |-> "key", name |-> n, key |-> k]
OfFirst(n) == [kind |-> "first", name |-> n]

Assigned(n, x) == [kind |-> "assign", name |-> n, value |-> x, inBlock |-> FALSE]
LogicalWrite(n, goesOn, x) == [kind |-> "logical", name |-> n, goesOn |-> goesOn, value |-> x,
                          inBlock |-> FALSE]
Push(n, v) == [kind |-> "push", name |-> n, value |-> Literal(v), inBlock |-> FALSE]
Store(n, k, v) == [kind |-> "write", name |-> n, key |-> k, value |-> Literal(v), inBlock |-> FALSE]
InBlock(s) == [s EXCEPT !.inBlock = TRUE]

Initially(n, t, v) ==
    [ env |-> [DefaultEnvironment EXCEPT !.locals[n] = t],
      store |-> [m \in Names |-> IF m = n THEN v ELSE NilV],
      guess |-> {} ]

\* A parameter x with a contract; with a type of the calls seen, any value being passed; untyped.
Contract(t, vs) == {Initially("x", t, v) : v \in vs}
Sample(t, vs) == {[Initially("x", t, v) EXCEPT !.env.inferred = {"x"}, !.guess = {"x"}] : v \in vs}
Unknown(vs) == {[Initially("x", MCAny, v) EXCEPT !.env.provisional = {"x"}] : v \in vs}

Family(initial, statements, conditions, cases) ==
    [initial |-> initial, statements |-> statements, conditions |-> conditions, cases |-> cases]

\* nil tests, directly and through a local that stores them.
NilTested ==
    Family(Contract(Maybe, {NilV, One}) \union Sample(MCNil, {NilV, One})
               \union Sample(TheInteger, {NilV, One}) \union Unknown({NilV, One, FalseV}),
           {Assigned("y", OfCondition(Single(a))) :
                a \in {Atom("nil?", "x"), Not(Atom("nil?", "x")), Not(Atom("read", "x")),
                       Atom("read", "y")}}
               \union {Assigned("y", Literal(One)), Assigned("x", Untyped)},
           Either({Atom(op, "x") : op \in {"read", "nil?", "==nil"}} \union {Atom("read", "y")})
               \union {Single(Atom("!=nil", "x")), Single(Atom("&.", "x"))},
           {})

Boxes == {NilV, Object("Foo"), Object("Bar"), Object("Base")}
FooOrBar == MCJoin(OfClass("Foo"), OfClass("Bar"))

\* class tests and case.
ClassTested ==
    Family(Contract(Nilable(FooOrBar), {NilV, Object("Foo"), Object("Bar")})
               \union Contract(OfClass("Base"), Boxes \ {NilV})
               \union Contract(MCAny, Boxes \union {One})
               \union Contract(MCJoin(OfClass("Foo"), TheInteger), {Object("Foo"), One})
               \union Sample(OfClass("Foo"), Boxes),
           {Assigned("y", OfCondition(Single(a))) :
                a \in {IsA("x", "Foo"), Not(IsA("x", "Mod"))}}
               \union {Assigned("y", Literal(NilV))},
           Either({IsA("x", "Foo"), IsA("x", "Mod"), CaseEq("x", "Foo"), Atom("read", "y"),
                   Atom("respond_to?", "x")}),
           {<< "x", OfClass(name) >> : name \in {"Foo", "Mod", "Base"}})

\* arrays that begin empty, in and out of blocks.
ArrayTested ==
    Family(Contract(ArrayType(TheInteger), {Array({}), Array({One})})
               \union Contract(MCAny, {NilV, Array({})}),
           {Assigned("x", Literal(Array({}))), Push("x", One), Push("x", NilV),
            InBlock(Push("x", One)), InBlock(Push("x", NilV)), InBlock(Assigned("x", Literal(Array({})))),
            Assigned("y", OfFirst("x")), Assigned("x", Literal(NilV))},
           Either({Atom("empty?", "x"), Atom("read", "x"), Atom("read", "y")}),
           {})

\* hash literals and the keys written into them.
HashTested ==
    Family(Contract(MCAny, {NilV}),
           {Assigned("x", Literal(h)) : h \in {Hash(Missing, Missing), Hash(One, Missing),
                                              Hash(NilV, One)}}
               \union {Store("x", k, v) : k \in {"k", "j"}, v \in {NilV, One}}
               \union {InBlock(Store("x", "j", v)) : v \in {NilV, One}}
               \union {Assigned("y", OfKey("x", k)) : k \in {"k", "j"}},
           Either({Atom("read", "x"), Atom("read", "y"), Atom("nil?", "y")}),
           {})

\* literal booleans that a block overwrites.
BooleanTested ==
    Family(Contract(Bool, {TrueV, FalseV}) \union Contract(MCJoin(Bool, MCNil), {NilV, TrueV}),
           {Assigned("y", Literal(v)) : v \in {TrueV, FalseV, NilV}}
               \union {InBlock(Assigned("y", Literal(v))) : v \in {TrueV, FalseV, NilV}}
               \union {InBlock(Assigned("x", Literal(TrueV))), Assigned("y", OfCondition(Single(Atom("read", "x"))))},
           Either({Atom("read", "x"), Atom("read", "y")}),
           {})

\* an instance variable, refined on the way.
IvarTested ==
    Family(Contract(Maybe, {NilV, One}) \union Contract(MCAny, {NilV, One}),
           {Assigned("@v", Literal(v)) : v \in {NilV, One}}
               \union {Assigned("@v", OfCondition(Single(Atom("read", "x")))),
                        LogicalWrite("@v", FALSE, Literal(One)), LogicalWrite("@v", TRUE, Literal(One)),
                        LogicalWrite("x", FALSE, Literal(One)), LogicalWrite("x", TRUE, Literal(One)),
                        Assigned("y", OfCondition(Single(Atom("read", "@v"))))},
           Either({Atom("read", "@v"), Atom("nil?", "@v"), Atom("read", "x"), Atom("==nil", "@v")}),
           {<< "@v", MCNil >>})

\* && and ||, whose right operand sees what the left one proved.
LogicalTested ==
    Family({[Initially("x", Maybe, v) EXCEPT !.env.locals["y"] = t, !.store["y"] = w] :
                v \in {NilV, One}, t \in {Maybe, MCAny}, w \in {NilV, One}},
           {Assigned("@v", OfCondition(And(Atom("read", "x"), Atom("read", "y")))),
            Assigned("@v", OfCondition(Or(Atom("read", "x"), Atom("nil?", "y")))),
            Assigned("@v", OfCondition(Or(Atom("nil?", "x"), Atom("read", "y")))),
            Assigned("x", Untyped)},
           {[kind |-> kind, left |-> a, right |-> b] :
                kind \in {"and", "or"},
                a \in {Atom("read", "x"), Not(Atom("read", "x")), Atom("nil?", "x"), IsA("x", "Foo")},
                b \in {Atom("read", "y"), Not(Atom("read", "y")), Atom("nil?", "y"), Atom("nil?", "x")}},
           {})
MCFamilies == << NilTested, ClassTested, ArrayTested, HashTested, BooleanTested, IvarTested,
                 LogicalTested >>
\* Longer bodies where there is less to choose from.
MCMaxSteps == << 4, 3, 5, 5, 4, 4, 3 >>

-----------------------------------------------------------------------------
(* Bodies with one of the excluded shapes.                                 *)

\* if ...; x << 1; end; x << nil
Accumulated ==
    << Family(Contract(MCAny, {NilV}),
              {Assigned("x", Literal(Array({}))), Push("x", One), Push("x", NilV)},
              {Single(Atom("read", "y"))}, {}) >>

\* y = x.nil?; x = 1
Reassigned ==
    << Family(Contract(Maybe, {NilV}),
              {Assigned("y", OfCondition(Single(Atom("nil?", "x")))), Assigned("x", Literal(One))},
              {Single(Atom("read", "y"))}, {}) >>
FiveSteps == << 5 >>
=============================================================================
