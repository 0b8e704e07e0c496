--------------------------- MODULE FlowNarrowing ---------------------------
(***************************************************************************)
(* Statements and conditions over a few locals and one instance variable:  *)
(* what cfg_transfer (value.rs, patterns.rs, flow.rs, assignment.rs, the   *)
(* branches of body.rs) makes of the environment, beside a store that runs *)
(* them.  A branch follows the store; the environment of the other arm is  *)
(* kept in saved, for the join after the conditional, or dropped when that *)
(* arm leaves the method.                                                  *)
(***************************************************************************)
EXTENDS Environment, Naturals

CONSTANTS
    IvarType,               \* what the shared table says of them, nil included
    Scalar, Element,        \* run-time values without parts; those that containers hold
    Class,                  \* the types that is_a?, === and case ask about, nil included
    Describes(_, _),        \* the value is one of the type
    IsAssignable(_, _),
    MeetPredicate(_, _),    \* meet_predicate_type, without_predicate_type of a class test
    WithoutPredicate(_, _),
    CaseReachability(_, _), \* case_match_reachability
    HashOf(_, _),           \* the type Hash[k, v]
    HashValueOf(_),         \* v of Hash[k, v]; Absent for any other type
    SymbolType,
    LiteralType(_),         \* the type of a literal
    Families,               \* families of bodies: [initial, statements, conditions, cases];
                            \* initial holds records [env, store, guess]
    Excluded,               \* which of Shapes the bodies do not contain
    MaxSteps                \* the bound on steps, for each family

VARIABLES
    family, \* which of Families the body is of
    env,    \* the environment at the current point
    store,  \* the value of every name
    guess,  \* names whose type is a sample of the calls seen: no promise about the store
    saved,  \* the environment of the other arm; Absent
    lost,   \* the store took a branch that is deemed unreachable
    steps

Shapes == {"alias", "placeholder", "optional", "refinement", "operand", "respond"}
ASSUME ExcludedAssumption == Excluded \subseteq Shapes

vars == << family, env, store, guess, saved, lost, steps >>

NilValue == << "nil" >>
FalseValue == << "false" >>
TrueValue == << "true" >>
BoolValue(b) == IF b THEN TrueValue ELSE FalseValue
Truthy(v) == v \notin {NilValue, FalseValue}
Missing == << "missing" >>           \* under a key that a hash does not have
ArrayValue(vs) == << "array", vs >>  \* an array that holds just these, in some order
HashValue(h) == << "hash", h >>
Value == Scalar \union {ArrayValue(vs) : vs \in SUBSET Element}
                \union {HashValue(h) : h \in [Key -> Element \union {Missing}]}
IsArray(v) == v[1] = "array"
IsHash(v) == v[1] = "hash"
Holds(v) == \/ IsArray(v) /\ v[2] # {}
            \/ IsHash(v) /\ \E k \in Key : v[2][k] # Missing
ValueAt(v, k) == IF v[2][k] = Missing THEN NilValue ELSE v[2][k]
Responds(v) == v = << "integer" >>   \* to the method respond_to? asks for

-----------------------------------------------------------------------------
(* Narrowing, value.rs.  An atom is a read of a name or a test of one,     *)
(* possibly negated; a condition is an atom or two of them with && or ||.  *)

ReadType(e, n) == IF n \in Ivar /\ ~ Contains(e, n) THEN IvarType ELSE Get(e, n)

Part(t, truthy) == IF truthy THEN TruthyPart(t) ELSE FalsyPart(t)

\* A predicate stored in a local narrows what it is about, not the local.
Proven(current, alias, truthy) ==
    IF alias.expected = Absent THEN Part(current, truthy)
    ELSE IF truthy THEN Meet(current, alias.expected)
    ELSE Without(current, alias.expected)

NarrowSource(e, alias, truthy) ==
    LET current == Get(e, alias.source)
        bound == Bind(e, alias.source, Meet(current, Proven(current, alias, truthy)))
    IN  IF alias.expected = Absent THEN SetKnownTruthiness(bound, alias.source, truthy) ELSE bound

\* NarrowAlias with one slip: the negation is forgotten.
NarrowAliasPositive(e, alias, truthy) == NarrowSource(e, alias, truthy)

NarrowAlias(e, alias, truthy) == NarrowSource(e, alias, truthy # alias.negated)

\* The type an open local has in a branch its samples never take.
GradualPart(current, truthy) ==
    LET narrowed == Meet(current, Part(current, truthy))
    IN  IF narrowed # NeverType THEN narrowed ELSE IF truthy THEN AnyType ELSE current

NarrowedLocal(e, n, current, truthy) ==
    IF IsOpen(e, n) THEN GradualPart(current, truthy) ELSE Meet(current, Part(current, truthy))

NarrowLocal(e, n, truthy) ==
    IF e.alias[n] # Absent THEN NarrowAlias(e, e.alias[n], truthy)
    ELSE SetKnownTruthiness(Bind(e, n, NarrowedLocal(e, n, Get(e, n), truthy)), n, truthy)

NarrowRead(e, n, truthy) ==
    IF n \in Ivar THEN Bind(e, n, Meet(ReadType(e, n), Part(ReadType(e, n), truthy)))
    ELSE NarrowLocal(e, n, truthy)

ClassTests == {"is_a?", "==="}
NilTests == {"nil?", "==nil", "!=nil"}

\* Which tests narrow an instance variable: a shorter list than for a local.
NarrowsIvar(op) == op \in {"nil?"} \union ClassTests

NarrowedByTest(current, a, truthy) ==
    CASE a.op \in ClassTests -> IF truthy THEN MeetPredicate(current, a.class)
                                ELSE Without(current, a.class)
      [] a.op \in NilTests   -> IF truthy = (a.op # "!=nil") THEN Meet(current, NilType)
                                ELSE Without(current, NilType)

NarrowTo(e, a, truthy, current, narrowed) ==
    IF a.op = "respond_to?" THEN IF truthy THEN SetKnownRespondTo(e, a.name) ELSE e
    ELSE IF a.name \in Ivar THEN IF NarrowsIvar(a.op) THEN narrowed ELSE e
    ELSE IF IsInferred(e, a.name) /\ a.op \notin ClassTests THEN e
    ELSE IF a.op = "empty?"
         THEN IF ElementOf(current) # Absent THEN SetKnownNonempty(e, a.name, ~ truthy) ELSE e
    ELSE IF IsInferred(e, a.name) /\ a.op = "is_a?" THEN MarkInferred(narrowed, a.name)
    ELSE narrowed

\* NarrowTest with one slip: the false branch of empty? is taken for the true one.
NarrowTestEmptySwapped(e, a, truthy) ==
    NarrowTo(e, a, (a.op = "empty?") # truthy, ReadType(e, a.name),
             IF a.op \in ClassTests \union NilTests
             THEN Bind(e, a.name, NarrowedByTest(ReadType(e, a.name), a, truthy)) ELSE e)

\* C === n takes a sample of n for nothing: n is a C then.
NarrowTest(e, a, truthy) ==
    LET sample == a.op = "===" /\ truthy /\ a.name \notin Ivar /\ IsInferred(e, a.name)
        current == IF sample THEN AnyType ELSE ReadType(e, a.name)
    IN  NarrowTo(e, a, truthy, current,
                 IF a.op \in ClassTests \union NilTests
                 THEN Bind(e, a.name, NarrowedByTest(current, a, truthy)) ELSE e)

\* n&.m is true only for an n that is not nil; m itself proves nothing.
NarrowSafeCall(e, n, truthy) == IF truthy THEN Bind(e, n, Without(ReadType(e, n), NilType)) ELSE e

NarrowAtom(e, a, truthy) ==
    LET holds == truthy # a.negated
    IN  CASE a.op = "read" -> NarrowRead(e, a.name, holds)
          [] a.op = "&."   -> NarrowSafeCall(e, a.name, holds)
          [] OTHER         -> NarrowTest(e, a, holds)

\* A condition that decides both operands narrows by both; otherwise one of two paths was taken.
NarrowRight(c, truthy, left, narrowed) ==
    IF c.kind = "atom" THEN left
    ELSE IF truthy = (c.kind = "and") THEN narrowed
    ELSE JoinEnvironment(left, narrowed)

\* NarrowCondition with one slip: a false && is taken to prove both operands false.
NarrowConditionBoth(e, c, truthy) ==
    IF c.kind = "atom" THEN NarrowAtom(e, c.left, truthy)
    ELSE NarrowAtom(NarrowAtom(e, c.left, truthy), c.right, truthy)

NarrowCondition(e, c, truthy) ==
    NarrowRight(c, truthy, NarrowAtom(e, c.left, truthy),
                NarrowAtom(NarrowAtom(e, c.left, c.kind = "and"), c.right, truthy))

-----------------------------------------------------------------------------
(* Evaluating a condition as an expression: lower_logical and the safe     *)
(* call make blocks of their own, with narrowed environments that join.    *)

IsLocalRead(a) == a.op = "read" /\ a.name \notin Ivar
ReadsOpen(e, a) == IsLocalRead(a) /\ IsOpen(e, a.name)
ContainsOpenLocal(e, c) == ReadsOpen(e, c.left) \/ (c.kind # "atom" /\ ReadsOpen(e, c.right))

BothWays == << TRUE, TRUE >>
Truthiness(t) == << TruthyPart(t) # NeverType, FalsyPart(t) # NeverType >>
Swap(r) == << r[2], r[1] >>
Way(r, truthy) == IF truthy THEN r[1] ELSE r[2]

Evaluated(type, e) == [type |-> type, env |-> e]

\* narrow_pattern_value tests the place itself: what is known of a hash there stays known.
BindTested(e, n, t) == SetHashShape(Bind(e, n, t), n, e.shape[n])

\* The join of two arms, or the one arm that is possible.
JoinArms(reach, first, second) ==
    IF reach = BothWays THEN JoinEnvironment(first, second) ELSE IF reach[1] THEN first ELSE second

\* The nil test of n&.m splits the environment; what follows joins it again.
SplitOnNil(e, n, isNil, notNil) ==
    JoinArms(IF IsOpen(e, n) THEN BothWays ELSE << isNil # NeverType, notNil # NeverType >>,
             BindTested(e, n, isNil), BindTested(e, n, notNil))

AfterSafeCall(e, n) ==
    SplitOnNil(e, n, Meet(ReadType(e, n), NilType), Without(ReadType(e, n), NilType))

EvaluateAtom(e, a) ==
    CASE a.op = "read" /\ ~ a.negated -> Evaluated(ReadType(e, a.name), e)
      [] a.op = "&."                  -> Evaluated(AnyType, AfterSafeCall(e, a.name))
      [] OTHER                        -> Evaluated(BoolType, e)

\* An open local stays possible on both sides: the branch sees an untyped value.
OperandPart(e, a, t, truthy) == IF ReadsOpen(e, a) THEN AnyType ELSE Part(t, truthy)

\* The left operand as narrow_pattern_value leaves it.  A test is not traced to its own
\* expression: the predicate used is the whole logical one, c.
NarrowOperand(e, c, t, truthy) ==
    LET a == c.left
        bound == BindTested(e, a.name, OperandPart(e, a, t, truthy))
    IN  IF a.op = "read" THEN NarrowAtom(IF a.negated THEN e ELSE bound, a, truthy)
        ELSE NarrowCondition(e, c, truthy)

OperandReachability(e, a, t) == IF ~ a.negated /\ ReadsOpen(e, a) THEN BothWays ELSE Truthiness(t)

LogicalArms(c, left, reach, existing, right) ==
    LET goesOn == c.kind = "and"
        kept == IF c.left.negated THEN Part(left.type, ~ goesOn)
                ELSE OperandPart(left.env, c.left, left.type, ~ goesOn)
    IN  IF ~ Way(reach, goesOn) THEN Evaluated(kept, existing)
        ELSE IF ~ Way(reach, ~ goesOn) THEN right
        ELSE Evaluated(Join(kept, right.type), JoinEnvironment(existing, right.env))

AfterLeft(c, left) ==
    LogicalArms(c, left, OperandReachability(left.env, c.left, left.type),
                NarrowOperand(left.env, c, left.type, c.kind # "and"),
                EvaluateAtom(NarrowOperand(left.env, c, left.type, c.kind = "and"), c.right))

EvaluateLogical(e, c) == AfterLeft(c, EvaluateAtom(e, c.left))

Evaluate(e, c) == IF c.kind = "atom" THEN EvaluateAtom(e, c.left) ELSE EvaluateLogical(e, c)

\* Reachability with one slip: a sample of the arguments decides the branch.
ReachabilityClosed(e, c, t) ==
    IF c.kind = "atom" /\ c.left.op = "read"
    THEN IF c.left.negated THEN Swap(Truthiness(ReadType(e, c.left.name)))
         ELSE Truthiness(ReadType(e, c.left.name))
    ELSE Truthiness(t)

\* conditional_reachability; e is the environment behind the condition, t the condition's type.
Reachability(e, c, t) ==
    LET a == c.left
        known == e.truthiness[a.name]
        single == c.kind = "atom" /\ a.op = "read"
        answer == IF known # Absent /\ a.name \notin Ivar THEN << known, ~ known >>
                  ELSE Truthiness(ReadType(e, a.name))
    IN  IF ContainsOpenLocal(e, c) THEN BothWays
        ELSE IF single THEN IF a.negated THEN Swap(answer) ELSE answer
        ELSE Truthiness(t)

-----------------------------------------------------------------------------
(* Statements, assignment.rs and the calls that change a local.            *)

\* owned_predicate_alias: what a local bound to the atom says about another one.
AliasOf(e, x) ==
    LET a == x.cond.left
        own == e.alias[a.name]
        isAtom == x.kind = "condition" /\ x.cond.kind = "atom" /\ a.name \notin Ivar
        tested == [ source |-> a.name, negated |-> a.negated,
                    expected |-> IF a.op = "nil?" THEN NilType ELSE a.class ]
        plain == [source |-> a.name, negated |-> a.negated, expected |-> Absent]
    IN  IF ~ isAtom \/ a.op \notin {"nil?", "is_a?", "read"} THEN Absent
        ELSE IF a.op # "read" THEN tested
        ELSE IF own = Absent THEN plain
        ELSE [own EXCEPT !.negated = @ # a.negated]

\* The type and the environment an expression leaves.
EvaluateValue(e, x) ==
    CASE x.kind = "literal"   -> Evaluated(LiteralType(x.value), e)
      [] x.kind = "untyped"   -> Evaluated(AnyType, e)
      [] x.kind = "condition" -> Evaluate(e, x.cond)
      [] x.kind = "key"       -> Evaluated(ValueFor(e.shape[x.name], x.key), e)
      [] x.kind = "first"     -> Evaluated(IF x.name \in e.nonempty THEN ElementOf(Get(e, x.name))
                                           ELSE Join(ElementOf(Get(e, x.name)), NilType), e)

\* The shape of {} and of {key: value}; no shape for anything else.
LiteralShape(x) ==
    IF x.kind # "literal" \/ ~ IsHash(x.value) THEN Absent
    ELSE [ entries |-> [k \in Key |-> IF x.value[2][k] = Missing THEN Absent
                                      ELSE LiteralType(x.value[2][k])],
           unknown |-> Absent ]

IsEmptyArray(x) == x.kind = "literal" /\ x.value = ArrayValue({})

\* transfer_write_inner for a local; logical is set for the write of ||= and &&=.
WriteLocal(e, n, x, type, logical) ==
    LET t == IF logical THEN Without(type, NilType) ELSE type
        bound == BindPredicateAlias(e, n, t, AliasOf(Bind(e, n, t), x))
    IN  SetHashShape([bound EXCEPT !.openArray = IF IsEmptyArray(x) THEN @ \union {n} ELSE @],
                     n, LiteralShape(x))

\* A gradual contract of the variable outlives a concrete write.
WriteIvar(e, n, type, logical) ==
    LET current == Get(e, n)
        kept == IF Contains(e, n) /\ current = AnyType
                THEN IF type = NilType THEN current ELSE Without(current, NilType)
                ELSE type
    IN  Bind(e, n, IF logical THEN Without(kept, NilType) ELSE kept)

Write(e, n, x, type, logical) ==
    IF n \in Ivar THEN WriteIvar(e, n, type, logical) ELSE WriteLocal(e, n, x, type, logical)

\* n ||= v and n &&= v are a branch on n of their own; the right side of ||= is always looked at.
ReadOf(n) == LET a == [op |-> "read", name |-> n, negated |-> FALSE, class |-> Absent]
             IN  [kind |-> "atom", left |-> a, right |-> a]

LogicalArm(e, s, truthy) == NarrowOperand(e, ReadOf(s.name), ReadType(e, s.name), truthy)

Assign(s, value) == Write(value.env, s.name, s.value, value.type, s.kind = "logical")

LogicalAssign(e, s, written) ==
    JoinArms(IF s.goesOn THEN OperandReachability(e, ReadOf(s.name).left, ReadType(e, s.name))
             ELSE BothWays,
             written, LogicalArm(e, s, ~ s.goesOn))

AfterAssignment(e, s, written) ==
    IF s.kind = "logical" THEN LogicalAssign(e, s, written) ELSE written

\* A literal key: its entry takes the new type; a key the shape lacks widens the hash itself.
WriteKey(e, n, k, t) ==
    LET shape == e.shape[n]
        known == shape # Absent /\ shape.entries[k] # Absent
        value == HashValueOf(Get(e, n))
        wide == HashOf(SymbolType, IF value = AnyType THEN t ELSE Join(value, t))
        written == IF shape = Absent THEN e ELSE SetHashShape(e, n, WriteEntry(shape, k, t))
    IN  IF known THEN written ELSE Retype(written, n, wide)

\* Where the value of an assignment is evaluated.
Before(e, s) == IF s.kind = "logical" THEN LogicalArm(e, s, s.goesOn) ELSE e

Simple(e, s) ==
    CASE s.kind \in {"assign", "logical"} ->
            AfterAssignment(e, s, Assign(s, EvaluateValue(Before(e, s), s.value)))
      [] s.kind = "push"    -> WidenOpenArray(e, s.name, LiteralType(s.value.value))
      [] s.kind = "write"   -> WriteKey(e, s.name, s.key, LiteralType(s.value.value))
      [] s.kind = "skip"    -> e

\* A block: its body is transferred once, on the widened environment of its creation, and what
\* it changed is joined back.
JoinBlock(e, after, changed) ==
    LET Clear(f) == [n \in Name |-> IF n \in changed THEN Absent ELSE f[n]]
    IN  [ locals |-> [n \in Name |-> IF n \in changed THEN Join(Get(e, n), Get(after, n))
                                     ELSE e.locals[n]],
          alias |-> Clear(e.alias), truthiness |-> Clear(e.truthiness), shape |-> Clear(e.shape),
          inferred |-> e.inferred \ changed, provisional |-> e.provisional \ changed,
          openArray |-> e.openArray \ changed, nonempty |-> e.nonempty \ changed,
          responds |-> WithoutResponds(e, changed) ]

\* Block with one slip: what the block did replaces what was known before.
BlockReplaces(e, after) == after

Block(e, after) ==
    JoinBlock(e, after, {n \in Name : Contains(e, n) /\ ~ LocalFactsUnchanged(e, after, n)})

\* What a captured local is when a block starts; an append only widens the local itself.
Captured(e, s) == IF s.inBlock /\ s.kind # "push" THEN WidenCapturedTruthiness(e, s.name) ELSE e

AfterBody(e, s, after) == IF s.inBlock THEN Block(e, after) ELSE after

Execute(e, s) == AfterBody(e, s, Simple(Captured(e, s), s))

-----------------------------------------------------------------------------
(* What Ruby does with them.                                               *)

Passes(v, a) ==
    CASE a.op \in {"nil?", "==nil"} -> v = NilValue
      [] a.op = "!=nil"             -> v # NilValue
      [] a.op \in ClassTests        -> Describes(v, a.class)
      [] a.op = "empty?"            -> ~ Holds(v)
      [] a.op = "respond_to?"       -> Responds(v)

\* empty? is asked of containers only: of another value it raises.
AtomValues(st, a) ==
    LET v == st[a.name]
    IN  IF a.op = "empty?" /\ ~ IsArray(v) /\ ~ IsHash(v) THEN {}
        ELSE IF a.op = "&." THEN IF v = NilValue THEN {NilValue} ELSE Scalar
        ELSE IF a.op = "read" THEN {IF a.negated THEN BoolValue(~ Truthy(v)) ELSE v}
        ELSE {BoolValue(Passes(v, a) # a.negated)}

\* The value of the left operand, and of the condition.
Outcomes(st, c) ==
    UNION { IF c.kind # "atom" /\ Truthy(l) = (c.kind = "and")
            THEN {[left |-> l, value |-> r] : r \in AtomValues(st, c.right)}
            ELSE {[left |-> l, value |-> l]} : l \in AtomValues(st, c.left) }

RunValues(st, x) ==
    CASE x.kind = "literal"   -> {x.value}
      [] x.kind = "untyped"   -> Scalar
      [] x.kind = "condition" -> {o.value : o \in Outcomes(st, x.cond)}
      [] x.kind = "key"       -> {ValueAt(st[x.name], x.key)}
      [] x.kind = "first"     -> IF st[x.name][2] = {} THEN {NilValue} ELSE st[x.name][2]

RunSimple(st, s) ==
    LET set(v) == [st EXCEPT ![s.name] = v]
        old == st[s.name]
        v == s.value.value
    IN  CASE s.kind = "assign"  -> {set(w) : w \in RunValues(st, s.value)}
          [] s.kind = "logical" -> IF Truthy(old) = s.goesOn
                                   THEN {set(w) : w \in RunValues(st, s.value) \ {NilValue}} ELSE {st}
          [] s.kind = "push"    -> {set(ArrayValue(old[2] \union {v}))}
          [] s.kind = "write"   -> {set(HashValue([old[2] EXCEPT ![s.key] = v]))}
          [] s.kind = "skip"    -> {st}

\* A block runs any number of times; running one of these statements twice is running it once.
Run(st, s) == RunSimple(st, s) \union (IF s.inBlock THEN {st} ELSE {})

-----------------------------------------------------------------------------
(* Which statements the model runs.                                        *)

NamesIn(x) ==
    CASE x.kind \in {"key", "first"} -> {x.name}
      [] x.kind = "condition"        -> {x.cond.left.name, x.cond.right.name}
      [] OTHER                       -> {}

Assigns(s) == s.kind \in {"assign", "logical"}
IsLogical(x) == x.kind = "condition" /\ x.cond.kind # "atom"

\* A sample may rule a branch out once it is narrowed; it may not while the local is open.
Trusted(e, g, c) ==
    \A a \in {c.left, c.right} :
        /\ a.name \in g => a.op = "read" /\ IsOpen(e, a.name)
        /\ c.kind # "atom" /\ e.alias[a.name] # Absent => e.alias[a.name].source \notin g

\* Programs without a type error: no container is written under a second name, a value that is
\* appended or stored fits, an element that is nil is never asked for by first, a block writes
\* no local it does not find.  No narrowed sample decides what an expression evaluates.
Accepted(e, st, g, s) ==
    LET fits(t, expected) == IsAssignable(t, expected)
        literal == LiteralType(s.value.value)
    IN  /\ Assigns(s) /\ s.value.kind = "condition" =>
              \A n \in NamesIn(s.value) : ~ IsArray(st[n]) /\ ~ IsHash(st[n])
        /\ Assigns(s) /\ IsLogical(s.value) => Trusted(Before(e, s), g, s.value.cond)
        /\ s.kind = "logical" /\ s.name \in g => IsOpen(e, s.name)
        /\ s.kind = "assign" /\ s.value.kind = "first" =>
              /\ ElementOf(Get(e, s.value.name)) # Absent /\ IsArray(st[s.value.name])
              /\ NilValue \notin st[s.value.name][2]
        /\ s.kind = "assign" /\ s.value.kind = "key" =>
              e.shape[s.value.name] # Absent /\ HashValueOf(Get(e, s.value.name)) # Absent
        /\ s.kind = "push" =>
              /\ IsArray(st[s.name]) /\ ElementOf(Get(e, s.name)) # Absent
              /\ s.name \in e.openArray \/ fits(literal, ElementOf(Get(e, s.name)))
        /\ s.kind = "write" =>
              /\ IsHash(st[s.name]) /\ HashValueOf(Get(e, s.name)) # Absent
              /\ e.shape[s.name] # Absent /\ e.shape[s.name].entries[s.key] # Absent =>
                    fits(literal, ValueType(e.shape[s.name]))
        /\ s.inBlock => Contains(e, s.name) /\ s.name \notin g

Writes(s) == IF Assigns(s) THEN {s.name} ELSE {}

\* No predicate about the name is stored in a local, the name itself included.
KeepsAliases(e, s) ==
    /\ \A n \in Name : e.alias[n] # Absent => e.alias[n].source \notin Writes(s)
    /\ Assigns(s) => s.name \notin NamesIn(s.value)

\* A container whose element type is Any, the placeholder of an empty literal, is empty.
KeepsPlaceholder(e, st, s) ==
    /\ s.kind = "push" /\ ElementOf(Get(e, s.name)) = AnyType => st[s.name][2] = {}
    /\ s.kind = "write" /\ HashValueOf(Get(e, s.name)) = AnyType =>
          \A k \in Key : st[s.name][2][k] = Missing

\* nil is not written under a key that one path only added: it fits the shape, not the hash.
KeepsAggregate(e, s) ==
    s.kind = "write" /\ e.shape[s.name] # Absent /\ e.shape[s.name].entries[s.key] # Absent =>
        IsAssignable(LiteralType(s.value.value), HashValueOf(Get(e, s.name)))

\* A refinement of an instance variable that one path only has is joined with nil.
SameRefinements(e, f) == \A n \in Ivar : Contains(e, n) <=> Contains(f, n)

\* ... also inside an expression: what only one of its paths would narrow is narrowed before.
Refined(e, c) == \A a \in {c.left, c.right} : a.name \in Ivar => Contains(e, a.name)

KeepsRefinements(e, s) ==
    Assigns(s) /\ s.value.kind = "condition" /\ (s.kind = "logical" \/ IsLogical(s.value)) =>
        Refined(e, s.value.cond)

\* The value of a logical expression whose left operand is a test: its right operand is read
\* under the predicate of the whole.
KeepsOperand(s) == Assigns(s) /\ IsLogical(s.value) => s.value.cond.left.op = "read"

\* Nothing that respond_to? was asked of is written again where the fact is not cleared.
KeepsResponds(e, s) == \A n \in Writes(s) \intersect e.responds : n \notin Ivar /\ ~ s.inBlock

Kept(e, st, s) ==
    /\ "operand" \in Excluded => KeepsOperand(s)
    /\ "alias" \in Excluded => KeepsAliases(e, s)
    /\ "placeholder" \in Excluded => KeepsPlaceholder(e, st, s)
    /\ "optional" \in Excluded => KeepsAggregate(e, s)
    /\ "refinement" \in Excluded => KeepsRefinements(e, s)
    /\ "respond" \in Excluded => KeepsResponds(e, s)

GuessAfter(g, s) ==
    (IF s.kind = "assign" THEN g \ {s.name} ELSE g)
        \union (IF Assigns(s) /\ NamesIn(s.value) \intersect g # {} THEN {s.name} ELSE {})

-----------------------------------------------------------------------------
Init ==
    /\ family \in DOMAIN Families
    /\ \E start \in Families[family].initial : env = start.env /\ store = start.store /\ guess = start.guess
    /\ saved = Absent /\ lost = FALSE /\ steps = 0

Step == ~ lost /\ steps < MaxSteps[family] /\ steps' = steps + 1 /\ UNCHANGED family

LeftAlive(c, left, o) ==
    c.kind # "atom" => Way(OperandReachability(left.env, c.left, left.type), Truthy(o.left))

\* One statement.
Do(s) ==
    /\ Step
    /\ Accepted(Captured(env, s), store, guess, s) /\ Kept(env, store, s)
    /\ env' = Execute(env, s)
    /\ store' \in Run(store, s)
    /\ guess' = GuessAfter(guess, s)
    /\ UNCHANGED << saved, lost >>

\* The other arm, which assigns a literal if it does anything.
Arm(e, g, s) ==
    [ env |-> IF s.kind = "skip" THEN e
              ELSE Write(e, s.name, s.value, LiteralType(s.value.value), FALSE),
      guess |-> GuessAfter(g, s) ]

\* if c: the store decides; the other arm runs s, or leaves the method.
Take(d, c, s, leaves, e, other) ==
    /\ env' = NarrowCondition(e, c, d)
    /\ leaves \/ Writes(s) = {} \/ Kept(other, store, s)
    /\ saved' = IF leaves THEN Absent ELSE Arm(other, guess, s)
    /\ UNCHANGED lost

Lose == lost' = TRUE /\ UNCHANGED << env, saved >>

Branch(c, s, leaves) ==
    /\ Step
    /\ saved = Absent \/ leaves
    /\ "refinement" \in Excluded /\ c.kind # "atom" => Refined(env, c)
    /\ \E after \in {Evaluate(env, c)}, left \in {EvaluateAtom(env, c.left)} :
       \E reach \in {Reachability(after.env, c, after.type)}, o \in Outcomes(store, c) :
          LET d == Truthy(o.value)
          IN  IF LeftAlive(c, left, o) /\ Way(reach, d)
              THEN Take(d, c, s, leaves \/ ~ Way(reach, ~ d), after.env,
                        NarrowCondition(after.env, c, ~ d))
              ELSE Trusted(env, guess, c) /\ Lose
    /\ UNCHANGED << store, guess >>

\* case n when a class: narrowed by rules of its own, of patterns.rs.
Case(n, class, leaves) ==
    LET current == ReadType(env, n)
        reach == IF n \notin Ivar /\ IsOpen(env, n) THEN BothWays
                 ELSE CaseReachability(current, class)
        d == Describes(store[n], class)
        arm(matches) == BindTested(env, n, IF matches THEN MeetPredicate(current, class)
                                           ELSE WithoutPredicate(current, class))
    IN  /\ Step
        /\ saved = Absent \/ leaves
        /\ IF Way(reach, d)
           THEN /\ env' = arm(d)
                /\ saved' = IF leaves \/ ~ Way(reach, ~ d) THEN Absent
                            ELSE [env |-> arm(~ d), guess |-> guess]
                /\ UNCHANGED lost
           ELSE n \notin guess /\ Lose
        /\ UNCHANGED << store, guess >>

\* The end of the conditional; either arm may come first in the source.
Merge ==
    /\ Step
    /\ saved # Absent
    /\ "refinement" \in Excluded => SameRefinements(env, saved.env)
    /\ env' \in {JoinEnvironment(env, saved.env), JoinEnvironment(saved.env, env)}
    /\ guess' = guess \union saved.guess
    /\ saved' = Absent
    /\ UNCHANGED << store, lost >>

Stop == (lost \/ steps = MaxSteps[family]) /\ UNCHANGED vars

Skip == [kind |-> "skip", inBlock |-> FALSE]

Next ==
    LET body == Families[family]
        assignments == {s \in body.statements : s.kind = "assign" /\ s.value.kind = "literal"
                                                 /\ ~ s.inBlock}
    IN  \/ \E s \in body.statements : Do(s)
        \/ \E c \in body.conditions, s \in assignments \union {Skip}, leaves \in BOOLEAN :
              /\ leaves => s = Skip
              /\ Branch(c, s, leaves)
        \/ \E k \in body.cases, leaves \in BOOLEAN : Case(k[1], k[2], leaves)
        \/ Merge
        \/ Stop

Spec == Init /\ [][Next]_vars

-----------------------------------------------------------------------------
(* Properties.                                                             *)

TypeOK ==
    /\ env \in Environment /\ (saved = Absent \/ saved.env \in Environment)
    /\ store \in [Name -> Value] /\ guess \subseteq Name /\ lost \in BOOLEAN

Described(e, st, g) == \A n \in Name \ g : Describes(st[n], ReadType(e, n))

\* The type of a local or an instance variable describes its value on every path that led here:
\* narrowing, joining, blocks and appends exclude nothing that can be there (value.rs, patterns.rs).
EnvironmentDescribes == TypeOK /\ Described(env, store, guess)

FactHolds(e, st, n) ==
    /\ e.truthiness[n] # Absent => Truthy(st[n]) = e.truthiness[n]
    /\ n \in e.nonempty => Holds(st[n])
    /\ n \in e.responds => Responds(st[n])

\* What is known of a name's truthiness, of a container not being empty or of a method being
\* there is so: no fact outlives the value it was learned from (environment.rs:83-300,
\* value.rs:374-549).
FactsHold == \A n \in Name : FactHolds(env, store, n)

\* Whether the value of the local has the truthiness that the value of its source implies.
AliasHolds(alias, st, n) ==
    alias # Absent =>
        (Truthy(st[n]) # alias.negated
             <=> IF alias.expected = Absent THEN Truthy(st[alias.source])
                 ELSE Describes(st[alias.source], alias.expected))

\* A predicate stored in a local still tells of its source what it told when it was stored
\* (assignment.rs:282-365, environment.rs:463-478).
AliasesHold == \A n \in Name : AliasHolds(env.alias[n], store, n)

ShapeHolds(shape, v) ==
    shape # Absent => IsHash(v) /\ \A k \in Key : Describes(ValueAt(v, k), ValueFor(shape, k))

\* What a hash literal's shape says of a key is what the hash holds there (hash_shape.rs).
ShapesHold == \A n \in Name : ShapeHolds(env.shape[n], store[n])

\* A branch the program takes is never deemed unreachable; in particular not because of a sample
\* of the arguments seen, while the parameter is open (flow.rs:25-127, environment.rs:179-182).
BranchAlive == ~ lost
=============================================================================
