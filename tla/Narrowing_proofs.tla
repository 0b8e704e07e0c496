-------------------------- MODULE Narrowing_proofs --------------------------
(***************************************************************************)
(* What the operations of Environment and the narrowing of FlowNarrowing   *)
(* do to an environment that is right about a store (Fits): setters,       *)
(* joins, atoms, conditions and their evaluation keep it right on the side *)
(* the store takes, and never deem that side unreachable.                  *)
(***************************************************************************)
EXTENDS FlowLaws, TLAPS

(* Every value has a truthiness, and a part of a type describes the values that have it. *)
LEMMA PartDescribes ==
    ASSUME NEW t \in Type, NEW v \in Value, Describes(v, t)
    PROVE  /\ Part(t, Truthy(v)) \in Type
           /\ Describes(v, Part(t, Truthy(v)))
BY PartLaw, PartTypes DEF Part

(* Every value without parts is a value. *)
LEMMA ScalarsAreValues == Scalar \subseteq Value
BY DEF Value

(* A name that may be narrowed is read as a type. *)
LEMMA ReadTypes ==
    ASSUME NEW e \in Environment, NEW n \in Name
    PROVE  /\ Get(e, n) \in Type
           /\ ReadType(e, n) \in Type
BY ConstantTypes DEF Environment, ReadType, Get, Contains

(* Binding is an assignment to each field. *)
LEMMA BindTyped ==
    ASSUME NEW e, Typed(e), NEW n \in Name, NEW t \in Type
    PROVE  Typed(Bind(e, n, t))
<1> DEFINE f == Bind(e, n, t)
<1>1. f \in Environment
  BY DEF Bind, Typed, Environment, AliasOrAbsent, ShapeOrAbsent, WithoutResponds
<1>2. Closed(f)
  BY DEF Bind, Typed, Closed, Environment, IsOpen
<1> QED BY <1>1, <1>2 DEF Typed

(* Binding a name to a type that describes its value keeps the environment right. *)
LEMMA BindFits ==
    ASSUME NEW e, NEW st \in [Name -> Value], NEW g, Fits(e, st, g),
           NEW n \in Name, NEW t \in Type, n \in g \/ Describes(st[n], t)
    PROVE  Fits(Bind(e, n, t), st, g)
<1> DEFINE f == Bind(e, n, t)
<1>1. Typed(f)
  BY BindTyped DEF Fits
<1>2. Described(f, st, g)
  BY AbsentAssumption DEF Fits, Typed, Described, ReadType, Get, Contains, Bind, Environment
<1>3. \A m \in Name : FactHolds(f, st, m)
  BY DEF Fits, Typed, FactHolds, Bind, Environment, WithoutResponds
<1>4. \A m \in Name : AliasHolds(f.alias[m], st, m)
  BY DEF Fits, Typed, AliasHolds, Bind, Environment
<1>5. \A m \in Name : ShapeFits(f.shape[m], st[m])
  BY DEF Fits, Typed, ShapeFits, Bind, Environment
<1>6. UnboundAreNil(f, st)
  BY AbsentAssumption DEF Fits, Typed, UnboundAreNil, Bind, Environment, Contains
<1> QED BY <1>1, <1>2, <1>3, <1>4, <1>5, <1>6 DEF Fits

-----------------------------------------------------------------------------
(* What an operation leaves of an environment.                             *)

\* f is an environment with the refinements of e, and perhaps some of names; it stores no other
\* predicates, and respond_to? proved nothing more, but perhaps of those asked.
Within(e, f, names, asked) ==
    /\ Typed(f)
    /\ \A m \in Ivar : /\ Contains(e, m) => Contains(f, m)
                       /\ Contains(f, m) => Contains(e, m) \/ m \in names
    /\ \A m \in Name : f.alias[m] = e.alias[m] \/ f.alias[m] = Absent
    /\ \A m \in f.responds : m \in e.responds \/ m \in asked

(* Within is a preorder, and monotone in what it allows. *)
LEMMA WithinSelf ==
    ASSUME NEW e, Typed(e), NEW names, NEW asked
    PROVE  Within(e, e, names, asked)
BY DEF Within

(* What stays within an environment that stays within another stays within that one. *)
LEMMA WithinTrans ==
    ASSUME NEW e, NEW f, NEW h, NEW names, NEW asked,
           Within(e, f, names, asked), Within(f, h, names, asked)
    PROVE  Within(e, h, names, asked)
BY DEF Within

(* More names and more questions allow more. *)
LEMMA WithinMore ==
    ASSUME NEW e, NEW f, NEW names, NEW others, NEW asked, NEW others2, Within(e, f, names, asked),
           \A m \in names : m \in others, \A m \in asked : m \in others2
    PROVE  Within(e, f, others, others2)
BY DEF Within

(* An operation whose refinements are all there keeps exactly them. *)
LEMMA WithinSame ==
    ASSUME NEW e, NEW f, NEW h, NEW names, NEW asked, Within(e, f, names, asked),
           Within(e, h, names, asked), \A m \in Ivar : m \in names => Contains(e, m)
    PROVE  SameRefinements(f, h)
BY DEF Within, SameRefinements

(* The setters of an environment, one by one. *)
LEMMA BindWithin ==
    ASSUME NEW e, Typed(e), NEW n \in Name, NEW t \in Type, NEW names, NEW asked,
           n \in Ivar => n \in names
    PROVE  Within(e, Bind(e, n, t), names, asked)
<1> DEFINE f == Bind(e, n, t)
<1>1. Typed(f)
  BY BindTyped
<1>2. \A m \in Name : Contains(f, m) <=> m = n \/ Contains(e, m)
  BY AbsentAssumption DEF Contains, Bind, Typed, Environment
<1>3. \A m \in Name : f.alias[m] = e.alias[m] \/ f.alias[m] = Absent
  BY DEF Bind, Typed, Environment
<1>4. \A m \in f.responds : m \in e.responds
  BY DEF Bind, WithoutResponds
<1> QED BY <1>1, <1>2, <1>3, <1>4, NameAssumption DEF Within

(* A new type alone. *)
LEMMA RetypeWithin ==
    ASSUME NEW e, Typed(e), NEW n \in Name, NEW t \in Type, NEW names, NEW asked,
           n \in Ivar => n \in names
    PROVE  Within(e, Retype(e, n, t), names, asked)
BY AbsentAssumption, NameAssumption
   DEF Within, Contains, Retype, Typed, Closed, IsOpen, Environment

(* A known truthiness, or none. *)
LEMMA TruthinessWithin ==
    ASSUME NEW e, Typed(e), NEW n \in Name, NEW b \in BOOLEAN \union {Absent}, NEW names, NEW asked
    PROVE  Within(e, SetKnownTruthiness(e, n, b), names, asked)
BY DEF Within, Contains, SetKnownTruthiness, Typed, Closed, IsOpen, Environment

(* A container known to hold something, or no longer. *)
LEMMA NonemptyWithin ==
    ASSUME NEW e, Typed(e), NEW n \in Name, NEW known \in BOOLEAN, NEW names, NEW asked
    PROVE  Within(e, SetKnownNonempty(e, n, known), names, asked)
BY DEF Within, Contains, SetKnownNonempty, Typed, Closed, IsOpen, Environment

(* A method known to be there: the name is one that was asked. *)
LEMMA RespondWithin ==
    ASSUME NEW e, Typed(e), NEW n \in Name, NEW names, NEW asked, n \in asked
    PROVE  Within(e, SetKnownRespondTo(e, n), names, asked)
BY DEF Within, Contains, SetKnownRespondTo, Typed, Closed, IsOpen, Environment

(* A mark on a local; refinements of instance variables are never marked. *)
LEMMA InferredWithin ==
    ASSUME NEW e, Typed(e), NEW n \in Name \ Ivar, NEW names, NEW asked
    PROVE  Within(e, MarkInferred(e, n), names, asked)
BY NameAssumption DEF Within, Contains, MarkInferred, Typed, Closed, IsOpen, Environment

(* The shape of a hash. *)
LEMMA ShapeWithin ==
    ASSUME NEW e, Typed(e), NEW n \in Name, NEW shape \in ShapeOrAbsent, NEW names, NEW asked
    PROVE  Within(e, SetHashShape(e, n, shape), names, asked)
BY DEF Within, Contains, SetHashShape, Typed, Closed, IsOpen, Environment

(* A binding that keeps the shape. *)
LEMMA TestedWithin ==
    ASSUME NEW e, Typed(e), NEW n \in Name, NEW t \in Type, NEW names, NEW asked,
           n \in Ivar => n \in names
    PROVE  Within(e, BindTested(e, n, t), names, asked)
<1>1. Within(e, Bind(e, n, t), names, asked)
  BY BindWithin
<1>2. e.shape[n] \in ShapeOrAbsent
  BY DEF Typed, Environment
<1>3. Within(Bind(e, n, t), BindTested(e, n, t), names, asked)
  BY <1>1, <1>2, ShapeWithin DEF Within, BindTested
<1> QED BY <1>1, <1>3, WithinTrans

(* The entries of two shapes join to an entry, which is there when either is. *)
LEMMA EntryTypes ==
    ASSUME NEW s \in Type \union {Absent}, NEW t \in Type \union {Absent}
    PROVE  /\ JoinEntry(s, t) \in Type \union {Absent}
           /\ JoinEntry(s, t) = Absent <=> s = Absent /\ t = Absent
<1>1. \A u, v \in Type : Join(u, v) \in Type
  BY CombinedTypes
<1>2. NilType \in Type
  BY ConstantTypes
<1> QED BY <1>1, <1>2, AbsentAssumption DEF JoinEntry

(* Two shapes join to a shape. *)
LEMMA ShapeTypes ==
    ASSUME NEW s \in Shape, NEW t \in Shape
    PROVE  JoinShape(s, t) \in Shape
BY EntryTypes DEF Shape, JoinShape

(* A join of two environments is one, with the refinements of either. *)
LEMMA JoinTyped ==
    ASSUME NEW e, NEW f, Typed(e), Typed(f)
    PROVE  /\ Typed(JoinEnvironment(e, f))
           /\ \A m \in Name : Contains(JoinEnvironment(e, f), m) <=> Contains(e, m) \/ Contains(f, m)
<1> DEFINE j == JoinEnvironment(e, f)
<1>1. \A n \in Name : /\ JoinLocal(e.locals[n], f.locals[n]) \in Type \union {Absent}
                      /\ JoinLocal(e.locals[n], f.locals[n]) = Absent
                            <=> e.locals[n] = Absent /\ f.locals[n] = Absent
  BY EntryTypes DEF JoinLocal, Typed, Environment
<1>2. \A n \in Name : (IF Absent \in {e.shape[n], f.shape[n]} THEN Absent
                       ELSE JoinShape(e.shape[n], f.shape[n])) \in ShapeOrAbsent
  BY ShapeTypes DEF Typed, Environment, ShapeOrAbsent
<1>3. j \in Environment
  BY <1>1, <1>2 DEF Typed, Environment, JoinEnvironment, Common, Agreed, AliasOrAbsent
<1>4. Closed(j)
  BY DEF Typed, Environment, Closed, IsOpen, JoinEnvironment, Agreed
<1>5. \A m \in Name : Contains(j, m) <=> Contains(e, m) \/ Contains(f, m)
  BY <1>1 DEF Contains, JoinEnvironment
<1> QED BY <1>3, <1>4, <1>5 DEF Typed

(* What is within an environment on either path is within it after the join. *)
LEMMA JoinWithin ==
    ASSUME NEW e, NEW f, NEW h, NEW names, NEW asked, Typed(h),
           Within(h, e, names, asked), Within(h, f, names, asked)
    PROVE  Within(h, JoinEnvironment(e, f), names, asked)
<1> DEFINE j == JoinEnvironment(e, f)
<1>1. /\ Typed(j)
      /\ \A m \in Name : Contains(j, m) <=> Contains(e, m) \/ Contains(f, m)
  BY JoinTyped DEF Within
<1>2. \A m \in Name : j.alias[m] = h.alias[m] \/ j.alias[m] = Absent
  BY DEF Within, JoinEnvironment, Agreed
<1>3. \A m \in j.responds : m \in h.responds \/ m \in asked
  BY DEF Within, JoinEnvironment, Common
<1> QED BY <1>1, <1>2, <1>3, NameAssumption DEF Within

-----------------------------------------------------------------------------
(* Narrowing stays within the environment it narrows.                      *)

(* Either part of a type is a type. *)
LEMMA Parts ==
    ASSUME NEW t \in Type, NEW b \in BOOLEAN
    PROVE  Part(t, b) \in Type
BY PartTypes DEF Part

(* A stored predicate is about a local, and asks for one of the tested classes or for truth. *)
LEMMA AliasParts ==
    ASSUME NEW e, Typed(e), NEW n \in Name, e.alias[n] # Absent
    PROVE  /\ e.alias[n] \in Alias
           /\ e.alias[n].source \in Name \ Ivar
           /\ e.alias[n].expected \in Class \union {Absent}
BY DEF Typed, Environment, Closed, AliasOrAbsent, Alias

(* A stored predicate narrows its source, which is a local. *)
LEMMA SourceWithin ==
    ASSUME NEW e, Typed(e), NEW alias, alias.source \in Name \ Ivar,
           alias.expected \in Class \union {Absent}, NEW truthy \in BOOLEAN, NEW names, NEW asked
    PROVE  Within(e, NarrowSource(e, alias, truthy), names, asked)
<1> DEFINE current == Get(e, alias.source)
           bound == Bind(e, alias.source, Meet(current, Proven(current, alias, truthy)))
<1>1. current \in Type
  BY ReadTypes DEF Typed
<1>2. Proven(current, alias, truthy) \in Type
  BY <1>1, Parts, CombinedTypes, ConstantTypes DEF Proven
<1>3. Meet(current, Proven(current, alias, truthy)) \in Type
  BY <1>1, <1>2, CombinedTypes
<1>4. Within(e, bound, names, asked)
  BY <1>3, BindWithin
<1>5. Within(bound, SetKnownTruthiness(bound, alias.source, truthy), names, asked)
  BY <1>4, TruthinessWithin DEF Within
<1> HIDE DEF bound
<1>6. Within(e, SetKnownTruthiness(bound, alias.source, truthy), names, asked)
  BY <1>4, <1>5, WithinTrans
<1> QED BY <1>4, <1>6 DEF NarrowSource, bound

(* Narrowing a local, or what a predicate stored in it is about. *)
LEMMA LocalWithin ==
    ASSUME NEW e, Typed(e), NEW n \in Name \ Ivar, NEW truthy \in BOOLEAN, NEW names, NEW asked
    PROVE  Within(e, NarrowLocal(e, n, truthy), names, asked)
<1>1. CASE e.alias[n] # Absent
  <2>1. e.alias[n].source \in Name \ Ivar /\ e.alias[n].expected \in Class \union {Absent}
    BY <1>1, AliasParts
  <2>2. (truthy # e.alias[n].negated) \in BOOLEAN
    OBVIOUS
  <2> QED BY <1>1, <2>1, <2>2, SourceWithin DEF NarrowLocal, NarrowAlias
<1>2. CASE e.alias[n] = Absent
  <2> DEFINE t == NarrowedLocal(e, n, Get(e, n), truthy)
             bound == Bind(e, n, t)
  <2>1. Get(e, n) \in Type
    BY ReadTypes DEF Typed
  <2>2. Meet(Get(e, n), Part(Get(e, n), truthy)) \in Type
    BY <2>1, Parts, CombinedTypes
  <2>3. t \in Type
    BY <2>1, <2>2, ConstantTypes DEF NarrowedLocal, GradualPart
  <2> HIDE DEF t
  <2>4. Within(e, bound, names, asked)
    BY <2>3, BindWithin
  <2>5. Within(bound, SetKnownTruthiness(bound, n, truthy), names, asked)
    BY <2>4, TruthinessWithin DEF Within
  <2>6. Within(e, SetKnownTruthiness(bound, n, truthy), names, asked)
    <3> HIDE DEF bound
    <3> QED BY <2>4, <2>5, WithinTrans
  <2> QED BY <1>2, <2>6 DEF NarrowLocal, t
<1> QED BY <1>1, <1>2

(* Narrowing by a read. *)
LEMMA ReadWithin ==
    ASSUME NEW e, Typed(e), NEW n \in Name, NEW truthy \in BOOLEAN, NEW names, NEW asked,
           n \in names
    PROVE  Within(e, NarrowRead(e, n, truthy), names, asked)
<1>1. ReadType(e, n) \in Type
  BY ReadTypes DEF Typed
<1>2. Meet(ReadType(e, n), Part(ReadType(e, n), truthy)) \in Type
  BY <1>1, Parts, CombinedTypes
<1> QED BY <1>2, BindWithin, LocalWithin DEF NarrowRead

(* Narrowing by a test: respond_to? alone adds to what is known to be there. *)
LEMMA TestWithin ==
    ASSUME NEW e, Typed(e), NEW a, IsAtom(a), a.op \notin {"read", "&."}, NEW truthy \in BOOLEAN,
           NEW names, NEW asked, a.name \in names, a.op = "respond_to?" => a.name \in asked
    PROVE  Within(e, NarrowTest(e, a, truthy), names, asked)
<1>0. PICK sample \in BOOLEAN : sample =
        (a.op = "===" /\ truthy /\ a.name \notin Ivar /\ IsInferred(e, a.name))
  OBVIOUS
<1> DEFINE current == IF sample THEN AnyType ELSE ReadType(e, a.name)
           narrowed == IF a.op \in ClassTests \union NilTests
                       THEN Bind(e, a.name, NarrowedByTest(current, a, truthy)) ELSE e
<1>1. a.name \in Name
  BY DEF IsAtom
<1>2. current \in Type
  BY <1>1, ReadTypes, ConstantTypes DEF Typed
<1>3. a.op \in ClassTests \union NilTests => NarrowedByTest(current, a, truthy) \in Type
  <2>1. a.op \in ClassTests => a.class \in Type /\ a.op \notin NilTests
    BY ConstantTypes DEF IsAtom, ClassTests, NilTests
  <2> HIDE DEF current
  <2> QED BY <1>2, <2>1, CombinedTypes, ConstantTypes DEF NarrowedByTest
<1>4. Within(e, narrowed, names, asked)
  <2> HIDE DEF current
  <2> QED BY <1>1, <1>3, BindWithin, WithinSelf
<1>5. Typed(narrowed)
  BY <1>4 DEF Within
<1> HIDE DEF narrowed
<1>6. a.name \notin Ivar => Within(e, MarkInferred(narrowed, a.name), names, asked)
  <2>1. a.name \notin Ivar => Within(narrowed, MarkInferred(narrowed, a.name), names, asked)
    BY <1>1, <1>5, InferredWithin
  <2> QED BY <1>4, <2>1, WithinTrans
<1>7. /\ a.op = "respond_to?" => Within(e, SetKnownRespondTo(e, a.name), names, asked)
      /\ Within(e, SetKnownNonempty(e, a.name, ~ truthy), names, asked)
      /\ Within(e, e, names, asked)
  BY <1>1, RespondWithin, NonemptyWithin, WithinSelf
<1> HIDE DEF current
<1>8. Within(e, NarrowTo(e, a, truthy, current, narrowed), names, asked)
  BY <1>4, <1>6, <1>7 DEF NarrowTo
<1> QED BY <1>0, <1>8 DEF NarrowTest, current, narrowed

(* Narrowing by an atom. *)
LEMMA AtomWithin ==
    ASSUME NEW e, Typed(e), NEW a, IsAtom(a), NEW truthy \in BOOLEAN, NEW names, NEW asked,
           a.name \in names, a.op = "respond_to?" => a.name \in asked
    PROVE  Within(e, NarrowAtom(e, a, truthy), names, asked)
<1> DEFINE holds == truthy # a.negated
<1>1. a.name \in Name /\ holds \in BOOLEAN
  BY DEF IsAtom
<1>2. Without(ReadType(e, a.name), NilType) \in Type
  BY <1>1, ReadTypes, CombinedTypes, ConstantTypes DEF Typed
<1>3. Within(e, NarrowSafeCall(e, a.name, holds), names, asked)
  BY <1>1, <1>2, BindWithin, WithinSelf DEF NarrowSafeCall
<1>4. Within(e, NarrowRead(e, a.name, holds), names, asked)
  BY <1>1, ReadWithin
<1>5. a.op \notin {"read", "&."} => Within(e, NarrowTest(e, a, holds), names, asked)
  BY <1>1, TestWithin
<1> QED BY <1>3, <1>4, <1>5 DEF NarrowAtom

(* Narrowing by a condition. *)
LEMMA ConditionWithin ==
    ASSUME NEW e, Typed(e), NEW c, IsCondition(c), NEW truthy \in BOOLEAN, NEW names, NEW asked,
           {c.left.name, c.right.name} \subseteq names \intersect asked
    PROVE  Within(e, NarrowCondition(e, c, truthy), names, asked)
<1> DEFINE left == NarrowAtom(e, c.left, truthy)
           first == NarrowAtom(e, c.left, c.kind = "and")
           narrowed == NarrowAtom(first, c.right, truthy)
<1>0. IsAtom(c.left) /\ IsAtom(c.right) /\ (c.kind = "and") \in BOOLEAN
  BY DEF IsCondition
<1>1. Within(e, left, names, asked) /\ Within(e, first, names, asked)
  BY <1>0, AtomWithin
<1>2. Typed(first)
  BY <1>1 DEF Within
<1> HIDE DEF first, left
<1>3. Within(first, narrowed, names, asked)
  BY <1>0, <1>2, AtomWithin
<1> HIDE DEF narrowed
<1>4. Within(e, narrowed, names, asked)
  BY <1>1, <1>3, WithinTrans
<1>5. Within(e, JoinEnvironment(left, narrowed), names, asked)
  BY <1>1, <1>4, JoinWithin
<1> QED BY <1>1, <1>4, <1>5 DEF NarrowCondition, NarrowRight, left, first, narrowed

(* The two arms of a nil test, and what an atom is evaluated to. *)
LEMMA SafeCallWithin ==
    ASSUME NEW e, Typed(e), NEW n \in Name, NEW names, NEW asked, n \in names
    PROVE  Within(e, AfterSafeCall(e, n), names, asked)
<1> DEFINE isNil == Meet(ReadType(e, n), NilType)
           notNil == Without(ReadType(e, n), NilType)
           first == BindTested(e, n, isNil)
           second == BindTested(e, n, notNil)
<1>1. isNil \in Type /\ notNil \in Type
  BY ReadTypes, CombinedTypes, ConstantTypes DEF Typed
<1>2. Within(e, first, names, asked) /\ Within(e, second, names, asked)
  BY <1>1, TestedWithin
<1> HIDE DEF first, second
<1>3. Within(e, JoinEnvironment(first, second), names, asked)
  BY <1>2, JoinWithin
<1> QED BY <1>2, <1>3 DEF AfterSafeCall, SplitOnNil, JoinArms, first, second

(* Evaluating an atom gives a type, and an environment within the one it starts from. *)
LEMMA AtomTypes ==
    ASSUME NEW e, Typed(e), NEW a, IsAtom(a), NEW names, NEW asked, a.name \in names
    PROVE  /\ EvaluateAtom(e, a).type \in Type
           /\ Within(e, EvaluateAtom(e, a).env, names, asked)
<1>1. a.name \in Name /\ ReadType(e, a.name) \in Type
  BY ReadTypes DEF IsAtom, Typed
<1>2. Within(e, AfterSafeCall(e, a.name), names, asked) /\ Within(e, e, names, asked)
  BY <1>1, SafeCallWithin, WithinSelf
<1> QED BY <1>1, <1>2, ConstantTypes DEF EvaluateAtom, Evaluated

(* The left operand; a read asks for no method. *)
LEMMA OperandWithin ==
    ASSUME NEW e, Typed(e), NEW c, IsCondition(c), NEW t \in Type, NEW truthy \in BOOLEAN,
           NEW names, NEW asked, {c.left.name, c.right.name} \subseteq names,
           c.left.op # "read" => {c.left.name, c.right.name} \subseteq asked
    PROVE  Within(e, NarrowOperand(e, c, t, truthy), names, asked)
<1> DEFINE a == c.left
           bound == BindTested(e, a.name, OperandPart(e, a, t, truthy))
<1>0. IsAtom(a) /\ a.name \in Name
  BY DEF IsCondition, IsAtom
<1>1. OperandPart(e, a, t, truthy) \in Type
  BY Parts, ConstantTypes DEF OperandPart
<1>2. Within(e, bound, names, asked)
  BY <1>0, <1>1, TestedWithin
<1> HIDE DEF bound
<1>3. Typed(bound)
  BY <1>2 DEF Within
<1>4. CASE a.op = "read"
  <2>1. /\ Within(e, NarrowAtom(e, a, truthy), names, asked)
        /\ Within(bound, NarrowAtom(bound, a, truthy), names, asked)
    BY <1>0, <1>3, <1>4, AtomWithin
  <2>2. Within(e, NarrowAtom(bound, a, truthy), names, asked)
    BY <1>2, <2>1, WithinTrans
  <2> QED BY <1>4, <2>1, <2>2 DEF NarrowOperand, bound
<1>5. CASE a.op # "read"
  BY <1>5, ConditionWithin DEF NarrowOperand
<1> QED BY <1>4, <1>5

(* Evaluating a condition gives a type, and an environment within the one it starts from. *)
LEMMA EvaluateWithin ==
    ASSUME NEW e, Typed(e), NEW c, IsCondition(c), NEW names, NEW asked,
           {c.left.name, c.right.name} \subseteq names \intersect asked
    PROVE  /\ Evaluate(e, c).type \in Type
           /\ Within(e, Evaluate(e, c).env, names, asked)
<1> DEFINE goesOn == c.kind = "and"
           left == EvaluateAtom(e, c.left)
           first == NarrowOperand(left.env, c, left.type, goesOn)
           existing == NarrowOperand(left.env, c, left.type, ~ goesOn)
           right == EvaluateAtom(first, c.right)
           reach == OperandReachability(left.env, c.left, left.type)
           kept == IF c.left.negated THEN Part(left.type, ~ goesOn)
                   ELSE OperandPart(left.env, c.left, left.type, ~ goesOn)
<1>0. IsAtom(c.left) /\ IsAtom(c.right) /\ goesOn \in BOOLEAN /\ (~ goesOn) \in BOOLEAN
  BY DEF IsCondition
<1>1. left.type \in Type /\ Within(e, left.env, names, asked) /\ Typed(left.env)
  BY <1>0, AtomTypes DEF Within
<1> HIDE DEF left, goesOn
<1>2. Within(left.env, first, names, asked) /\ Within(left.env, existing, names, asked)
  BY <1>0, <1>1, OperandWithin
<1>3. Within(e, first, names, asked) /\ Within(e, existing, names, asked) /\ Typed(first)
  <2> HIDE DEF first, existing
  <2> QED BY <1>1, <1>2, WithinTrans DEF Within
<1>4. kept \in Type
  BY <1>0, <1>1, Parts, ConstantTypes DEF OperandPart
<1> HIDE DEF first, existing, kept
<1>5. right.type \in Type /\ Within(first, right.env, names, asked)
  BY <1>0, <1>3, AtomTypes
<1> HIDE DEF right
<1>6. Within(e, right.env, names, asked) /\ Join(kept, right.type) \in Type
  BY <1>3, <1>4, <1>5, WithinTrans, CombinedTypes
<1>7. Within(e, JoinEnvironment(existing, right.env), names, asked)
  BY <1>3, <1>6, JoinWithin
<1>8. \/ EvaluateLogical(e, c) = Evaluated(kept, existing)
      \/ EvaluateLogical(e, c) = right
      \/ EvaluateLogical(e, c) = Evaluated(Join(kept, right.type), JoinEnvironment(existing, right.env))
  BY DEF EvaluateLogical, AfterLeft, LogicalArms, left, right, first, existing, kept, goesOn
<1> QED BY <1>1, <1>3, <1>4, <1>5, <1>6, <1>7, <1>8 DEF Evaluate, Evaluated, left

-----------------------------------------------------------------------------
(* An environment that is right about the store stays so.                  *)

(* The value of a test is a boolean, and of type Bool. *)
LEMMA Booleans ==
    ASSUME NEW b \in BOOLEAN
    PROVE  /\ Truthy(BoolValue(b)) <=> b
           /\ BoolValue(b) \in Value
           /\ Describes(BoolValue(b), BoolType)
BY ValueAssumption, BasicLaw DEF Truthy, BoolValue, TrueValue, FalseValue, NilValue, Value

(* A truthiness that the value has may be noted. *)
LEMMA TruthinessFits ==
    ASSUME NEW e, NEW st \in [Name -> Value], NEW g, Fits(e, st, g),
           NEW n \in Name, NEW b \in BOOLEAN, Truthy(st[n]) <=> b
    PROVE  Fits(SetKnownTruthiness(e, n, b), st, g)
<1> DEFINE f == SetKnownTruthiness(e, n, b)
<1>0. Typed(e)
  BY DEF Fits
<1>1. Typed(f)
  BY <1>0, TruthinessWithin DEF Within
<1>2. /\ f.locals = e.locals /\ f.nonempty = e.nonempty /\ f.responds = e.responds
      /\ f.alias = e.alias /\ f.shape = e.shape
      /\ f.truthiness = [e.truthiness EXCEPT ![n] = b]
  BY <1>0 DEF SetKnownTruthiness, Typed, Environment
<1> HIDE DEF f
<1>3. \A m \in Name : FactHolds(f, st, m)
  BY <1>0, <1>2 DEF Fits, FactHolds, Typed, Environment, Truthy
<1> QED BY <1>1, <1>2, <1>3 DEF Fits, Described, UnboundAreNil, ReadType, Get, Contains, f

(* A container that holds something may be noted as such. *)
LEMMA NonemptyFits ==
    ASSUME NEW e, NEW st \in [Name -> Value], NEW g, Fits(e, st, g),
           NEW n \in Name, NEW known \in BOOLEAN, known => Holds(st[n])
    PROVE  Fits(SetKnownNonempty(e, n, known), st, g)
<1> DEFINE f == SetKnownNonempty(e, n, known)
<1>0. Typed(e)
  BY DEF Fits
<1>1. Typed(f)
  BY <1>0, NonemptyWithin DEF Within
<1>2. /\ f.locals = e.locals /\ f.truthiness = e.truthiness /\ f.responds = e.responds
      /\ f.alias = e.alias /\ f.shape = e.shape
      /\ f.nonempty = IF known THEN e.nonempty \union {n} ELSE e.nonempty \ {n}
  BY <1>0 DEF SetKnownNonempty, Typed, Environment
<1> HIDE DEF f
<1>3. \A m \in Name : FactHolds(f, st, m)
  BY <1>0, <1>2 DEF Fits, FactHolds
<1> QED BY <1>1, <1>2, <1>3 DEF Fits, Described, UnboundAreNil, ReadType, Get, Contains, f

(* A method that is there may be noted. *)
LEMMA RespondFits ==
    ASSUME NEW e, NEW st \in [Name -> Value], NEW g, Fits(e, st, g),
           NEW n \in Name, Responds(st[n])
    PROVE  Fits(SetKnownRespondTo(e, n), st, g)
<1> DEFINE f == SetKnownRespondTo(e, n)
<1>0. Typed(e)
  BY DEF Fits
<1>1. Typed(f)
  BY <1>0, RespondWithin DEF Within
<1>2. /\ f.locals = e.locals /\ f.truthiness = e.truthiness /\ f.nonempty = e.nonempty
      /\ f.alias = e.alias /\ f.shape = e.shape
      /\ f.responds = e.responds \union {n}
  BY <1>0 DEF SetKnownRespondTo, Typed, Environment
<1> HIDE DEF f
<1>3. \A m \in Name : FactHolds(f, st, m)
  BY <1>0, <1>2 DEF Fits, FactHolds
<1> QED BY <1>1, <1>2, <1>3 DEF Fits, Described, UnboundAreNil, ReadType, Get, Contains, f

(* A mark on a local says nothing of its value. *)
LEMMA InferredFits ==
    ASSUME NEW e, NEW st \in [Name -> Value], NEW g, Fits(e, st, g), NEW n \in Name \ Ivar
    PROVE  Fits(MarkInferred(e, n), st, g)
<1> DEFINE f == MarkInferred(e, n)
<1>0. Typed(e)
  BY DEF Fits
<1>1. Typed(f)
  BY <1>0, InferredWithin DEF Within
<1>2. /\ f.locals = e.locals /\ f.truthiness = e.truthiness /\ f.nonempty = e.nonempty
      /\ f.alias = e.alias /\ f.shape = e.shape /\ f.responds = e.responds
  BY <1>0 DEF MarkInferred, Typed, Environment
<1> HIDE DEF f
<1> QED BY <1>1, <1>2
       DEF Fits, FactHolds, Described, UnboundAreNil, ReadType, Get, Contains, f

(* A shape that fits the value may be noted. *)
LEMMA ShapeSetFits ==
    ASSUME NEW e, NEW st \in [Name -> Value], NEW g, Fits(e, st, g),
           NEW n \in Name, NEW shape \in ShapeOrAbsent, ShapeFits(shape, st[n])
    PROVE  Fits(SetHashShape(e, n, shape), st, g)
<1> DEFINE f == SetHashShape(e, n, shape)
<1>0. Typed(e)
  BY DEF Fits
<1>1. Typed(f)
  BY <1>0, ShapeWithin DEF Within
<1>2. /\ f.locals = e.locals /\ f.truthiness = e.truthiness /\ f.nonempty = e.nonempty
      /\ f.alias = e.alias /\ f.responds = e.responds
      /\ f.shape = [e.shape EXCEPT ![n] = shape]
  BY <1>0 DEF SetHashShape, Typed, Environment
<1> HIDE DEF f
<1>3. \A m \in Name : ShapeFits(f.shape[m], st[m])
  BY <1>0, <1>2 DEF Fits, Typed, Environment
<1> QED BY <1>1, <1>2, <1>3
       DEF Fits, FactHolds, Described, UnboundAreNil, ReadType, Get, Contains, f

(* Binding a tested name to a type that describes its value, its shape being kept. *)
LEMMA TestedFits ==
    ASSUME NEW e, NEW st \in [Name -> Value], NEW g, Fits(e, st, g),
           NEW n \in Name, NEW t \in Type, n \in g \/ Describes(st[n], t)
    PROVE  Fits(BindTested(e, n, t), st, g)
<1>1. Fits(Bind(e, n, t), st, g)
  BY BindFits
<1>2. e.shape[n] \in ShapeOrAbsent /\ ShapeFits(e.shape[n], st[n])
  BY DEF Fits, Typed, Environment
<1> QED BY <1>1, <1>2, ShapeSetFits DEF BindTested

(* An entry of a join describes what the entry of either side does; a missing one stands for nil. *)
LEMMA EntryFits ==
    ASSUME NEW s \in Type \union {Absent}, NEW t \in Type \union {Absent}, NEW v \in Value,
           Describes(v, IF s = Absent THEN NilType ELSE s)
    PROVE  /\ Describes(v, IF JoinEntry(s, t) = Absent THEN NilType ELSE JoinEntry(s, t))
           /\ Describes(v, IF JoinEntry(t, s) = Absent THEN NilType ELSE JoinEntry(t, s))
<1>1. \A u, w \in Type : Join(u, w) \in Type
  BY CombinedTypes
<1>2. NilType \in Type
  BY ConstantTypes
<1>3. \A u, w \in Type : Describes(v, u) \/ Describes(v, w) => Describes(v, Join(u, w))
  BY JoinLaw
<1> QED BY <1>1, <1>2, <1>3, AbsentAssumption DEF JoinEntry

(* What a hash holds under a key, or nil, is a value. *)
LEMMA ValuesAt ==
    ASSUME NEW v \in Value, IsHash(v), NEW k \in Key
    PROVE  ValueAt(v, k) \in Value
<1>1. v \notin Scalar
  BY ValueAssumption
<1>2. \A vs : ArrayValue(vs)[1] = "array"
  BY DEF ArrayValue
<1>3. PICK h \in [Key -> Element \union {Missing}] : v = HashValue(h)
  BY <1>1, <1>2 DEF Value, IsHash
<1>4. v[2][k] \in Element \union {Missing}
  BY <1>3 DEF HashValue
<1> QED BY <1>4, ValueAssumption DEF ValueAt, Value

(* A join of shapes fits what either fits. *)
LEMMA ShapeJoinFits ==
    ASSUME NEW s \in Shape, NEW t \in Shape, NEW v \in Value, ShapeFits(s, v), s # Absent
    PROVE  ShapeFits(JoinShape(s, t), v) /\ ShapeFits(JoinShape(t, s), v)
<1>1. IsHash(v)
  BY DEF ShapeFits
<1>2. SUFFICES ASSUME NEW k \in Key
      PROVE  LET at(shape) ==
                   \/ Describes(ValueAt(v, k), IF shape.entries[k] = Absent THEN NilType
                                               ELSE shape.entries[k])
                   \/ shape.unknown # Absent /\ Describes(ValueAt(v, k), shape.unknown)
             IN  at(JoinShape(s, t)) /\ at(JoinShape(t, s))
  BY <1>1 DEF ShapeFits
<1> DEFINE w == ValueAt(v, k)
<1>3. w \in Value
  BY <1>1, ValuesAt
<1>4. /\ s.entries[k] \in Type \union {Absent} /\ t.entries[k] \in Type \union {Absent}
      /\ s.unknown \in Type \union {Absent} /\ t.unknown \in Type \union {Absent}
  BY DEF Shape
<1>5. /\ JoinShape(s, t).entries[k] = JoinEntry(s.entries[k], t.entries[k])
      /\ JoinShape(t, s).entries[k] = JoinEntry(t.entries[k], s.entries[k])
      /\ JoinShape(s, t).unknown = JoinEntry(s.unknown, t.unknown)
      /\ JoinShape(t, s).unknown = JoinEntry(t.unknown, s.unknown)
  BY DEF JoinShape
<1>6. \/ Describes(w, IF s.entries[k] = Absent THEN NilType ELSE s.entries[k])
      \/ s.unknown # Absent /\ Describes(w, s.unknown)
  BY DEF ShapeFits
<1> HIDE DEF w
<1>7. CASE Describes(w, IF s.entries[k] = Absent THEN NilType ELSE s.entries[k])
  BY <1>3, <1>4, <1>5, <1>7, EntryFits DEF w
<1>8. CASE s.unknown # Absent /\ Describes(w, s.unknown)
  <2>1. /\ Describes(w, JoinEntry(s.unknown, t.unknown)) /\ JoinEntry(s.unknown, t.unknown) # Absent
        /\ Describes(w, JoinEntry(t.unknown, s.unknown)) /\ JoinEntry(t.unknown, s.unknown) # Absent
    BY <1>3, <1>4, <1>8, EntryFits, EntryTypes
  <2> QED BY <1>5, <2>1 DEF w
<1> QED BY <1>6, <1>7, <1>8

(* What is right about a store stays right when it is joined, on either side, with the          *)
(* environment of another path, which need not be right about it.                               *)
LEMMA JoinFits ==
    ASSUME NEW e, NEW f, NEW st \in [Name -> Value], NEW g, Fits(e, st, g), Typed(f),
           SameRefinements(e, f),
           NEW j, j = JoinEnvironment(e, f) \/ j = JoinEnvironment(f, e)
    PROVE  Fits(j, st, g)
<1>0. Typed(e)
  BY DEF Fits
<1>1. Typed(j)
  BY <1>0, JoinTyped
<1>2. ASSUME NEW n \in Name
      PROVE  /\ j.locals[n] = JoinEntry(e.locals[n], f.locals[n])
                \/ j.locals[n] = JoinEntry(f.locals[n], e.locals[n])
             /\ e.locals[n] \in Type \union {Absent} /\ f.locals[n] \in Type \union {Absent}
             /\ n \in j.nonempty => n \in e.nonempty
             /\ n \in j.responds => n \in e.responds
             /\ j.alias[n] = e.alias[n] \/ j.alias[n] = Absent
             /\ j.truthiness[n] = e.truthiness[n] \/ j.truthiness[n] = Absent
             /\ \/ j.shape[n] = Absent
                \/ /\ e.shape[n] \in Shape /\ f.shape[n] \in Shape /\ e.shape[n] # Absent
                   /\ \/ j.shape[n] = JoinShape(e.shape[n], f.shape[n])
                      \/ j.shape[n] = JoinShape(f.shape[n], e.shape[n])
  <2>1. /\ e.locals[n] \in Type \union {Absent} /\ f.locals[n] \in Type \union {Absent}
        /\ e.shape[n] \in Shape \union {Absent} /\ f.shape[n] \in Shape \union {Absent}
    BY <1>0 DEF Typed, Environment, ShapeOrAbsent
  <2>2. CASE j = JoinEnvironment(e, f)
    BY <2>1, <2>2 DEF JoinEnvironment, JoinLocal, Common, Agreed
  <2>3. CASE j = JoinEnvironment(f, e)
    BY <2>1, <2>3 DEF JoinEnvironment, JoinLocal, Common, Agreed
  <2> QED BY <2>2, <2>3
<1>3. \A n \in Name : Contains(j, n) <=> Contains(e, n) \/ Contains(f, n)
  BY <1>2, EntryTypes DEF Contains
<1>4. Described(j, st, g)
  <2> SUFFICES ASSUME NEW n \in Name \ g
               PROVE  Describes(st[n], ReadType(j, n))
    BY DEF Described
  <2>1. st[n] \in Value /\ Describes(st[n], ReadType(e, n))
    BY DEF Fits, Described
  <2>2. CASE Contains(e, n)
    <3>1. Describes(st[n], e.locals[n]) /\ e.locals[n] # Absent
      BY <2>1, <2>2 DEF ReadType, Get, Contains
    <3>2. Contains(j, n)
      BY <1>3, <2>2
    <3>3. Describes(st[n], j.locals[n])
      BY <1>2, <2>1, <3>1, <3>2, EntryFits DEF Contains
    <3> QED BY <3>2, <3>3 DEF ReadType, Get
  <2>3. CASE ~ Contains(e, n) /\ Contains(f, n)
    <3>1. n \notin Ivar
      BY <2>3 DEF SameRefinements
    <3>2. st[n] = NilValue
      BY <2>3, <3>1 DEF Fits, UnboundAreNil
    <3>3. Describes(st[n], NilType) /\ e.locals[n] = Absent
      BY <2>1, <2>3, <3>2, BasicLaw DEF Contains
    <3>4. Contains(j, n)
      BY <1>3, <2>3
    <3>5. Describes(st[n], j.locals[n])
      BY <1>2, <2>1, <3>3, <3>4, EntryFits DEF Contains
    <3> QED BY <3>4, <3>5 DEF ReadType, Get
  <2>4. CASE ~ Contains(e, n) /\ ~ Contains(f, n)
    BY <1>3, <2>1, <2>4 DEF ReadType, Get
  <2> QED BY <2>2, <2>3, <2>4
<1>5. \A n \in Name : FactHolds(j, st, n)
  <2>1. \A n \in Name : FactHolds(e, st, n)
    BY DEF Fits
  <2> QED BY <1>2, <2>1 DEF FactHolds
<1>6. \A n \in Name : AliasHolds(j.alias[n], st, n)
  BY <1>2 DEF Fits, AliasHolds
<1>7. \A n \in Name : ShapeFits(j.shape[n], st[n])
  <2> SUFFICES ASSUME NEW n \in Name, j.shape[n] # Absent
               PROVE  ShapeFits(j.shape[n], st[n])
    BY DEF ShapeFits
  <2>1. st[n] \in Value /\ ShapeFits(e.shape[n], st[n])
    BY DEF Fits
  <2> QED BY <1>2, <2>1, ShapeJoinFits
<1>8. UnboundAreNil(j, st)
  BY <1>3 DEF Fits, UnboundAreNil
<1> QED BY <1>1, <1>4, <1>5, <1>6, <1>7, <1>8 DEF Fits

-----------------------------------------------------------------------------
(* Narrowing is right in the branch that the store takes.                  *)

(* A type narrowed by the truthiness that the value has describes the value. *)
LEMMA MeetFits ==
    ASSUME NEW t \in Type, NEW v \in Value, Describes(v, t), NEW b \in BOOLEAN, Truthy(v) <=> b
    PROVE  /\ Meet(t, Part(t, b)) \in Type
           /\ Describes(v, Meet(t, Part(t, b)))
           /\ Meet(t, Part(t, b)) # NeverType
           /\ Describes(v, Part(t, b))
<1>1. Part(t, b) \in Type /\ Describes(v, Part(t, b))
  BY PartLaw, PartTypes DEF Part
<1>2. Describes(v, Meet(t, Part(t, b))) /\ Meet(t, Part(t, b)) \in Type
  BY <1>1, JoinLaw, CombinedTypes
<1> QED BY <1>1, <1>2, BasicLaw

(* Narrowing by a stored predicate whose answer the store agrees with. *)
LEMMA SourceFits ==
    ASSUME NEW e, NEW st \in [Name -> Value], NEW g, Fits(e, st, g),
           NEW alias, alias.source \in Name \ Ivar, alias.expected \in Class \union {Absent},
           NEW truthy \in BOOLEAN,
           truthy <=> IF alias.expected = Absent THEN Truthy(st[alias.source])
                      ELSE Describes(st[alias.source], alias.expected)
    PROVE  Fits(NarrowSource(e, alias, truthy), st, g)
<1> DEFINE n == alias.source
           v == st[n]
           current == Get(e, n)
           t == Meet(current, Proven(current, alias, truthy))
           bound == Bind(e, n, t)
<1>1. current \in Type /\ v \in Value
  BY ReadTypes DEF Fits, Typed
<1>2. n \in g \/ Describes(v, current)
  BY DEF Fits, Described, ReadType
<1>3. alias.expected # Absent => alias.expected \in Class /\ alias.expected \in Type
  BY ConstantTypes
<1>4. Proven(current, alias, truthy) \in Type
  BY <1>1, <1>3, Parts, CombinedTypes DEF Proven
<1> HIDE DEF v, current
<1>5. n \in g \/ Describes(v, Proven(current, alias, truthy))
  <2>1. CASE alias.expected = Absent
    BY <1>1, <1>2, <2>1, MeetFits DEF Proven, v
  <2>2. CASE alias.expected # Absent /\ truthy
    BY <1>1, <1>2, <1>3, <2>2, JoinLaw DEF Proven, v
  <2>3. CASE alias.expected # Absent /\ ~ truthy
    BY <1>1, <1>2, <1>3, <2>3, ClassLaw DEF Proven, v
  <2> QED BY <2>1, <2>2, <2>3
<1>6. t \in Type /\ (n \in g \/ Describes(v, t))
  BY <1>1, <1>2, <1>4, <1>5, CombinedTypes, JoinLaw
<1> HIDE DEF t
<1>7. Fits(bound, st, g)
  BY <1>6, BindFits DEF v
<1> HIDE DEF bound
<1>8. alias.expected = Absent => Fits(SetKnownTruthiness(bound, n, truthy), st, g)
  BY <1>7, TruthinessFits
<1> QED BY <1>7, <1>8 DEF NarrowSource, bound, t, current

(* Narrowing a local by the truthiness it has, open or not, with a stored predicate or without. *)
LEMMA LocalFits ==
    ASSUME NEW e, NEW st \in [Name -> Value], NEW g, Fits(e, st, g),
           NEW n \in Name \ Ivar, NEW truthy \in BOOLEAN, Truthy(st[n]) <=> truthy
    PROVE  Fits(NarrowLocal(e, n, truthy), st, g)
<1>0. Typed(e) /\ st[n] \in Value
  BY DEF Fits
<1>1. CASE e.alias[n] # Absent
  <2> DEFINE alias == e.alias[n]
  <2>1. /\ alias \in Alias /\ alias.source \in Name \ Ivar
        /\ alias.expected \in Class \union {Absent}
    BY <1>0, <1>1, AliasParts
  <2>2. alias.negated \in BOOLEAN
    BY <2>1 DEF Alias
  <2>3. AliasHolds(alias, st, n) /\ alias # Absent
    BY <1>1 DEF Fits
  <2> HIDE DEF alias
  <2>4. Truthy(st[n]) # alias.negated
             <=> IF alias.expected = Absent THEN Truthy(st[alias.source])
                 ELSE Describes(st[alias.source], alias.expected)
    BY <2>3 DEF AliasHolds
  <2>5. (truthy # alias.negated) <=> (Truthy(st[n]) # alias.negated)
    BY <2>2 DEF Truthy
  <2>6. Fits(NarrowSource(e, alias, truthy # alias.negated), st, g)
    BY <2>1, <2>2, <2>4, <2>5, SourceFits
  <2> QED BY <1>1, <2>6 DEF NarrowLocal, NarrowAlias, alias
<1>2. CASE e.alias[n] = Absent
  <2> DEFINE current == Get(e, n)
             t == NarrowedLocal(e, n, current, truthy)
             bound == Bind(e, n, t)
  <2>1. current \in Type /\ Part(current, truthy) \in Type /\ Meet(current, Part(current, truthy)) \in Type
    BY <1>0, ReadTypes, Parts, CombinedTypes DEF Typed
  <2>2. n \in g \/ Describes(st[n], current)
    BY DEF Fits, Described, ReadType
  <2> HIDE DEF current
  <2>3. t \in Type
    BY <2>1, ConstantTypes DEF NarrowedLocal, GradualPart
  <2>4. n \in g \/ Describes(st[n], t)
    <3>1. CASE n \notin g
      BY <1>0, <2>1, <2>2, <3>1, MeetFits DEF NarrowedLocal, GradualPart
    <3> QED BY <3>1
  <2> HIDE DEF t
  <2>5. Fits(bound, st, g)
    BY <2>3, <2>4, BindFits
  <2> HIDE DEF bound
  <2>6. Fits(SetKnownTruthiness(bound, n, truthy), st, g)
    BY <2>5, TruthinessFits
  <2> QED BY <1>2, <2>6 DEF NarrowLocal, bound, t, current
<1> QED BY <1>1, <1>2

(* Narrowing by a read that has the truthiness of the store's value. *)
LEMMA ReadFits ==
    ASSUME NEW e, NEW st \in [Name -> Value], NEW g, Fits(e, st, g),
           NEW n \in Name, NEW truthy \in BOOLEAN, Truthy(st[n]) <=> truthy
    PROVE  Fits(NarrowRead(e, n, truthy), st, g)
<1>1. CASE n \in Ivar
  <2> DEFINE current == ReadType(e, n)
  <2>1. current \in Type /\ Meet(current, Part(current, truthy)) \in Type /\ st[n] \in Value
    BY ReadTypes, Parts, CombinedTypes DEF Fits, Typed
  <2>2. n \in g \/ Describes(st[n], current)
    BY DEF Fits, Described
  <2> HIDE DEF current
  <2>3. n \in g \/ Describes(st[n], Meet(current, Part(current, truthy)))
    BY <2>1, <2>2, MeetFits
  <2> QED BY <1>1, <2>1, <2>3, BindFits DEF NarrowRead, current
<1>2. CASE n \notin Ivar
  BY <1>2, LocalFits DEF NarrowRead
<1> QED BY <1>1, <1>2

(* Narrowing by a test that has the store's answer. *)
LEMMA TestFits ==
    ASSUME NEW e, NEW st \in [Name -> Value], NEW g, Fits(e, st, g),
           NEW a, IsAtom(a), a.op \notin {"read", "&."}, NEW truthy \in BOOLEAN,
           Passes(st[a.name], a) <=> truthy
    PROVE  Fits(NarrowTest(e, a, truthy), st, g)
<1>0. PICK sample \in BOOLEAN : sample =
        (a.op = "===" /\ truthy /\ a.name \notin Ivar /\ IsInferred(e, a.name))
  OBVIOUS
<1> DEFINE n == a.name
           v == st[n]
           current == IF sample THEN AnyType ELSE ReadType(e, n)
           t == NarrowedByTest(current, a, truthy)
           narrowed == IF a.op \in ClassTests \union NilTests THEN Bind(e, n, t) ELSE e
<1>1. n \in Name /\ v \in Value /\ Typed(e)
  BY DEF IsAtom, Fits
<1>2. current \in Type
  BY <1>1, ReadTypes, ConstantTypes DEF Typed
<1>3. n \in g \/ Describes(v, current)
  BY <1>1, BasicLaw DEF Fits, Described
<1>4. a.op \in ClassTests => a.class \in Class /\ a.class \in Type /\ a.op \notin NilTests
  BY ConstantTypes DEF IsAtom, ClassTests, NilTests
<1>5. NilType \in Class /\ NilType \in Type /\ (Describes(v, NilType) <=> v = NilValue)
  BY <1>1, ConstantTypes, BasicLaw
<1> HIDE DEF current, v
<1>6. a.op \in ClassTests \union NilTests => t \in Type /\ (n \in g \/ Describes(v, t))
  <2>1. CASE a.op \in ClassTests
    <3>1. Describes(v, a.class) <=> truthy
      BY <2>1 DEF Passes, v, ClassTests
    <3>2. t = IF truthy THEN MeetPredicate(current, a.class) ELSE Without(current, a.class)
      BY <2>1, <1>4 DEF NarrowedByTest
    <3> QED BY <1>1, <1>2, <1>3, <1>4, <2>1, <3>1, <3>2, ClassLaw, CombinedTypes
  <2>2. CASE a.op \in NilTests
    <3>1. (truthy = (a.op # "!=nil")) <=> v = NilValue
      BY <2>2 DEF Passes, v, NilTests, ClassTests
    <3>2. t = IF truthy = (a.op # "!=nil") THEN Meet(current, NilType)
              ELSE Without(current, NilType)
      BY <2>2 DEF NarrowedByTest, NilTests, ClassTests
    <3> QED BY <1>1, <1>2, <1>3, <1>5, <3>1, <3>2, ClassLaw, JoinLaw, CombinedTypes
  <2> QED BY <2>1, <2>2
<1> HIDE DEF t
<1>7. Fits(narrowed, st, g)
  BY <1>1, <1>6, BindFits DEF v
<1> HIDE DEF narrowed
<1>8. n \notin Ivar => Fits(MarkInferred(narrowed, n), st, g)
  BY <1>1, <1>7, InferredFits
<1>9. a.op = "respond_to?" /\ truthy => Fits(SetKnownRespondTo(e, n), st, g)
  <2>1. a.op = "respond_to?" => (Responds(v) <=> truthy)
    BY DEF Passes, v, ClassTests
  <2> QED BY <1>1, <2>1, RespondFits DEF v
<1>10. a.op = "empty?" => Fits(SetKnownNonempty(e, n, ~ truthy), st, g)
  <2>1. a.op = "empty?" => (~ Holds(v) <=> truthy)
    BY DEF Passes, v, ClassTests
  <2> QED BY <1>1, <2>1, NonemptyFits DEF v
<1>11. Fits(NarrowTo(e, a, truthy, current, narrowed), st, g)
  BY <1>7, <1>8, <1>9, <1>10 DEF NarrowTo
<1> QED BY <1>0, <1>11 DEF NarrowTest, current, narrowed, t

(* For every value the atom can have, narrowing by its truthiness is right. *)
LEMMA AtomFits ==
    ASSUME NEW e, NEW st \in [Name -> Value], NEW g, Fits(e, st, g),
           NEW a, IsAtom(a), NEW truthy \in BOOLEAN,
           NEW v \in AtomValues(st, a), Truthy(v) <=> truthy
    PROVE  Fits(NarrowAtom(e, a, truthy), st, g)
<1> DEFINE n == a.name
           holds == truthy # a.negated
<1>1. n \in Name /\ a.negated \in BOOLEAN /\ holds \in BOOLEAN /\ st[n] \in Value
  BY DEF IsAtom
<1>2. CASE a.op = "read"
  <2>1. v = IF a.negated THEN BoolValue(~ Truthy(st[n])) ELSE st[n]
    BY <1>2 DEF AtomValues
  <2>2. (~ Truthy(st[n])) \in BOOLEAN
    BY DEF Truthy
  <2>3. Truthy(BoolValue(~ Truthy(st[n]))) <=> ~ Truthy(st[n])
    BY <2>2, Booleans
  <2>4. Truthy(st[n]) <=> holds
    BY <1>1, <2>1, <2>3
  <2> QED BY <1>1, <1>2, <2>4, ReadFits DEF NarrowAtom
<1>3. CASE a.op = "&."
  <2> DEFINE current == ReadType(e, n)
  <2>1. ~ a.negated /\ (holds => st[n] # NilValue)
    BY <1>3 DEF IsAtom, AtomValues, Truthy
  <2>2. current \in Type /\ NilType \in Type /\ NilType \in Class /\ Without(current, NilType) \in Type
    BY <1>1, ReadTypes, ConstantTypes, CombinedTypes DEF Fits, Typed
  <2>3. n \in g \/ Describes(st[n], current)
    BY <1>1 DEF Fits, Described
  <2> HIDE DEF current
  <2>4. holds => n \in g \/ Describes(st[n], Without(current, NilType))
    BY <1>1, <2>1, <2>2, <2>3, ClassLaw, BasicLaw
  <2>5. Fits(NarrowSafeCall(e, n, holds), st, g)
    BY <1>1, <2>2, <2>4, BindFits DEF NarrowSafeCall, current
  <2> QED BY <1>3, <2>5 DEF NarrowAtom
<1>4. CASE a.op \notin {"read", "&."}
  <2>1. v = BoolValue(Passes(st[n], a) # a.negated)
    BY <1>4 DEF AtomValues
  <2>2. (Passes(st[n], a) # a.negated) \in BOOLEAN
    OBVIOUS
  <2>3. Truthy(v) <=> (Passes(st[n], a) # a.negated)
    BY <2>1, <2>2, Booleans
  <2>4. Passes(st[n], a) \in BOOLEAN
    <3>1. CASE a.op \in ClassTests
      <4>1. a.class \in Type
        BY <3>1, ConstantTypes DEF IsAtom
      <4>2. Describes(st[n], a.class) \in BOOLEAN
        BY <1>1, <4>1, BasicLaw
      <4> QED BY <3>1, <4>2 DEF Passes, ClassTests
    <3>2. CASE a.op \in NilTests \union {"empty?", "respond_to?"}
      BY <3>2 DEF Passes, ClassTests, NilTests, Responds, Holds
    <3> QED BY <1>4, <3>1, <3>2 DEF IsAtom, Operations
  <2>5. Passes(st[n], a) <=> holds
    BY <1>1, <2>3, <2>4
  <2>6. Fits(NarrowTest(e, a, holds), st, g)
    BY <1>1, <1>4, <2>5, TestFits
  <2> QED BY <1>4, <2>6 DEF NarrowAtom
<1> QED BY <1>2, <1>3, <1>4

(* What an atom and a condition can be. *)
LEMMA AtomsAreValues ==
    ASSUME NEW st \in [Name -> Value], NEW a, IsAtom(a), NEW v \in AtomValues(st, a)
    PROVE  v \in Value
<1>1. st[a.name] \in Value /\ NilValue \in Value
  BY ValueAssumption, ScalarsAreValues DEF IsAtom
<1>2. BoolValue(~ Truthy(st[a.name])) \in Value /\ BoolValue(Passes(st[a.name], a) # a.negated) \in Value
  BY Booleans DEF Truthy
<1> QED BY <1>1, <1>2, ScalarsAreValues DEF AtomValues

(* The value of a condition is that of its right operand when the left one lets it run. *)
LEMMA OutcomeParts ==
    ASSUME NEW st, NEW c, NEW o \in Outcomes(st, c)
    PROVE  /\ o.left \in AtomValues(st, c.left)
           /\ IF c.kind # "atom" /\ Truthy(o.left) = (c.kind = "and")
              THEN o.value \in AtomValues(st, c.right) ELSE o.value = o.left
BY DEF Outcomes

(* Narrowing by a condition on the side that the store takes keeps the environment right. *)
LEMMA ConditionFits ==
    ASSUME NEW e, NEW st \in [Name -> Value], NEW g, Fits(e, st, g),
           NEW c, IsCondition(c), c.kind = "atom" \/ Refined(e, c),
           NEW o \in Outcomes(st, c), NEW d \in BOOLEAN, Truthy(o.value) <=> d
    PROVE  Fits(NarrowCondition(e, c, d), st, g)
<1> DEFINE goesOn == c.kind = "and"
           names == {c.left.name, c.right.name}
           left == NarrowAtom(e, c.left, d)
           first == NarrowAtom(e, c.left, goesOn)
           narrowed == NarrowAtom(first, c.right, d)
<1>0. /\ IsAtom(c.left) /\ IsAtom(c.right) /\ goesOn \in BOOLEAN /\ Typed(e)
      /\ o.left \in AtomValues(st, c.left) /\ (Truthy(o.left) \in BOOLEAN)
  BY OutcomeParts DEF IsCondition, Fits, Truthy
<1>1. /\ (Truthy(o.left) <=> d) => Fits(left, st, g)
      /\ (Truthy(o.left) <=> goesOn) => Fits(first, st, g)
  BY <1>0, AtomFits
<1>names. c.left.name \in names /\ c.right.name \in names
  OBVIOUS
<1> HIDE DEF names
<1>2. Within(e, left, names, names) /\ Within(e, first, names, names)
  BY <1>0, <1>names, AtomWithin
<1>3. Typed(left) /\ Typed(first)
  BY <1>2 DEF Within
<1> HIDE DEF left, first, goesOn
<1>4. Within(first, narrowed, names, names)
  BY <1>0, <1>3, <1>names, AtomWithin
<1>5. (Truthy(o.left) <=> goesOn) /\ c.kind # "atom" => Fits(narrowed, st, g)
  <2> SUFFICES ASSUME Truthy(o.left) <=> goesOn, c.kind # "atom"
               PROVE  Fits(narrowed, st, g)
    OBVIOUS
  <2>1. o.value \in AtomValues(st, c.right)
    BY <1>0, OutcomeParts DEF goesOn
  <2> QED BY <1>0, <1>1, <2>1, AtomFits
<1> HIDE DEF narrowed
<1>6. CASE c.kind = "atom"
  BY <1>1, <1>6, OutcomeParts DEF NarrowCondition, NarrowRight, left, first
<1>7. CASE c.kind # "atom"
  <2>1. Within(e, narrowed, names, names)
    BY <1>2, <1>4, WithinTrans
  <2>2. \A m \in Ivar : m \in names => Contains(e, m)
    BY <1>7 DEF Refined, names
  <2>3. SameRefinements(left, narrowed) /\ SameRefinements(narrowed, left)
    BY <1>2, <2>1, <2>2, WithinSame
  <2>4. CASE Truthy(o.left) <=> goesOn
    <3>1. Fits(narrowed, st, g)
      BY <1>5, <1>7, <2>4
    <3>2. Fits(JoinEnvironment(left, narrowed), st, g)
      BY <1>3, <2>3, <3>1, JoinFits
    <3> QED BY <1>7, <3>1, <3>2 DEF NarrowCondition, NarrowRight, left, first, narrowed, goesOn
  <2>5. CASE ~ (Truthy(o.left) <=> goesOn)
    <3>1. Truthy(o.left) <=> d
      BY <1>0, <2>5, OutcomeParts DEF goesOn
    <3>2. Fits(left, st, g) /\ d # goesOn
      BY <1>0, <1>1, <2>5, <3>1
    <3>3. Fits(JoinEnvironment(left, narrowed), st, g)
      BY <1>4, <2>3, <3>2, JoinFits DEF Within
    <3> QED BY <1>7, <3>2, <3>3 DEF NarrowCondition, NarrowRight, left, first, narrowed, goesOn
  <2> QED BY <2>4, <2>5
<1> QED BY <1>6, <1>7

-----------------------------------------------------------------------------
(* Evaluation.                                                             *)

(* A type that describes a value has the part that the value takes. *)
LEMMA TruthinessSound ==
    ASSUME NEW t \in Type, NEW v \in Value, Describes(v, t), NEW b \in BOOLEAN, Truthy(v) <=> b
    PROVE  Way(Truthiness(t), b)
<1>1. Describes(v, Part(t, b)) /\ Part(t, b) \in Type
  BY PartLaw, PartTypes DEF Part
<1>2. Part(t, b) # NeverType
  BY <1>1, BasicLaw
<1>3. CASE b
  BY <1>2, <1>3 DEF Way, Truthiness, Part
<1>4. CASE ~ b
  BY <1>2, <1>4 DEF Way, Truthiness, Part
<1> QED BY <1>3, <1>4

(* The nil test of a safe call, and the join behind it, keep the environment right. *)
LEMMA SafeCallFits ==
    ASSUME NEW e, NEW st \in [Name -> Value], NEW g, Fits(e, st, g), NEW n \in Name
    PROVE  Fits(AfterSafeCall(e, n), st, g)
<1> DEFINE current == ReadType(e, n)
           isNil == Meet(current, NilType)
           notNil == Without(current, NilType)
           first == BindTested(e, n, isNil)
           second == BindTested(e, n, notNil)
           reach == IF IsOpen(e, n) THEN BothWays ELSE << isNil # NeverType, notNil # NeverType >>
<1>0. Typed(e) /\ st[n] \in Value
  BY DEF Fits
<1>1. current \in Type /\ NilType \in Class /\ NilType \in Type
  BY <1>0, ReadTypes, ConstantTypes DEF Typed
<1>2. isNil \in Type /\ notNil \in Type
  BY <1>1, CombinedTypes
<1>3. n \in g \/ Describes(st[n], current)
  BY DEF Fits, Described
<1> HIDE DEF current
<1>4. n \notin g => IF st[n] = NilValue THEN Describes(st[n], isNil) ELSE Describes(st[n], notNil)
  BY <1>0, <1>1, <1>3, BasicLaw, JoinLaw, ClassLaw
<1> HIDE DEF isNil, notNil
<1>5. Typed(first) /\ Typed(second) /\ SameRefinements(first, second) /\ SameRefinements(second, first)
  <2>1. Within(e, first, {n}, {}) /\ Within(e, second, {n}, {})
    BY <1>0, <1>2, TestedWithin
  <2>2. Contains(first, n) /\ Contains(second, n)
    BY <1>0, <1>2, AbsentAssumption
       DEF Contains, BindTested, Bind, SetHashShape, Typed, Environment
  <2> HIDE DEF first, second
  <2> QED BY <2>1, <2>2 DEF Within, SameRefinements
<1>6. \/ Fits(first, st, g) /\ (n \in g \/ isNil # NeverType)
      \/ Fits(second, st, g) /\ (n \in g \/ notNil # NeverType)
  BY <1>0, <1>2, <1>4, TestedFits, BasicLaw
<1>7. n \in g => Fits(first, st, g) /\ Fits(second, st, g)
  BY <1>2, TestedFits
<1> HIDE DEF first, second
<1>8. Fits(first, st, g) \/ Fits(second, st, g) => Fits(JoinEnvironment(first, second), st, g)
  BY <1>5, JoinFits
<1>9. Fits(JoinArms(reach, first, second), st, g)
  <2>1. CASE reach = BothWays
    BY <1>6, <1>8, <2>1 DEF JoinArms
  <2>2. CASE reach # BothWays
    <3>1. reach = << isNil # NeverType, notNil # NeverType >>
      BY <2>2
    <3>2. JoinArms(reach, first, second) = IF isNil # NeverType THEN first ELSE second
      BY <2>2, <3>1 DEF JoinArms
    <3>3. ~ ((isNil # NeverType) /\ (notNil # NeverType))
      BY <2>2, <3>1 DEF BothWays
    <3> QED BY <1>6, <1>7, <3>2, <3>3
  <2> QED BY <2>1, <2>2
<1> QED BY <1>9 DEF AfterSafeCall, SplitOnNil, first, second, isNil, notNil, current

(* An atom leaves a right environment and, unless it is a bare read of a sample, a type that    *)
(* describes its value.                                                                         *)
LEMMA EvaluateAtomFits ==
    ASSUME NEW e, NEW st \in [Name -> Value], NEW g, Fits(e, st, g), NEW a, IsAtom(a)
    PROVE  /\ Fits(EvaluateAtom(e, a).env, st, g)
           /\ \A v \in AtomValues(st, a) :
                 \/ a.op = "read" /\ ~ a.negated /\ a.name \in g
                 \/ Describes(v, EvaluateAtom(e, a).type)
<1>1. a.name \in Name /\ a.negated \in BOOLEAN
  BY DEF IsAtom
<1>2. Fits(EvaluateAtom(e, a).env, st, g)
  BY <1>1, SafeCallFits DEF EvaluateAtom, Evaluated
<1>3. ASSUME NEW v \in AtomValues(st, a), ~ (a.op = "read" /\ ~ a.negated /\ a.name \in g)
      PROVE  Describes(v, EvaluateAtom(e, a).type)
  <2>1. v \in Value
    BY AtomsAreValues
  <2>2. CASE a.op = "read" /\ ~ a.negated
    BY <1>1, <1>3, <2>2 DEF Fits, Described, EvaluateAtom, Evaluated, AtomValues
  <2>3. CASE a.op = "&."
    BY <2>1, <2>3, BasicLaw DEF EvaluateAtom, Evaluated
  <2>4. CASE ~ (a.op = "read" /\ ~ a.negated) /\ a.op # "&."
    <3>1. EvaluateAtom(e, a).type = BoolType
      BY <2>4 DEF EvaluateAtom, Evaluated
    <3>2. PICK b \in BOOLEAN : v = BoolValue(b)
      <4>1. (~ Truthy(st[a.name])) \in BOOLEAN /\ (Passes(st[a.name], a) # a.negated) \in BOOLEAN
        BY DEF Truthy
      <4> QED BY <2>4, <4>1 DEF AtomValues
    <3> QED BY <3>1, <3>2, Booleans
  <2> QED BY <2>2, <2>3, <2>4
<1> QED BY <1>2, <1>3

-----------------------------------------------------------------------------
(* A logical expression, part by part.                                     *)

GoesOn(c) == c.kind = "and"
LeftOf(e, c) == EvaluateAtom(e, c.left)
Entered(e, c) == NarrowOperand(LeftOf(e, c).env, c, LeftOf(e, c).type, GoesOn(c))
Existing(e, c) == NarrowOperand(LeftOf(e, c).env, c, LeftOf(e, c).type, ~ GoesOn(c))
RightOf(e, c) == EvaluateAtom(Entered(e, c), c.right)
ReachOf(e, c) == OperandReachability(LeftOf(e, c).env, c.left, LeftOf(e, c).type)
KeptOf(e, c) == IF c.left.negated THEN Part(LeftOf(e, c).type, ~ GoesOn(c))
                ELSE OperandPart(LeftOf(e, c).env, c.left, LeftOf(e, c).type, ~ GoesOn(c))

(* The right operand is evaluated. *)
Long(c, o) == Truthy(o.left) <=> GoesOn(c)

(* A logical expression in terms of its two arms. *)
LEMMA LogicalForm ==
    ASSUME NEW e, NEW c
    PROVE  EvaluateLogical(e, c) =
             IF ~ Way(ReachOf(e, c), GoesOn(c)) THEN Evaluated(KeptOf(e, c), Existing(e, c))
             ELSE IF ~ Way(ReachOf(e, c), ~ GoesOn(c)) THEN RightOf(e, c)
             ELSE Evaluated(Join(KeptOf(e, c), RightOf(e, c).type),
                            JoinEnvironment(Existing(e, c), RightOf(e, c).env))
BY DEF EvaluateLogical, AfterLeft, LogicalArms, LeftOf, Entered, Existing, RightOf, ReachOf,
       KeptOf, GoesOn

(* Its environments and types, and that its two arms have the same refinements when the names   *)
(* it is about have theirs.                                                                     *)
LEMMA LogicalTypes ==
    ASSUME NEW e, Typed(e), NEW c, IsCondition(c)
    PROVE  /\ LeftOf(e, c).type \in Type /\ Typed(LeftOf(e, c).env)
           /\ RightOf(e, c).type \in Type /\ KeptOf(e, c) \in Type
           /\ Typed(Entered(e, c)) /\ Typed(Existing(e, c)) /\ Typed(RightOf(e, c).env)
           /\ Refined(e, c) => /\ Refined(LeftOf(e, c).env, c)
                               /\ SameRefinements(Existing(e, c), RightOf(e, c).env)
                               /\ SameRefinements(RightOf(e, c).env, Existing(e, c))
<1> DEFINE names == {c.left.name, c.right.name}
           left == LeftOf(e, c)
           first == Entered(e, c)
           existing == Existing(e, c)
           right == RightOf(e, c)
<1>0. IsAtom(c.left) /\ IsAtom(c.right) /\ GoesOn(c) \in BOOLEAN /\ (~ GoesOn(c)) \in BOOLEAN
  BY DEF IsCondition, GoesOn
<1>1. c.left.name \in names /\ c.right.name \in names /\ {c.left.name, c.right.name} \subseteq names
  OBVIOUS
<1>2. Refined(e, c) => \A m \in Ivar : m \in names => Contains(e, m)
  BY DEF Refined
<1> HIDE DEF names
<1>3. left.type \in Type /\ Within(e, left.env, names, names)
  BY <1>0, <1>1, AtomTypes DEF LeftOf
<1>4. Typed(left.env)
  BY <1>3 DEF Within
<1>5. Within(left.env, first, names, names) /\ Within(left.env, existing, names, names)
  BY <1>0, <1>1, <1>3, <1>4, OperandWithin DEF Entered, Existing
<1> HIDE DEF left, first, existing
<1>6. Typed(first) /\ Typed(existing)
  BY <1>5 DEF Within
<1>7. right.type \in Type /\ Within(first, right.env, names, names)
  BY <1>0, <1>1, <1>6, AtomTypes DEF RightOf, first
<1> HIDE DEF right
<1>8. Within(e, existing, names, names) /\ Within(e, right.env, names, names)
  BY <1>3, <1>5, <1>7, WithinTrans
<1>9. Refined(e, c) => SameRefinements(existing, right.env) /\ SameRefinements(right.env, existing)
  BY <1>2, <1>8, WithinSame
<1>10. Refined(e, c) => Refined(left.env, c)
  BY <1>0, <1>3 DEF Refined, Within
<1>11. KeptOf(e, c) \in Type
  BY <1>0, <1>3, Parts, ConstantTypes DEF KeptOf, OperandPart, left
<1>12. Typed(right.env)
  BY <1>8 DEF Within
<1> QED BY <1>3, <1>4, <1>6, <1>7, <1>9, <1>10, <1>11, <1>12 DEF left, first, existing, right

(* The left operand, a read, as its pattern leaves it on the side its value takes. *)
LEMMA ReadOperandFits ==
    ASSUME NEW e, NEW st \in [Name -> Value], NEW g, Fits(e, st, g),
           NEW c, IsAtom(c.left), c.left.op = "read", NEW t \in Type,
           NEW l \in AtomValues(st, c.left), NEW b \in BOOLEAN, Truthy(l) <=> b,
           c.left.negated \/ c.left.name \in g \/ Describes(l, t)
    PROVE  Fits(NarrowOperand(e, c, t, b), st, g)
<1> DEFINE a == c.left
           bound == BindTested(e, a.name, OperandPart(e, a, t, b))
<1>1. a.name \in Name /\ a.negated \in BOOLEAN /\ st[a.name] \in Value
  BY DEF IsAtom
<1>2. CASE a.negated
  BY <1>2, AtomFits DEF NarrowOperand
<1>3. CASE ~ a.negated
  <2>1. l = st[a.name]
    BY <1>3 DEF AtomValues
  <2>2. OperandPart(e, a, t, b) \in Type
    BY Parts, ConstantTypes DEF OperandPart
  <2>3. a.name \in g \/ Describes(st[a.name], OperandPart(e, a, t, b))
    BY <1>1, <1>3, <2>1, MeetFits, BasicLaw DEF OperandPart
  <2>4. Fits(bound, st, g)
    BY <1>1, <2>2, <2>3, TestedFits
  <2> HIDE DEF bound
  <2>5. Fits(NarrowAtom(bound, a, b), st, g)
    BY <2>4, AtomFits
  <2> QED BY <1>3, <2>5 DEF NarrowOperand, bound
<1> QED BY <1>1, <1>2, <1>3

(* Where both ways are open either one is. *)
LEMMA EitherWay ==
    ASSUME NEW b
    PROVE  Way(BothWays, b)
<1>1. BothWays[1] /\ BothWays[2]
  BY DEF BothWays
<1> QED BY <1>1 DEF Way

(* A value that a type describes has a way; a test can always go both ways. *)
LEMMA TestBothWays ==
    ASSUME NEW e, NEW c, c.left.op # "read" \/ c.left.negated
    PROVE  /\ ReachOf(e, c) = BothWays
           /\ KeptOf(e, c) = Part(LeftOf(e, c).type, ~ GoesOn(c))
           /\ LeftOf(e, c).type \in {AnyType, BoolType}
           /\ Describes(BoolValue(~ GoesOn(c)), KeptOf(e, c))
<1> DEFINE t == LeftOf(e, c).type
<1>1. t \in {AnyType, BoolType}
  BY DEF LeftOf, EvaluateAtom, Evaluated
<1>2. t \in Type
  BY <1>1, ConstantTypes
<1>3. ASSUME NEW b \in BOOLEAN
      PROVE  /\ BoolValue(b) \in Value /\ (Truthy(BoolValue(b)) <=> b)
             /\ Describes(BoolValue(b), t)
  BY <1>1, <1>3, Booleans, BasicLaw
<1> HIDE DEF t
<1>4. ASSUME NEW b \in BOOLEAN
      PROVE  Way(Truthiness(t), b) /\ Describes(BoolValue(b), Part(t, b))
  BY <1>2, <1>3, <1>4, TruthinessSound, MeetFits
<1>5. Way(Truthiness(t), TRUE) /\ Way(Truthiness(t), FALSE)
  BY <1>4
<1>6. Truthiness(t) = BothWays
  BY <1>5 DEF Way, Truthiness, BothWays
<1>7. ReachOf(e, c) = Truthiness(t)
  BY DEF ReachOf, OperandReachability, ReadsOpen, IsLocalRead, t
<1>8. KeptOf(e, c) = Part(t, ~ GoesOn(c))
  BY DEF KeptOf, OperandPart, ReadsOpen, IsLocalRead, t
<1>9. (~ GoesOn(c)) \in BOOLEAN
  BY DEF GoesOn
<1> QED BY <1>1, <1>4, <1>6, <1>7, <1>8, <1>9 DEF t

(* Which of the two paths is right about the store. *)
LEMMA LogicalFits ==
    ASSUME NEW e, NEW st \in [Name -> Value], NEW g, Fits(e, st, g),
           NEW c, IsCondition(c), c.kind # "atom", Refined(e, c), NEW o \in Outcomes(st, c)
    PROVE  /\ ~ Long(c, o) => Fits(Existing(e, c), st, g) /\ o.value = o.left
           /\ Long(c, o) => o.value \in AtomValues(st, c.right)
           /\ Long(c, o) /\ (c.left.op = "read" \/ (Truthy(o.value) <=> GoesOn(c))) =>
                 Fits(Entered(e, c), st, g) /\ Fits(RightOf(e, c).env, st, g)
           /\ Long(c, o) /\ c.left.op # "read" /\ ~ (Truthy(o.value) <=> GoesOn(c)) =>
                 Fits(Existing(e, c), st, g)
<1> DEFINE left == LeftOf(e, c)
           b == GoesOn(c)
<1>0. /\ IsAtom(c.left) /\ IsAtom(c.right) /\ b \in BOOLEAN /\ (~ b) \in BOOLEAN /\ Typed(e)
  BY DEF IsCondition, GoesOn, Fits
<1>1. /\ o.left \in AtomValues(st, c.left)
      /\ Long(c, o) => o.value \in AtomValues(st, c.right)
      /\ ~ Long(c, o) => o.value = o.left
  BY OutcomeParts DEF Long, GoesOn, Truthy
<1>2. /\ Fits(left.env, st, g)
      /\ c.left.op = "read" /\ ~ c.left.negated => c.left.name \in g \/ Describes(o.left, left.type)
  BY <1>0, <1>1, EvaluateAtomFits DEF LeftOf
<1>3. left.type \in Type /\ Refined(left.env, c)
  BY <1>0, LogicalTypes
<1> HIDE DEF left, b
<1>4. CASE c.left.op = "read"
  <2>1. /\ Long(c, o) => Fits(NarrowOperand(left.env, c, left.type, b), st, g)
        /\ ~ Long(c, o) => Fits(NarrowOperand(left.env, c, left.type, ~ b), st, g)
    <3>1. /\ Long(c, o) => (Truthy(o.left) <=> b)
          /\ ~ Long(c, o) => (Truthy(o.left) <=> ~ b)
      BY <1>0 DEF Long, b
    <3>2. c.left.negated \/ c.left.name \in g \/ Describes(o.left, left.type)
      BY <1>2, <1>4
    <3> QED BY <1>0, <1>1, <1>2, <1>3, <1>4, <3>1, <3>2, ReadOperandFits
  <2>2. /\ Long(c, o) => Fits(Entered(e, c), st, g)
        /\ ~ Long(c, o) => Fits(Existing(e, c), st, g)
    BY <2>1 DEF Entered, Existing, left, b
  <2>3. Long(c, o) => Fits(RightOf(e, c).env, st, g)
    BY <1>0, <2>2, EvaluateAtomFits DEF RightOf
  <2> QED BY <1>1, <1>4, <2>2, <2>3
<1>5. CASE c.left.op # "read"
  <2>1. ASSUME NEW d \in BOOLEAN, Truthy(o.value) <=> d
        PROVE  Fits(NarrowOperand(left.env, c, left.type, d), st, g)
    BY <1>2, <1>3, <1>5, <2>1, ConditionFits DEF NarrowOperand
  <2>2. /\ (Truthy(o.value) <=> GoesOn(c)) => Fits(Entered(e, c), st, g)
        /\ ~ (Truthy(o.value) <=> GoesOn(c)) => Fits(Existing(e, c), st, g)
    BY <1>0, <2>1 DEF Entered, Existing, left, b
  <2>3. (Truthy(o.value) <=> GoesOn(c)) => Fits(RightOf(e, c).env, st, g)
    BY <1>0, <2>2, EvaluateAtomFits DEF RightOf
  <2> QED BY <1>1, <1>5, <2>2, <2>3 DEF Long
<1> QED BY <1>4, <1>5

(* A condition leaves a right environment, if the way its left operand takes is one the code    *)
(* looks at.                                                                                    *)
LEMMA EvaluateFits ==
    ASSUME NEW e, NEW st \in [Name -> Value], NEW g, Fits(e, st, g),
           NEW c, IsCondition(c), c.kind = "atom" \/ Refined(e, c), NEW o \in Outcomes(st, c),
           LeftAlive(c, EvaluateAtom(e, c.left), o)
    PROVE  Fits(Evaluate(e, c).env, st, g)
<1>1. CASE c.kind = "atom"
  BY <1>1, EvaluateAtomFits DEF Evaluate, IsCondition
<1>2. CASE c.kind # "atom"
  <2> DEFINE existing == Existing(e, c)
             right == RightOf(e, c)
             joined == JoinEnvironment(existing, right.env)
             b == GoesOn(c)
  <2>1. /\ Typed(existing) /\ Typed(right.env)
        /\ SameRefinements(existing, right.env) /\ SameRefinements(right.env, existing)
    BY <1>2, LogicalTypes DEF Fits
  <2>2. Way(ReachOf(e, c), Truthy(o.left)) /\ b \in BOOLEAN /\ Truthy(o.left) \in BOOLEAN
    BY <1>2 DEF LeftAlive, ReachOf, LeftOf, GoesOn, Truthy
  <2>3. Evaluate(e, c).env = IF ~ Way(ReachOf(e, c), b) THEN existing
                             ELSE IF ~ Way(ReachOf(e, c), ~ b) THEN right.env ELSE joined
    BY <1>2, LogicalForm DEF Evaluate, Evaluated
  <2>4. /\ ~ Long(c, o) => Fits(existing, st, g)
        /\ Long(c, o) => Fits(right.env, st, g) \/ (c.left.op # "read" /\ Fits(existing, st, g))
    BY <1>2, LogicalFits
  <2>5. c.left.op # "read" => ReachOf(e, c) = BothWays
    BY TestBothWays
  <2> HIDE DEF existing, right
  <2>6. Fits(existing, st, g) \/ Fits(right.env, st, g) => Fits(joined, st, g)
    BY <2>1, JoinFits
  <2> HIDE DEF joined, b
  <2>7. CASE Long(c, o)
    <3>1. Way(ReachOf(e, c), b)
      BY <2>2, <2>7 DEF Long, b
    <3>2. c.left.op # "read" => Way(ReachOf(e, c), ~ b)
      BY <2>5, EitherWay
    <3> QED BY <2>3, <2>4, <2>6, <2>7, <3>1, <3>2
  <2>8. CASE ~ Long(c, o)
    <3>1. Way(ReachOf(e, c), ~ b)
      BY <2>2, <2>8 DEF Long, b
    <3> QED BY <2>3, <2>4, <2>6, <2>8, <3>1
  <2> QED BY <2>7, <2>8
<1> QED BY <1>1, <1>2

(* ... and a type that describes its value, unless a sample is read or a test is the left       *)
(* operand of a logical expression.                                                             *)
LEMMA EvaluateDescribes ==
    ASSUME NEW e, NEW st \in [Name -> Value], NEW g, Fits(e, st, g),
           NEW c, IsCondition(c), c.kind = "atom" \/ Refined(e, c), NEW o \in Outcomes(st, c),
           LeftAlive(c, EvaluateAtom(e, c.left), o),
           c.kind = "atom" \/ c.left.op = "read",
           c.left.name \notin g, c.kind = "atom" \/ c.right.name \notin g
    PROVE  Describes(o.value, Evaluate(e, c).type)
<1>0. IsAtom(c.left) /\ IsAtom(c.right) /\ Typed(e)
  BY DEF IsCondition, Fits
<1>1. CASE c.kind = "atom"
  <2>1. o.value \in AtomValues(st, c.left)
    BY <1>1, OutcomeParts
  <2> QED BY <1>0, <1>1, <2>1, EvaluateAtomFits DEF Evaluate
<1>2. CASE c.kind # "atom"
  <2> DEFINE left == LeftOf(e, c)
             right == RightOf(e, c)
             kept == KeptOf(e, c)
             b == GoesOn(c)
  <2>1. left.type \in Type /\ right.type \in Type /\ kept \in Type
    BY <1>0, <1>2, LogicalTypes
  <2>2. Way(ReachOf(e, c), Truthy(o.left)) /\ b \in BOOLEAN /\ Truthy(o.left) \in BOOLEAN
    BY <1>2 DEF LeftAlive, ReachOf, LeftOf, GoesOn, Truthy
  <2>3. Evaluate(e, c).type = IF ~ Way(ReachOf(e, c), b) THEN kept
                              ELSE IF ~ Way(ReachOf(e, c), ~ b) THEN right.type
                              ELSE Join(kept, right.type)
    BY <1>2, LogicalForm DEF Evaluate, Evaluated
  <2>4. o.left \in AtomValues(st, c.left) /\ o.left \in Value /\ o.value \in Value
    BY <1>0, OutcomeParts, AtomsAreValues
  <2>5. CASE Long(c, o)
    <3>1. o.value \in AtomValues(st, c.right) /\ Fits(Entered(e, c), st, g)
      BY <1>2, <2>5, LogicalFits
    <3>2. Describes(o.value, right.type)
      BY <1>0, <1>2, <3>1, EvaluateAtomFits DEF RightOf
    <3>3. Way(ReachOf(e, c), b)
      BY <2>2, <2>5 DEF Long
    <3> HIDE DEF right, kept, b
    <3> QED BY <2>1, <2>3, <2>4, <3>2, <3>3, JoinLaw
  <2>6. CASE ~ Long(c, o)
    <3>1. o.value = o.left /\ (Truthy(o.left) <=> ~ b) /\ (~ b) \in BOOLEAN
      BY <1>2, <2>2, <2>6, LogicalFits DEF Long
    <3>2. Describes(o.left, left.type)
      BY <1>0, <2>4, EvaluateAtomFits DEF LeftOf
    <3>3. Way(ReachOf(e, c), ~ b)
      BY <2>2, <3>1
    <3> HIDE DEF left, b
    <3>4. Describes(o.left, Part(left.type, ~ b))
      BY <2>1, <2>4, <3>1, <3>2, MeetFits
    <3>5. Describes(o.left, kept)
      BY <2>4, <3>4, BasicLaw DEF KeptOf, OperandPart, left, b
    <3> HIDE DEF right, kept
    <3> QED BY <2>1, <2>3, <2>4, <3>1, <3>3, <3>5, JoinLaw
  <2> QED BY <2>5, <2>6
<1> QED BY <1>1, <1>2

-----------------------------------------------------------------------------
(* Reachability.                                                           *)

(* An open local stays open while other names are narrowed. *)
LEMMA BindOpen ==
    ASSUME NEW e, Typed(e), NEW m, IsOpen(e, m), NEW n \in Name, n # m, NEW t \in Type
    PROVE  IsOpen(Bind(e, n, t), m) /\ IsOpen(BindTested(e, n, t), m)
<1>1. IsOpen(Bind(e, n, t), m)
  BY DEF IsOpen, Bind
<1>2. Bind(e, n, t) \in Environment
  BY BindTyped DEF Typed
<1> HIDE DEF Bind
<1> QED BY <1>1, <1>2 DEF BindTested, SetHashShape, IsOpen, Environment

(* A local open on either path is open after the join. *)
LEMMA JoinOpen ==
    ASSUME NEW e, NEW f, NEW m, IsOpen(e, m) \/ IsOpen(f, m)
    PROVE  IsOpen(JoinEnvironment(e, f), m)
BY DEF IsOpen, JoinEnvironment

(* A local stays open when an atom about another one narrows. *)
LEMMA AtomOpen ==
    ASSUME NEW e, Typed(e), NEW m, IsOpen(e, m), NEW a, IsAtom(a), a.name # m, NEW b \in BOOLEAN,
           a.op = "read" /\ e.alias[a.name] # Absent => e.alias[a.name].source # m
    PROVE  IsOpen(NarrowAtom(e, a, b), m)
<1> DEFINE n == a.name
           holds == b # a.negated
           current == ReadType(e, n)
<1>0. n \in Name /\ holds \in BOOLEAN
  BY DEF IsAtom
<1>1. current \in Type
  BY <1>0, ReadTypes DEF Typed
<1>2. \A k \in Name, t \in Type : k # m => IsOpen(Bind(e, k, t), m)
  BY BindOpen
<1>3. ASSUME NEW k \in Name, NEW t \in Type, k # m
      PROVE  IsOpen(SetKnownTruthiness(Bind(e, k, t), k, holds), m)
  <2>1. Bind(e, k, t) \in Environment /\ IsOpen(Bind(e, k, t), m)
    BY <1>2, <1>3, BindTyped DEF Typed
  <2> QED BY <2>1 DEF SetKnownTruthiness, IsOpen, Environment
<1>4. a.op = "read" => IsOpen(NarrowRead(e, n, holds), m)
  <2> SUFFICES ASSUME a.op = "read"
               PROVE  IsOpen(NarrowRead(e, n, holds), m)
    OBVIOUS
  <2>1. CASE n \in Ivar
    <3>1. Meet(current, Part(current, holds)) \in Type
      BY <1>0, <1>1, Parts, CombinedTypes
    <3> QED BY <1>0, <1>2, <2>1, <3>1 DEF NarrowRead
  <2>2. CASE n \notin Ivar /\ e.alias[n] # Absent
    <3> DEFINE alias == e.alias[n]
               here == Get(e, alias.source)
               truthy == holds # alias.negated
               t == Meet(here, Proven(here, alias, truthy))
    <3>1. /\ alias.source \in Name \ Ivar /\ alias.expected \in Class \union {Absent}
          /\ alias.source # m
      BY <1>0, <2>2, AliasParts
    <3>2. here \in Type
      BY <3>1, ReadTypes DEF Typed
    <3>3. Proven(here, alias, truthy) \in Type
      BY <3>1, <3>2, Parts, CombinedTypes, ConstantTypes DEF Proven
    <3>4. t \in Type
      BY <3>2, <3>3, CombinedTypes
    <3>5. IsOpen(Bind(e, alias.source, t), m) /\ Bind(e, alias.source, t) \in Environment
      BY <1>2, <3>1, <3>4, BindTyped DEF Typed
    <3> HIDE DEF t, truthy, alias
    <3>6. IsOpen(SetKnownTruthiness(Bind(e, alias.source, t), alias.source, truthy), m)
      BY <3>5 DEF SetKnownTruthiness, IsOpen, Environment
    <3> QED BY <2>2, <3>5, <3>6 DEF NarrowRead, NarrowLocal, NarrowAlias, NarrowSource, t, truthy, alias
  <2>3. CASE n \notin Ivar /\ e.alias[n] = Absent
    <3>1. Get(e, n) \in Type
      BY <1>0, ReadTypes DEF Typed
    <3>2. Meet(Get(e, n), Part(Get(e, n), holds)) \in Type
      BY <1>0, <3>1, Parts, CombinedTypes
    <3>3. NarrowedLocal(e, n, Get(e, n), holds) \in Type
      BY <3>1, <3>2, ConstantTypes DEF NarrowedLocal, GradualPart
    <3> QED BY <1>0, <1>3, <2>3, <3>3 DEF NarrowRead, NarrowLocal
  <2> QED BY <2>1, <2>2, <2>3
<1>5. IsOpen(NarrowSafeCall(e, n, holds), m)
  <2>1. Without(current, NilType) \in Type
    BY <1>1, CombinedTypes, ConstantTypes
  <2> QED BY <1>0, <1>2, <2>1 DEF NarrowSafeCall
<1>6. a.op \notin {"read", "&."} => IsOpen(NarrowTest(e, a, holds), m)
  <2> SUFFICES ASSUME a.op \notin {"read", "&."}
               PROVE  IsOpen(NarrowTest(e, a, holds), m)
    OBVIOUS
  <2>0. PICK sample \in BOOLEAN : sample =
          (a.op = "===" /\ holds /\ a.name \notin Ivar /\ IsInferred(e, a.name))
    OBVIOUS
  <2> DEFINE now == IF sample THEN AnyType ELSE current
             t == NarrowedByTest(now, a, holds)
             narrowed == IF a.op \in ClassTests \union NilTests THEN Bind(e, n, t) ELSE e
  <2>1. now \in Type
    BY <1>1, ConstantTypes
  <2>2. a.op \in ClassTests => a.class \in Type /\ a.op \notin NilTests
    BY ConstantTypes DEF IsAtom, ClassTests, NilTests
  <2> HIDE DEF now
  <2>3. a.op \in ClassTests \union NilTests => t \in Type
    BY <2>1, <2>2, CombinedTypes, ConstantTypes DEF NarrowedByTest
  <2> HIDE DEF t
  <2>4. narrowed \in Environment /\ IsOpen(narrowed, m)
    BY <1>0, <1>2, <2>3, BindTyped DEF Typed
  <2> HIDE DEF narrowed
  <2>5. /\ IsOpen(MarkInferred(narrowed, n), m)
        /\ IsOpen(SetKnownRespondTo(e, n), m)
        /\ IsOpen(SetKnownNonempty(e, n, ~ holds), m)
    BY <2>4 DEF MarkInferred, SetKnownRespondTo, SetKnownNonempty, IsOpen, Typed, Environment
  <2>6. IsOpen(NarrowTo(e, a, holds, now, narrowed), m)
    BY <2>4, <2>5 DEF NarrowTo
  <2> QED BY <2>0, <2>6 DEF NarrowTest, now, t, narrowed
<1> QED BY <1>4, <1>5, <1>6 DEF NarrowAtom

(* A local stays open through a safe call on another one. *)
LEMMA SafeCallOpen ==
    ASSUME NEW e, Typed(e), NEW m, IsOpen(e, m), NEW n \in Name, n # m
    PROVE  IsOpen(AfterSafeCall(e, n), m)
<1> DEFINE isNil == Meet(ReadType(e, n), NilType)
           notNil == Without(ReadType(e, n), NilType)
<1>1. isNil \in Type /\ notNil \in Type
  BY ReadTypes, CombinedTypes, ConstantTypes DEF Typed
<1>2. IsOpen(BindTested(e, n, isNil), m) /\ IsOpen(BindTested(e, n, notNil), m)
  BY <1>1, BindOpen
<1>3. IsOpen(JoinEnvironment(BindTested(e, n, isNil), BindTested(e, n, notNil)), m)
  BY <1>2, JoinOpen
<1> QED BY <1>2, <1>3 DEF AfterSafeCall, SplitOnNil, JoinArms

(* Whatever is bound to a type that describes it is no sample any more. *)
LEMMA BindClears ==
    ASSUME NEW e, NEW st \in [Name -> Value], NEW g, Fits(e, st, g),
           NEW n \in Name, NEW t \in Type, Describes(st[n], t)
    PROVE  Fits(BindTested(e, n, t), st, g \ {n})
<1> DEFINE f == BindTested(e, n, t)
<1>1. Fits(f, st, g)
  BY TestedFits
<1>2. Typed(e)
  BY DEF Fits
<1>3. f.locals = [e.locals EXCEPT ![n] = t]
  BY <1>2 DEF BindTested, Bind, SetHashShape, Typed, Environment
<1>4. ReadType(f, n) = t
  BY <1>2, <1>3, AbsentAssumption DEF ReadType, Get, Contains, Typed, Environment
<1> HIDE DEF f
<1>5. Described(f, st, g \ {n})
  BY <1>1, <1>4 DEF Fits, Described
<1> QED BY <1>1, <1>5 DEF Fits, f

(* The left operand takes a way that is looked at. *)
LEMMA LeftWay ==
    ASSUME NEW e, NEW st \in [Name -> Value], NEW g, Fits(e, st, g),
           NEW c, IsCondition(c), Trusted(e, g, c), NEW o \in Outcomes(st, c)
    PROVE  LeftAlive(c, EvaluateAtom(e, c.left), o)
<1> SUFFICES ASSUME c.kind # "atom"
             PROVE  Way(ReachOf(e, c), Truthy(o.left))
  BY DEF LeftAlive, ReachOf, LeftOf
<1>0. IsAtom(c.left) /\ o.left \in AtomValues(st, c.left) /\ Typed(e)
  BY OutcomeParts DEF IsCondition, Fits
<1>1. CASE c.left.op # "read" \/ c.left.negated
  BY <1>1, TestBothWays, EitherWay
<1>2. CASE c.left.op = "read" /\ ~ c.left.negated
  <2>1. LeftOf(e, c) = Evaluated(ReadType(e, c.left.name), e)
    BY <1>2 DEF LeftOf, EvaluateAtom
  <2>2. LeftOf(e, c).env = e /\ LeftOf(e, c).type = ReadType(e, c.left.name)
    BY <2>1 DEF Evaluated
  <2>3. CASE ReadsOpen(e, c.left)
    BY <1>2, <2>2, <2>3, EitherWay DEF ReachOf, OperandReachability
  <2>4. CASE ~ ReadsOpen(e, c.left)
    <3>1. c.left.name \notin g
      <4>1. c.left.name \in Name
        BY <1>0 DEF IsAtom
      <4> QED BY <1>0, <1>2, <2>4, <4>1 DEF Trusted, ReadsOpen, IsLocalRead, Typed, Closed
    <3>2. Describes(o.left, ReadType(e, c.left.name))
      BY <1>0, <2>2, <3>1, EvaluateAtomFits DEF LeftOf
    <3>3. ReadType(e, c.left.name) \in Type /\ o.left \in Value /\ Truthy(o.left) \in BOOLEAN
      BY <1>0, ReadTypes, AtomsAreValues DEF IsAtom, Typed, Truthy
    <3>4. Way(Truthiness(ReadType(e, c.left.name)), Truthy(o.left))
      BY <3>2, <3>3, TruthinessSound
    <3> QED BY <2>2, <2>4, <3>4 DEF ReachOf, OperandReachability
  <2> QED BY <2>3, <2>4
<1> QED BY <1>1, <1>2

(* A sample the right operand reads is still open behind the expression. *)
LEMMA RightStaysOpen ==
    ASSUME NEW e, Typed(e), NEW g, NEW c, IsCondition(c), c.kind # "atom", Trusted(e, g, c),
           c.right.op = "read", ~ c.right.negated, c.right.name \in g,
           c.left.name # c.right.name,
           Way(ReachOf(e, c), GoesOn(c))
    PROVE  ContainsOpenLocal(Evaluate(e, c).env, c)
<1> DEFINE m == c.right.name
           b == GoesOn(c)
           left == LeftOf(e, c)
<1>0. /\ IsAtom(c.left) /\ IsAtom(c.right) /\ m \in Name /\ c.left.name \in Name
      /\ b \in BOOLEAN /\ (~ b) \in BOOLEAN
  BY DEF IsCondition, IsAtom, GoesOn
<1>1. IsOpen(e, m) /\ m \notin Ivar
  BY <1>0 DEF Trusted, Typed, Closed
<1>2. e.alias[c.left.name] # Absent => e.alias[c.left.name].source # m
  BY DEF Trusted
<1>3. IsOpen(left.env, m) /\ Typed(left.env) /\ left.type \in Type
  BY <1>0, <1>1, SafeCallOpen, LogicalTypes DEF LeftOf, EvaluateAtom, Evaluated
<1>4. RightOf(e, c).env = Entered(e, c)
  BY DEF RightOf, EvaluateAtom, Evaluated
<1>5. IsOpen(Evaluate(e, c).env, m)
  <2>1. CASE c.left.op = "read"
    <3> DEFINE bound == BindTested(e, c.left.name, OperandPart(e, c.left, left.type, b))
    <3>1. left.env = e
      BY <2>1 DEF LeftOf, EvaluateAtom, Evaluated
    <3>2. IsOpen(NarrowAtom(e, c.left, b), m)
      BY <1>0, <1>1, <1>2, AtomOpen
    <3>3. OperandPart(e, c.left, left.type, b) \in Type
      BY <1>0, <1>3, Parts, ConstantTypes DEF OperandPart
    <3>4. IsOpen(bound, m)
      BY <1>0, <1>1, <3>3, BindOpen
    <3>5. Typed(bound)
      BY <1>0, <3>3, TestedWithin DEF Within
    <3>6. bound.alias[c.left.name] = Absent
      BY <1>0, <3>3 DEF BindTested, Bind, SetHashShape, Typed, Environment
    <3> HIDE DEF bound
    <3>7. IsOpen(NarrowAtom(bound, c.left, b), m)
      BY <1>0, <3>4, <3>5, <3>6, AtomOpen
    <3>8. IsOpen(Entered(e, c), m)
      BY <2>1, <3>1, <3>2, <3>7 DEF Entered, NarrowOperand, bound, left, b
    <3>9. IsOpen(JoinEnvironment(Existing(e, c), RightOf(e, c).env), m)
      BY <1>4, <3>8, JoinOpen
    <3> QED BY <1>4, <3>8, <3>9, LogicalForm DEF Evaluate, Evaluated
  <2>2. CASE c.left.op # "read"
    <3>1. IsOpen(NarrowAtom(left.env, c.left, ~ b), m)
      BY <1>0, <1>3, <2>2, AtomOpen
    <3>2. Existing(e, c) = NarrowCondition(left.env, c, ~ b)
      BY <2>2 DEF Existing, NarrowOperand, left, b
    <3>3. (~ b) # (c.kind = "and")
      BY DEF GoesOn
    <3>4. \E f : NarrowCondition(left.env, c, ~ b)
                   = JoinEnvironment(NarrowAtom(left.env, c.left, ~ b), f)
      BY <3>3 DEF NarrowCondition, NarrowRight
    <3>5. IsOpen(Existing(e, c), m)
      BY <3>1, <3>2, <3>4, JoinOpen
    <3>6. IsOpen(JoinEnvironment(Existing(e, c), RightOf(e, c).env), m)
      BY <3>5, JoinOpen
    <3>7. Way(ReachOf(e, c), ~ b)
      BY <2>2, TestBothWays, EitherWay
    <3> QED BY <3>6, <3>7, LogicalForm DEF Evaluate, Evaluated
  <2> QED BY <2>1, <2>2
<1> QED BY <1>1, <1>5 DEF ContainsOpenLocal, ReadsOpen, IsLocalRead

(* The type of a logical expression has the truthiness of its value, also when the type is of   *)
(* a sample or was read under the predicate of the whole expression.                            *)
LEMMA LogicalWitness ==
    ASSUME NEW e, NEW st \in [Name -> Value], NEW g, Fits(e, st, g),
           NEW c, IsCondition(c), c.kind # "atom", Refined(e, c), Trusted(e, g, c),
           NEW o \in Outcomes(st, c), ~ ContainsOpenLocal(Evaluate(e, c).env, c)
    PROVE  \E w \in Value : (Truthy(w) <=> Truthy(o.value)) /\ Describes(w, Evaluate(e, c).type)
<1> DEFINE b == GoesOn(c)
           left == LeftOf(e, c)
           right == RightOf(e, c)
           kept == KeptOf(e, c)
           type == Evaluate(e, c).type
           a == c.left
           n == c.left.name
           m == c.right.name
           plainRight == c.right.op = "read" /\ ~ c.right.negated /\ m \in g
           tests == a.op # "read" \/ a.negated
<1>0. /\ IsAtom(a) /\ IsAtom(c.right) /\ Typed(e) /\ b \in BOOLEAN /\ (~ b) \in BOOLEAN
      /\ n \in Name /\ m \in Name /\ a.negated \in BOOLEAN /\ st[n] \in Value
  BY DEF IsCondition, IsAtom, GoesOn, Fits
<1>1. /\ left.type \in Type /\ right.type \in Type /\ kept \in Type
      /\ type = IF ~ Way(ReachOf(e, c), b) THEN kept
                ELSE IF ~ Way(ReachOf(e, c), ~ b) THEN right.type ELSE Join(kept, right.type)
  BY <1>0, LogicalTypes, LogicalForm DEF Evaluate, Evaluated
<1>2. /\ o.left \in AtomValues(st, a) /\ o.left \in Value
      /\ Long(c, o) => o.value \in AtomValues(st, c.right) /\ o.value \in Value
      /\ ~ Long(c, o) => o.value = o.left
      /\ Truthy(o.left) \in BOOLEAN /\ Truthy(o.value) \in BOOLEAN
  <2>1. o.left \in AtomValues(st, a)
        /\ IF c.kind # "atom" /\ Truthy(o.left) = (c.kind = "and")
           THEN o.value \in AtomValues(st, c.right) ELSE o.value = o.left
    BY OutcomeParts
  <2>2. Long(c, o) <=> Truthy(o.left) = (c.kind = "and")
    BY DEF Long, GoesOn, Truthy
  <2> QED BY <1>0, <2>1, <2>2, AtomsAreValues DEF Truthy
<1>3. Way(ReachOf(e, c), Truthy(o.left))
  BY LeftWay DEF LeftAlive, ReachOf, LeftOf
<1>4. \A v \in Value : /\ Way(ReachOf(e, c), ~ b) /\ Describes(v, kept) => Describes(v, type)
                       /\ Way(ReachOf(e, c), b) /\ Describes(v, right.type) => Describes(v, type)
  BY <1>1, JoinLaw
<1>5. tests => /\ Way(ReachOf(e, c), b) /\ Way(ReachOf(e, c), ~ b)
               /\ kept = Part(left.type, ~ b) /\ Describes(BoolValue(~ b), kept)
  BY TestBothWays, EitherWay
<1>6. BoolValue(~ b) \in Value /\ (Truthy(BoolValue(~ b)) <=> ~ b)
  BY <1>0, Booleans
<1>7. ~ tests => left.env = e /\ left.type = ReadType(e, n) /\ o.left = st[n]
  BY <1>2 DEF LeftOf, EvaluateAtom, Evaluated, AtomValues
<1>8. tests => Describes(o.left, left.type)
  BY <1>0, <1>2, EvaluateAtomFits DEF LeftOf
<1> HIDE DEF b, type
<1>9. CASE ~ Long(c, o)
  <2>1. Truthy(o.left) <=> ~ b
    BY <1>0, <1>2, <1>9 DEF Long, b
  <2>2. Describes(o.left, kept)
    <3>1. CASE tests
      BY <1>0, <1>1, <1>2, <1>5, <1>8, <2>1, <3>1, MeetFits
    <3>2. CASE ~ tests
      <4>1. kept = IF ReadsOpen(e, a) THEN AnyType ELSE Part(left.type, ~ b)
        BY <1>7, <3>2 DEF KeptOf, OperandPart, b
      <4>2. CASE ReadsOpen(e, a)
        BY <1>2, <4>1, <4>2, BasicLaw
      <4>3. CASE ~ ReadsOpen(e, a)
        <5>1. n \notin g
          BY <1>0, <3>2, <4>3 DEF Trusted, ReadsOpen, IsLocalRead, Typed, Closed
        <5>2. Describes(o.left, left.type)
          BY <1>0, <1>7, <3>2, <5>1 DEF Fits, Described
        <5> QED BY <1>0, <1>1, <1>2, <2>1, <4>1, <4>3, <5>2, MeetFits
      <4> QED BY <4>2, <4>3
    <3> QED BY <3>1, <3>2
  <2>3. Way(ReachOf(e, c), ~ b)
    BY <1>0, <1>3, <2>1, <1>2
  <2> QED BY <1>2, <1>4, <1>9, <2>2, <2>3 DEF type
<1>10. CASE Long(c, o)
  <2>0. (Truthy(o.left) <=> b) /\ Way(ReachOf(e, c), b)
    BY <1>0, <1>2, <1>3, <1>10 DEF Long, b
  <2>1. CASE tests /\ (Truthy(o.value) <=> ~ b)
    BY <1>4, <1>5, <1>6, <2>1 DEF type
  <2>2. CASE a.op = "read" \/ (Truthy(o.value) <=> b)
    <3>1. Fits(Entered(e, c), st, g)
      BY <1>10, <2>2, LogicalFits DEF b
    <3>2. CASE ~ plainRight
      <4>1. Describes(o.value, right.type)
        BY <1>0, <1>2, <1>10, <3>1, <3>2, EvaluateAtomFits DEF RightOf
      <4> QED BY <1>2, <1>4, <1>10, <2>0, <4>1 DEF type
    <3>3. CASE plainRight
      <4>1. n = m
        BY <1>0, <2>0, <3>3, RightStaysOpen DEF b
      <4>2. a.op = "read" /\ IsOpen(e, n) /\ n \notin Ivar
        BY <1>0, <3>3, <4>1 DEF Trusted, Typed, Closed
      <4>3. o.value = st[n]
        BY <1>2, <1>10, <3>3, <4>1 DEF AtomValues
      <4>4. CASE a.negated
        <5>1. o.left = BoolValue(~ Truthy(st[n])) /\ (~ Truthy(st[n])) \in BOOLEAN
          BY <1>2, <4>2, <4>4 DEF AtomValues, Truthy
        <5>2. Truthy(o.left) <=> ~ Truthy(st[n])
          BY <5>1, Booleans
        <5> QED BY <1>0, <1>4, <1>5, <1>6, <2>0, <4>3, <4>4, <5>2 DEF type
      <4>5. CASE ~ a.negated
        <5> DEFINE bound == BindTested(e, n, AnyType)
        <5>1. ReadsOpen(e, a)
          BY <4>2 DEF ReadsOpen, IsLocalRead
        <5>2. Entered(e, c) = NarrowAtom(bound, a, b)
          BY <1>7, <4>2, <4>5, <5>1 DEF Entered, NarrowOperand, OperandPart, b
        <5>3. Fits(bound, st, g \ {n})
          BY <1>0, BindClears, BasicLaw, ConstantTypes
        <5> HIDE DEF bound
        <5>4. Fits(Entered(e, c), st, g \ {n})
          BY <1>0, <1>2, <2>0, <5>2, <5>3, AtomFits
        <5>5. m \notin g \ {n} /\ o.value \in AtomValues(st, c.right)
          BY <1>2, <1>10, <4>1
        <5>6. Describes(o.value, right.type)
          BY <1>0, <5>4, <5>5, EvaluateAtomFits DEF RightOf
        <5> QED BY <1>2, <1>4, <1>10, <2>0, <5>6 DEF type
      <4> QED BY <1>0, <4>4, <4>5
    <3> QED BY <3>2, <3>3
  <2> QED BY <1>0, <1>2, <2>1, <2>2
<1> QED BY <1>9, <1>10

(* A branch that the store takes is one the code looks at. *)
LEMMA ReachabilitySound ==
    ASSUME NEW e, NEW st \in [Name -> Value], NEW g, Fits(e, st, g),
           NEW c, IsCondition(c), c.kind = "atom" \/ Refined(e, c), Trusted(e, g, c),
           NEW o \in Outcomes(st, c)
    PROVE  Way(Reachability(Evaluate(e, c).env, c, Evaluate(e, c).type), Truthy(o.value))
<1> DEFINE after == Evaluate(e, c)
           a == c.left
           n == a.name
           d == Truthy(o.value)
<1>0. IsAtom(a) /\ n \in Name /\ Typed(e) /\ st[n] \in Value /\ d \in BOOLEAN /\ a.negated \in BOOLEAN
  BY DEF IsCondition, IsAtom, Fits, Truthy
<1>1. after.type \in Type
  <2>1. {c.left.name, c.right.name} \subseteq Name \intersect Name
    BY DEF IsCondition, IsAtom
  <2> QED BY <1>0, <2>1, EvaluateWithin
<1>2. CASE ContainsOpenLocal(after.env, c)
  BY <1>2, EitherWay DEF Reachability
<1>3. CASE ~ ContainsOpenLocal(after.env, c) /\ c.kind = "atom" /\ a.op = "read"
  <2> DEFINE known == e.truthiness[n]
             answer == IF known # Absent /\ n \notin Ivar THEN << known, ~ known >>
                       ELSE Truthiness(ReadType(e, n))
             now == Truthy(st[n])
  <2>1. after.env = e
    BY <1>3 DEF Evaluate, EvaluateAtom, Evaluated
  <2>2. n \notin g
    BY <1>0, <1>3, <2>1 DEF Trusted, ContainsOpenLocal, ReadsOpen, IsLocalRead, Typed, Closed
  <2>3. Describes(st[n], ReadType(e, n)) /\ ReadType(e, n) \in Type /\ now \in BOOLEAN
    BY <1>0, <2>2, ReadTypes DEF Fits, Described, Typed, Truthy
  <2>4. Way(answer, now)
    <3>1. CASE known # Absent /\ n \notin Ivar
      <4>1. now = known /\ known \in BOOLEAN
        BY <1>0, <3>1 DEF Fits, FactHolds, Typed, Environment
      <4> HIDE DEF known, now
      <4> QED BY <3>1, <4>1 DEF Way
    <3>2. CASE ~ (known # Absent /\ n \notin Ivar)
      BY <1>0, <2>3, <3>2, TruthinessSound
    <3> QED BY <3>1, <3>2
  <2>5. o.value = IF a.negated THEN BoolValue(~ now) ELSE st[n]
    <3>1. o.value \in AtomValues(st, a)
      BY <1>3, OutcomeParts
    <3> QED BY <1>3, <3>1 DEF AtomValues
  <2>6. (~ now) \in BOOLEAN /\ (a.negated => (d <=> ~ now)) /\ (~ a.negated => (d <=> now))
    BY <1>0, <2>3, <2>5, Booleans
  <2>7. Reachability(after.env, c, after.type) = IF a.negated THEN Swap(answer) ELSE answer
    BY <1>3, <2>1 DEF Reachability
  <2> HIDE DEF answer, now, d
  <2>8. Way(Swap(answer), ~ now)
    BY <2>3, <2>4 DEF Way, Swap
  <2> QED BY <1>0, <2>3, <2>4, <2>6, <2>7, <2>8 DEF d
<1>4. CASE ~ ContainsOpenLocal(after.env, c) /\ ~ (c.kind = "atom" /\ a.op = "read")
  <2>1. Reachability(after.env, c, after.type) = Truthiness(after.type)
    BY <1>4 DEF Reachability
  <2>2. \E w \in Value : (Truthy(w) <=> d) /\ Describes(w, after.type)
    <3>1. CASE c.kind = "atom"
      <4>1. o.value \in AtomValues(st, a)
        BY <3>1, OutcomeParts
      <4>2. o.value \in Value /\ Describes(o.value, EvaluateAtom(e, a).type)
        BY <1>0, <1>4, <3>1, <4>1, EvaluateAtomFits, AtomsAreValues
      <4> QED BY <3>1, <4>2 DEF Evaluate
    <3>2. CASE c.kind # "atom"
      BY <1>4, <3>2, LogicalWitness
    <3> QED BY <3>1, <3>2
  <2> QED BY <1>0, <1>1, <2>1, <2>2, TruthinessSound
<1> QED BY <1>2, <1>3, <1>4
=============================================================================
