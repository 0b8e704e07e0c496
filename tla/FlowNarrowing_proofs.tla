------------------------ MODULE FlowNarrowing_proofs ------------------------
(***************************************************************************)
(* Every statement and every branch keeps the environment right about the  *)
(* store, for every body without the six excluded shapes and for every     *)
(* algebra of types with the laws of FlowLaws: IInv is inductive, and the  *)
(* five properties that the flow_narrowing run checks follow.              *)
(***************************************************************************)
EXTENDS Narrowing_proofs

(* The parts of containers. *)
LEMMA ArrayParts ==
    ASSUME NEW v \in Value, IsArray(v)
    PROVE  v[2] \subseteq Element /\ v = ArrayValue(v[2]) /\ ~ IsHash(v)
<1>1. v \notin Scalar
  BY ValueAssumption
<1>2. \A h : HashValue(h)[1] = "hash"
  BY DEF HashValue
<1>3. PICK vs \in SUBSET Element : v = ArrayValue(vs)
  BY <1>1, <1>2 DEF Value, IsArray
<1> QED BY <1>3 DEF ArrayValue, IsArray, IsHash

(* What a hash has under each key. *)
LEMMA HashParts ==
    ASSUME NEW v \in Value, IsHash(v)
    PROVE  v[2] \in [Key -> Element \union {Missing}] /\ v = HashValue(v[2]) /\ ~ IsArray(v)
<1>1. v \notin Scalar
  BY ValueAssumption
<1>2. \A vs : ArrayValue(vs)[1] = "array"
  BY DEF ArrayValue
<1>3. PICK h \in [Key -> Element \union {Missing}] : v = HashValue(h)
  BY <1>1, <1>2 DEF Value, IsHash
<1> QED BY <1>3 DEF HashValue, IsArray, IsHash

(* A container is true, and answers no integer's method. *)
LEMMA Containers ==
    ASSUME NEW v, IsArray(v) \/ IsHash(v)
    PROVE  Truthy(v) /\ v # NilValue /\ ~ Responds(v)
BY DEF IsArray, IsHash, Truthy, Responds, NilValue, FalseValue

(* A shape's answer for a key is a type, which describes what its parts describe. *)
LEMMA ValueForSound ==
    ASSUME NEW shape \in Shape, NEW k \in Key
    PROVE  /\ ValueFor(shape, k) \in Type
           /\ \A v \in Value : shape # Absent /\ ShapeFits(shape, v) =>
                 Describes(ValueAt(v, k), ValueFor(shape, k))
<1> DEFINE known == IF shape.entries[k] = Absent THEN NilType ELSE shape.entries[k]
<1>1. known \in Type /\ (shape.unknown = Absent \/ shape.unknown \in Type)
  BY ConstantTypes DEF Shape
<1>2. ValueFor(shape, k) = IF shape.unknown = Absent THEN known ELSE Join(known, shape.unknown)
  BY DEF ValueFor
<1>3. ASSUME NEW v \in Value, shape # Absent, ShapeFits(shape, v)
      PROVE  Describes(ValueAt(v, k), ValueFor(shape, k))
  <2>1. /\ ValueAt(v, k) \in Value
        /\ \/ Describes(ValueAt(v, k), known)
           \/ shape.unknown # Absent /\ Describes(ValueAt(v, k), shape.unknown)
    BY <1>3, ValuesAt DEF ShapeFits
  <2> HIDE DEF known
  <2> QED BY <1>1, <1>2, <2>1, JoinLaw
<1>4. ValueFor(shape, k) \in Type
  <2> HIDE DEF known
  <2> QED BY <1>1, <1>2, CombinedTypes
<1> QED BY <1>3, <1>4

(* What the right side of an assignment needs to be evaluated. *)
Evaluable(e, x) ==
    /\ IsExpression(x)
    /\ x.kind = "key" => e.shape[x.name] # Absent
    /\ x.kind = "first" => ElementOf(Get(e, x.name)) # Absent

(* An expression has a type, and leaves an environment within the one it starts from. *)
LEMMA ValueTypes ==
    ASSUME NEW e, Typed(e), NEW x, Evaluable(e, x)
    PROVE  /\ EvaluateValue(e, x).type \in Type
           /\ Within(e, EvaluateValue(e, x).env, NamesIn(x), NamesIn(x))
<1>0. Within(e, e, NamesIn(x), NamesIn(x))
  BY WithinSelf
<1>1. CASE x.kind = "literal"
  BY <1>0, <1>1, ConstantTypes DEF EvaluateValue, Evaluated, Evaluable, IsExpression
<1>2. CASE x.kind = "untyped"
  BY <1>0, <1>2, ConstantTypes DEF EvaluateValue, Evaluated
<1>3. CASE x.kind = "condition"
  <2>1. IsCondition(x.cond) /\ NamesIn(x) = {x.cond.left.name, x.cond.right.name}
    BY <1>3 DEF Evaluable, IsExpression, NamesIn
  <2>2. EvaluateValue(e, x) = Evaluate(e, x.cond)
    BY <1>3 DEF EvaluateValue
  <2> QED BY <2>1, <2>2, EvaluateWithin
<1>4. CASE x.kind = "key"
  <2>1. x.name \in Name /\ x.key \in Key /\ e.shape[x.name] \in Shape
    BY <1>4 DEF Evaluable, IsExpression, Typed, Environment, ShapeOrAbsent
  <2>2. EvaluateValue(e, x) = Evaluated(ValueFor(e.shape[x.name], x.key), e)
    BY <1>4 DEF EvaluateValue
  <2> QED BY <1>0, <2>1, <2>2, ValueForSound DEF Evaluated
<1>5. CASE x.kind = "first"
  <2>1. x.name \in Name /\ ElementOf(Get(e, x.name)) # Absent
    BY <1>5 DEF Evaluable, IsExpression
  <2>2. Get(e, x.name) \in Type
    BY <2>1, ReadTypes DEF Typed
  <2>3. ElementOf(Get(e, x.name)) \in Type
    BY <2>1, <2>2, PartTypes
  <2>4. Join(ElementOf(Get(e, x.name)), NilType) \in Type
    BY <2>3, CombinedTypes, ConstantTypes
  <2>5. \/ EvaluateValue(e, x) = Evaluated(ElementOf(Get(e, x.name)), e)
        \/ EvaluateValue(e, x) = Evaluated(Join(ElementOf(Get(e, x.name)), NilType), e)
    BY <1>5 DEF EvaluateValue
  <2> QED BY <1>0, <2>3, <2>4, <2>5 DEF Evaluated
<1> QED BY <1>1, <1>2, <1>3, <1>4, <1>5 DEF Evaluable, IsExpression

(* The predicate that a write stores, and the shape of a literal. *)
LEMMA AliasTypes ==
    ASSUME NEW e, Typed(e), NEW x, IsExpression(x)
    PROVE  LET alias == AliasOf(e, x)
           IN  alias = Absent \/ /\ alias \in Alias
                                 /\ alias.source \notin Ivar
                                 /\ alias.expected \in Class \union {Absent}
<1> DEFINE a == x.cond.left
           own == e.alias[a.name]
           tested == [ source |-> a.name, negated |-> a.negated,
                       expected |-> IF a.op = "nil?" THEN NilType ELSE a.class ]
           plain == [source |-> a.name, negated |-> a.negated, expected |-> Absent]
           turned == [own EXCEPT !.negated = @ # a.negated]
<1>1. CASE AliasOf(e, x) # Absent
  <2>1. /\ x.kind = "condition" /\ a.name \notin Ivar /\ a.op \in {"nil?", "is_a?", "read"}
        /\ AliasOf(e, x) = IF a.op # "read" THEN tested ELSE IF own = Absent THEN plain ELSE turned
    BY <1>1 DEF AliasOf
  <2>2. /\ a.name \in Name /\ a.negated \in BOOLEAN /\ (a.op = "is_a?" => a.class \in Class)
    BY <2>1 DEF IsExpression, IsCondition, IsAtom, ClassTests
  <2>3. CASE a.op # "read"
    <3>1. (IF a.op = "nil?" THEN NilType ELSE a.class) \in Class
      BY <2>1, <2>2, <2>3, ConstantTypes
    <3> QED BY <2>1, <2>2, <2>3, <3>1, ConstantTypes DEF Alias
  <2>4. CASE a.op = "read" /\ own = Absent
    BY <2>1, <2>2, <2>4 DEF Alias
  <2>5. CASE a.op = "read" /\ own # Absent
    <3>1. own \in Alias /\ own.source \in Name \ Ivar /\ own.expected \in Class \union {Absent}
      BY <2>2, <2>5, AliasParts
    <3> HIDE DEF own
    <3>2. turned \in Alias /\ turned.source = own.source /\ turned.expected = own.expected
      BY <3>1 DEF Alias
    <3> QED BY <2>1, <2>5, <3>1, <3>2
  <2> QED BY <2>3, <2>4, <2>5
<1> QED BY <1>1

(* A literal's shape fits the literal. *)
LEMMA LiteralShapeFits ==
    ASSUME NEW x, IsExpression(x)
    PROVE  /\ LiteralShape(x) \in ShapeOrAbsent
           /\ x.kind = "literal" => ShapeFits(LiteralShape(x), x.value)
<1>1. CASE x.kind # "literal" \/ ~ IsHash(x.value)
  BY <1>1 DEF LiteralShape, ShapeOrAbsent, ShapeFits
<1>2. CASE x.kind = "literal" /\ IsHash(x.value)
  <2> DEFINE v == x.value
             entry(k) == IF v[2][k] = Missing THEN Absent ELSE LiteralType(v[2][k])
  <2>1. v \in Value /\ IsHash(v)
    BY <1>2 DEF IsExpression
  <2>2. \A k \in Key : v[2][k] = Missing \/ v[2][k] \in Value
    BY <2>1, HashParts, ValueAssumption, ScalarsAreValues
  <2>3. \A k \in Key : entry(k) \in Type \union {Absent} /\ (entry(k) = Absent <=> v[2][k] = Missing)
    BY <2>2, ConstantTypes, AbsentAssumption
  <2>4. LiteralShape(x) = [entries |-> [k \in Key |-> entry(k)], unknown |-> Absent]
    BY <1>2 DEF LiteralShape
  <2>5. \A k \in Key : Describes(ValueAt(v, k), IF entry(k) = Absent THEN NilType ELSE entry(k))
    <3> SUFFICES ASSUME NEW k \in Key
                 PROVE  Describes(ValueAt(v, k), IF entry(k) = Absent THEN NilType ELSE entry(k))
      OBVIOUS
    <3>1. CASE v[2][k] = Missing
      <4>1. NilValue \in Value
        BY ValueAssumption, ScalarsAreValues
      <4> QED BY <3>1, <4>1, BasicLaw DEF ValueAt
    <3>2. CASE v[2][k] # Missing
      <4>1. v[2][k] \in Value /\ entry(k) = LiteralType(v[2][k]) /\ entry(k) # Absent
        BY <2>2, <2>3, <3>2
      <4> QED BY <3>2, <4>1, LiteralLaw DEF ValueAt
    <3> QED BY <3>1, <3>2
  <2> HIDE DEF entry, v
  <2>6. LiteralShape(x) \in Shape
    BY <2>3, <2>4 DEF Shape
  <2>7. ShapeFits(LiteralShape(x), v)
    BY <2>1, <2>4, <2>5 DEF ShapeFits
  <2> QED BY <2>6, <2>7 DEF ShapeOrAbsent, v
<1> QED BY <1>1, <1>2

-----------------------------------------------------------------------------
(* Writes.                                                                 *)

(* A write leaves an environment that has the name, and else the refinements it had. *)
LEMMA WriteTypes ==
    ASSUME NEW e, Typed(e), NEW n \in Name, NEW x, IsExpression(x), NEW type \in Type,
           NEW logical \in BOOLEAN
    PROVE  LET f == Write(e, n, x, type, logical)
           IN  /\ Typed(f)
               /\ \A m \in Name : Contains(f, m) <=> m = n \/ Contains(e, m)
<1> DEFINE f == Write(e, n, x, type, logical)
<1>1. CASE n \in Ivar
  <2> DEFINE current == Get(e, n)
             kept == IF Contains(e, n) /\ current = AnyType
                     THEN IF type = NilType THEN current ELSE Without(current, NilType)
                     ELSE type
             t == IF logical THEN Without(kept, NilType) ELSE kept
  <2>1. current \in Type /\ NilType \in Type
    BY ReadTypes, ConstantTypes DEF Typed
  <2> HIDE DEF current
  <2>2. t \in Type
    BY <2>1, CombinedTypes
  <2>3. f = Bind(e, n, t)
    BY <1>1 DEF Write, WriteIvar, current
  <2> HIDE DEF t, f
  <2>4. \A m \in Name : Contains(f, m) <=> m = n \/ Contains(e, m)
    BY <2>2, <2>3, AbsentAssumption DEF Contains, Bind, Typed, Environment
  <2>5. Typed(f)
    BY <2>2, <2>3, BindTyped
  <2> QED BY <2>4, <2>5 DEF f
<1>2. CASE n \notin Ivar
  <2> DEFINE t == IF logical THEN Without(type, NilType) ELSE type
             b == Bind(e, n, t)
             alias == AliasOf(b, x)
             f1 == [b EXCEPT !.alias[n] = alias]
             f2 == [f1 EXCEPT !.openArray = IF IsEmptyArray(x) THEN @ \union {n} ELSE @]
             f3 == SetHashShape(f2, n, LiteralShape(x))
  <2>1. t \in Type
    BY CombinedTypes, ConstantTypes
  <2>2. f = f3
    BY <1>2 DEF Write, WriteLocal, BindPredicateAlias
  <2> HIDE DEF t, f
  <2>3. Typed(b) /\ \A m \in Name : Contains(b, m) <=> m = n \/ Contains(e, m)
    BY <2>1, BindTyped, AbsentAssumption DEF Contains, Bind, Typed, Environment
  <2> HIDE DEF b
  <2>4. alias = Absent \/ /\ alias \in Alias /\ alias.source \notin Ivar
                          /\ alias.expected \in Class \union {Absent}
    BY <2>3, AliasTypes
  <2> HIDE DEF alias
  <2>5. Typed(f1) /\ f1.locals = b.locals
    BY <2>3, <2>4 DEF Typed, Closed, IsOpen, Environment, AliasOrAbsent
  <2> HIDE DEF f1
  <2>6. Typed(f2) /\ f2.locals = b.locals
    BY <2>5 DEF Typed, Closed, IsOpen, Environment
  <2> HIDE DEF f2
  <2>7. Typed(f3)
    BY <2>6, LiteralShapeFits, ShapeWithin DEF Within
  <2>8. f3.locals = b.locals
    BY <2>6 DEF SetHashShape, Typed, Environment
  <2> QED BY <2>2, <2>3, <2>7, <2>8 DEF f, Contains
<1> QED BY <1>1, <1>2

(* Rebinding a name in the environment and in the store. *)
LEMMA RebindFits ==
    ASSUME NEW e, NEW st \in [Name -> Value], NEW g, Fits(e, st, g),
           NEW n \in Name, NEW t \in Type, NEW w \in Value, NEW g2,
           \A m \in g : m = n \/ m \in g2,
           n \in g2 \/ Describes(w, t),
           \A m \in Name : e.alias[m] # Absent => e.alias[m].source # n,
           n \in Ivar => n \notin e.responds
    PROVE  Fits(Bind(e, n, t), [st EXCEPT ![n] = w], g2)
<1> DEFINE f == Bind(e, n, t)
           st2 == [st EXCEPT ![n] = w]
<1>0. Typed(e)
  BY DEF Fits
<1>1. Typed(f)
  BY <1>0, BindTyped
<1>2. \A m \in Name : st2[m] = IF m = n THEN w ELSE st[m]
  OBVIOUS
<1>3. /\ \A m \in Name : m # n => /\ ReadType(f, m) = ReadType(e, m) /\ f.alias[m] = e.alias[m]
                                  /\ f.truthiness[m] = e.truthiness[m] /\ f.shape[m] = e.shape[m]
                                  /\ (m \in f.nonempty => m \in e.nonempty)
                                  /\ (m \in f.responds => m \in e.responds)
                                  /\ (Contains(f, m) <=> Contains(e, m))
      /\ ReadType(f, n) = t /\ f.alias[n] = Absent /\ f.truthiness[n] = Absent
      /\ f.shape[n] = Absent /\ n \notin f.nonempty /\ Contains(f, n)
      /\ n \notin Ivar => n \notin f.responds
      /\ n \in f.responds => n \in e.responds
  BY <1>0, AbsentAssumption
     DEF ReadType, Get, Contains, Bind, WithoutResponds, Typed, Environment
<1> HIDE DEF f, st2
<1>4. Described(f, st2, g2)
  BY <1>2, <1>3 DEF Fits, Described
<1>5. \A m \in Name : FactHolds(f, st2, m)
  <2>1. \A m \in Name : FactHolds(e, st, m)
    BY DEF Fits
  <2> QED BY <1>2, <1>3, <2>1 DEF FactHolds
<1>6. \A m \in Name : AliasHolds(f.alias[m], st2, m)
  <2> SUFFICES ASSUME NEW m \in Name, f.alias[m] # Absent
               PROVE  AliasHolds(f.alias[m], st2, m)
    BY DEF AliasHolds
  <2>1. m # n /\ f.alias[m] = e.alias[m]
    BY <1>3
  <2>2. f.alias[m].source \in Name /\ f.alias[m].source # n
    BY <1>0, <2>1, AliasParts
  <2>3. AliasHolds(e.alias[m], st, m)
    BY DEF Fits
  <2> QED BY <1>2, <2>1, <2>2, <2>3 DEF AliasHolds
<1>7. \A m \in Name : ShapeFits(f.shape[m], st2[m])
  <2>1. \A m \in Name : ShapeFits(e.shape[m], st[m])
    BY DEF Fits
  <2> QED BY <1>2, <1>3, <2>1 DEF ShapeFits
<1>8. UnboundAreNil(f, st2)
  BY <1>2, <1>3 DEF Fits, UnboundAreNil
<1> QED BY <1>1, <1>4, <1>5, <1>6, <1>7, <1>8 DEF Fits, f, st2

(* The predicate that a write stores tells of its source what the value written says. *)
LEMMA PredicateHolds ==
    ASSUME NEW e, NEW st \in [Name -> Value], NEW n \in Name, NEW w \in Value, NEW g,
           Fits(e, [st EXCEPT ![n] = w], g),
           NEW x, IsExpression(x), n \notin NamesIn(x), w \in RunValues(st, x)
    PROVE  AliasHolds(AliasOf(e, x), [st EXCEPT ![n] = w], n)
<1> DEFINE a == x.cond.left
           alias == AliasOf(e, x)
           own == e.alias[a.name]
           st2 == [st EXCEPT ![n] = w]
<1> SUFFICES ASSUME alias # Absent
             PROVE  AliasHolds(alias, st2, n)
  BY DEF AliasHolds
<1>1. /\ x.kind = "condition" /\ x.cond.kind = "atom" /\ a.name \notin Ivar
      /\ a.op \in {"nil?", "is_a?", "read"}
  BY DEF AliasOf
<1>2. IsAtom(a) /\ a.name \in Name /\ a.negated \in BOOLEAN /\ a.name # n
  BY <1>1 DEF IsExpression, IsCondition, IsAtom, NamesIn
<1>3. w \in AtomValues(st, a)
  <2>1. PICK o \in Outcomes(st, x.cond) : w = o.value
    BY <1>1 DEF RunValues
  <2> QED BY <1>1, <2>1, OutcomeParts
<1>4. st2[n] = w /\ st2[a.name] = st[a.name] /\ st[a.name] \in Value
  BY <1>2
<1>5. CASE a.op # "read"
  <2> DEFINE class == IF a.op = "nil?" THEN NilType ELSE a.class
  <2>1. alias = [source |-> a.name, negated |-> a.negated, expected |-> class]
    BY <1>1, <1>5 DEF AliasOf
  <2>2. class \in Type /\ class # Absent
    BY <1>1, <1>2, <1>5, ConstantTypes, AbsentAssumption DEF IsAtom, ClassTests
  <2>3. Passes(st[a.name], a) <=> Describes(st[a.name], class)
    BY <1>1, <1>4, <1>5, BasicLaw DEF Passes, ClassTests
  <2>4. Passes(st[a.name], a) \in BOOLEAN
    <3>1. CASE a.op = "nil?"
      BY <3>1 DEF Passes, ClassTests
    <3>2. CASE a.op = "is_a?"
      <4>1. Describes(st[a.name], a.class) \in BOOLEAN
        BY <1>4, <2>2, <3>2, BasicLaw
      <4> QED BY <3>2, <4>1 DEF Passes, ClassTests
    <3> QED BY <1>1, <1>5, <3>1, <3>2
  <2>5. w = BoolValue(Passes(st[a.name], a) # a.negated)
    BY <1>1, <1>3, <1>5 DEF AtomValues
  <2>6. Truthy(w) <=> (Passes(st[a.name], a) # a.negated)
    BY <2>5, Booleans
  <2> HIDE DEF class
  <2>7. /\ alias.source = a.name /\ alias.negated = a.negated /\ alias.expected = class
    BY <2>1
  <2> HIDE DEF alias, st2
  <2>8. Truthy(w) # a.negated <=> Describes(st[a.name], class)
    BY <1>2, <2>3, <2>4, <2>6 DEF Truthy
  <2> QED BY <1>4, <2>2, <2>7, <2>8 DEF AliasHolds
<1>6. CASE a.op = "read"
  <2>1. w = IF a.negated THEN BoolValue(~ Truthy(st[a.name])) ELSE st[a.name]
    BY <1>3, <1>6 DEF AtomValues
  <2>2. (~ Truthy(st[a.name])) \in BOOLEAN
    BY DEF Truthy
  <2>3. Truthy(w) # a.negated <=> Truthy(st[a.name])
    BY <1>2, <2>1, <2>2, Booleans DEF Truthy
  <2>4. CASE own = Absent
    <3>1. alias = [source |-> a.name, negated |-> a.negated, expected |-> Absent]
      BY <1>1, <1>6, <2>4 DEF AliasOf
    <3>2. alias.source = a.name /\ alias.negated = a.negated /\ alias.expected = Absent
      BY <3>1
    <3> HIDE DEF alias, st2
    <3> QED BY <1>4, <2>3, <3>2 DEF AliasHolds
  <2>5. CASE own # Absent
    <3>1. own \in Alias /\ own.negated \in BOOLEAN
      BY <1>2, <2>5, AliasParts DEF Fits, Alias
    <3>2. alias = [own EXCEPT !.negated = @ # a.negated]
      BY <1>1, <1>6, <2>5 DEF AliasOf
    <3>3. /\ alias.source = own.source /\ alias.expected = own.expected
          /\ alias.negated = (own.negated # a.negated)
      BY <3>1, <3>2 DEF Alias
    <3>4. AliasHolds(own, st2, a.name)
      BY <1>2 DEF Fits
    <3> HIDE DEF alias, st2, own
    <3>5. (Truthy(st[a.name]) # own.negated)
             <=> IF own.expected = Absent THEN Truthy(st2[own.source])
                 ELSE Describes(st2[own.source], own.expected)
      BY <1>4, <2>5, <3>4 DEF AliasHolds
    <3>6. Truthy(w) # alias.negated <=> (Truthy(st[a.name]) # own.negated)
      BY <1>2, <2>3, <3>1, <3>3 DEF Truthy
    <3> QED BY <1>4, <3>3, <3>5, <3>6 DEF AliasHolds
  <2> QED BY <2>4, <2>5
<1> QED BY <1>1, <1>5, <1>6

(* Writing a value in the environment and in the store. *)
LEMMA WriteFits ==
    ASSUME NEW e, NEW st \in [Name -> Value], NEW g, Fits(e, st, g),
           NEW n \in Name, NEW x, IsExpression(x), n \notin NamesIn(x), NEW type \in Type,
           NEW logical \in BOOLEAN, NEW w \in Value, w \in RunValues(st, x), NEW g2,
           \A m \in g : m = n \/ m \in g2,
           n \in g2 \/ Describes(w, type),
           logical => w # NilValue,
           \A m \in Name : e.alias[m] # Absent => e.alias[m].source # n,
           n \in Ivar => n \notin e.responds
    PROVE  Fits(Write(e, n, x, type, logical), [st EXCEPT ![n] = w], g2)
<1> DEFINE f == Write(e, n, x, type, logical)
           st2 == [st EXCEPT ![n] = w]
<1>0. Typed(e) /\ st2 \in [Name -> Value] /\ NilType \in Type /\ NilType \in Class
  BY ConstantTypes DEF Fits
<1>1. ASSUME NEW t \in Type, n \in g2 \/ Describes(w, t)
      PROVE  /\ Without(t, NilType) \in Type
             /\ logical => n \in g2 \/ Describes(w, Without(t, NilType))
  BY <1>0, <1>1, CombinedTypes, ClassLaw, BasicLaw
<1>2. CASE n \in Ivar
  <2> DEFINE current == Get(e, n)
             kept == IF Contains(e, n) /\ current = AnyType
                     THEN IF type = NilType THEN current ELSE Without(current, NilType)
                     ELSE type
             t == IF logical THEN Without(kept, NilType) ELSE kept
  <2>1. kept \in {type, AnyType}
    BY BasicLaw
  <2> HIDE DEF kept
  <2>2. kept \in Type /\ (n \in g2 \/ Describes(w, kept))
    BY <2>1, BasicLaw, ConstantTypes
  <2>3. t \in Type /\ (n \in g2 \/ Describes(w, t))
    BY <1>1, <2>2
  <2>4. f = Bind(e, n, t)
    BY <1>2 DEF Write, WriteIvar, kept
  <2> HIDE DEF t, f, st2
  <2>5. Fits(Bind(e, n, t), st2, g2)
    BY <2>3, RebindFits DEF st2
  <2> QED BY <2>4, <2>5 DEF f, st2
<1>3. CASE n \notin Ivar
  <2> DEFINE t == IF logical THEN Without(type, NilType) ELSE type
             b == Bind(e, n, t)
             alias == AliasOf(b, x)
             f1 == [b EXCEPT !.alias[n] = alias]
             f2 == [f1 EXCEPT !.openArray = IF IsEmptyArray(x) THEN @ \union {n} ELSE @]
             f3 == SetHashShape(f2, n, LiteralShape(x))
  <2>1. t \in Type /\ (n \in g2 \/ Describes(w, t))
    BY <1>1
  <2>2. f = f3
    BY <1>3 DEF Write, WriteLocal, BindPredicateAlias
  <2> HIDE DEF t, f
  <2>3. Fits(b, st2, g2)
    BY <2>1, RebindFits
  <2> HIDE DEF b
  <2>4. AliasHolds(alias, st2, n)
    BY <2>3, PredicateHolds
  <2>5. alias = Absent \/ /\ alias \in Alias /\ alias.source \notin Ivar
                          /\ alias.expected \in Class \union {Absent}
    BY <2>3, AliasTypes DEF Fits
  <2> HIDE DEF alias, st2
  <2>6. Fits(f1, st2, g2)
    <3>1. Typed(f1)
      BY <2>3, <2>5 DEF Fits, Typed, Closed, IsOpen, Environment, AliasOrAbsent
    <3>2. /\ f1.locals = b.locals /\ f1.truthiness = b.truthiness /\ f1.nonempty = b.nonempty
          /\ f1.shape = b.shape /\ f1.responds = b.responds
          /\ f1.alias = [b.alias EXCEPT ![n] = alias]
      BY <2>3 DEF Fits, Typed, Environment
    <3> HIDE DEF f1
    <3>3. \A m \in Name : AliasHolds(f1.alias[m], st2, m)
      BY <2>3, <2>4, <3>2 DEF Fits, Typed, Environment
    <3> QED BY <2>3, <3>1, <3>2, <3>3
         DEF Fits, FactHolds, Described, UnboundAreNil, ReadType, Get, Contains
  <2> HIDE DEF f1
  <2>7. Fits(f2, st2, g2)
    <3>1. Typed(f2)
      BY <2>6 DEF Fits, Typed, Closed, IsOpen, Environment
    <3>2. /\ f2.locals = f1.locals /\ f2.truthiness = f1.truthiness /\ f2.nonempty = f1.nonempty
          /\ f2.shape = f1.shape /\ f2.responds = f1.responds /\ f2.alias = f1.alias
      BY <2>6 DEF Fits, Typed, Environment
    <3> HIDE DEF f2
    <3> QED BY <2>6, <3>1, <3>2
         DEF Fits, FactHolds, Described, UnboundAreNil, ReadType, Get, Contains
  <2> HIDE DEF f2
  <2>8. ShapeFits(LiteralShape(x), w) /\ LiteralShape(x) \in ShapeOrAbsent
    <3>1. x.kind = "literal" => w = x.value
      BY DEF RunValues
    <3>2. x.kind # "literal" => LiteralShape(x) = Absent
      BY DEF LiteralShape
    <3> QED BY <3>1, <3>2, LiteralShapeFits DEF ShapeFits
  <2>9. Fits(f3, st2, g2)
    <3>1. st2[n] = w
      BY DEF st2
    <3> QED BY <1>0, <2>7, <2>8, <3>1, ShapeSetFits
  <2> QED BY <2>2, <2>9 DEF f, st2
<1> QED BY <1>2, <1>3

(* The right side of an assignment leaves a right environment and, unless it reads a sample,    *)
(* a type that describes its value.                                                             *)
LEMMA ValueFits ==
    ASSUME NEW e, NEW st \in [Name -> Value], NEW g, Fits(e, st, g), NEW x, Evaluable(e, x),
           x.kind = "condition" => /\ x.cond.kind = "atom" \/ Refined(e, x.cond)
                                   /\ x.cond.kind # "atom" => /\ Trusted(e, g, x.cond)
                                                              /\ x.cond.left.op = "read",
           x.kind = "first" => IsArray(st[x.name]),
           NEW w \in RunValues(st, x)
    PROVE  /\ w \in Value
           /\ Fits(EvaluateValue(e, x).env, st, g)
           /\ NamesIn(x) \intersect g # {} \/ Describes(w, EvaluateValue(e, x).type)
<1>0. Typed(e)
  BY DEF Fits
<1>1. CASE x.kind = "literal"
  BY <1>1, LiteralLaw DEF EvaluateValue, Evaluated, RunValues, Evaluable, IsExpression
<1>2. CASE x.kind = "untyped"
  BY <1>2, BasicLaw, ScalarsAreValues DEF EvaluateValue, Evaluated, RunValues
<1>3. CASE x.kind = "condition"
  <2> DEFINE c == x.cond
  <2>1. IsCondition(c) /\ IsAtom(c.left) /\ IsAtom(c.right) /\ NamesIn(x) = {c.left.name, c.right.name}
    BY <1>3 DEF Evaluable, IsExpression, IsCondition, NamesIn
  <2>2. EvaluateValue(e, x) = Evaluate(e, c)
    BY <1>3 DEF EvaluateValue
  <2>3. PICK o \in Outcomes(st, c) : w = o.value
    BY <1>3 DEF RunValues
  <2>4. w \in Value
    BY <2>1, <2>3, OutcomeParts, AtomsAreValues
  <2>5. LeftAlive(c, EvaluateAtom(e, c.left), o)
    <3>1. CASE c.kind = "atom"
      BY <3>1 DEF LeftAlive
    <3>2. CASE c.kind # "atom"
      BY <1>3, <2>1, <3>2, LeftWay
    <3> QED BY <3>1, <3>2
  <2>6. Fits(Evaluate(e, c).env, st, g)
    BY <1>3, <2>1, <2>5, EvaluateFits
  <2>7. NamesIn(x) \intersect g # {} \/ Describes(w, Evaluate(e, c).type)
    BY <1>3, <2>1, <2>3, <2>5, EvaluateDescribes
  <2> QED BY <2>2, <2>4, <2>6, <2>7
<1>4. CASE x.kind = "key"
  <2>1. /\ x.name \in Name /\ x.key \in Key /\ e.shape[x.name] \in Shape /\ e.shape[x.name] # Absent
        /\ ShapeFits(e.shape[x.name], st[x.name]) /\ st[x.name] \in Value
    BY <1>0, <1>4 DEF Evaluable, IsExpression, Typed, Environment, ShapeOrAbsent, Fits
  <2>2. w = ValueAt(st[x.name], x.key) /\ IsHash(st[x.name])
    BY <1>4, <2>1 DEF RunValues, ShapeFits
  <2>3. EvaluateValue(e, x) = Evaluated(ValueFor(e.shape[x.name], x.key), e)
    BY <1>4 DEF EvaluateValue
  <2>4. w \in Value /\ Describes(w, ValueFor(e.shape[x.name], x.key))
    BY <2>1, <2>2, ValuesAt, ValueForSound
  <2> QED BY <2>3, <2>4 DEF Evaluated
<1>5. CASE x.kind = "first"
  <2> DEFINE n == x.name
             element == ElementOf(Get(e, n))
             v == st[n]
  <2>1. n \in Name /\ element # Absent /\ IsArray(v) /\ v \in Value /\ Get(e, n) \in Type
    BY <1>0, <1>5, ReadTypes DEF Evaluable, IsExpression, Typed
  <2>2. element \in Type /\ Join(element, NilType) \in Type /\ NilType \in Type
    BY <2>1, PartTypes, CombinedTypes, ConstantTypes
  <2>3. \/ w = NilValue /\ v[2] = {}
        \/ w \in v[2]
    BY <1>5 DEF RunValues
  <2>4. w \in Value
    BY <2>1, <2>3, ArrayParts, ValueAssumption, ScalarsAreValues
  <2>5. n \notin g => \A y \in v[2] : Describes(y, element)
    <3> SUFFICES ASSUME n \notin g
                 PROVE  \A y \in v[2] : Describes(y, element)
      OBVIOUS
    <3>1. Get(e, n) # AnyType
      <4>1. NilValue \in Value /\ ~ IsArray(NilValue)
        BY ValueAssumption, ScalarsAreValues
      <4> QED BY <2>1, <4>1, BasicLaw, ArrayLaw
    <3>2. ReadType(e, n) = Get(e, n)
      BY <3>1 DEF ReadType, Get
    <3>3. Describes(v, Get(e, n))
      BY <2>1, <3>2 DEF Fits, Described
    <3> QED BY <2>1, <3>3, ArrayLaw
  <2>6. n \in e.nonempty => v[2] # {}
    <3>1. FactHolds(e, st, n) /\ ~ IsHash(v)
      BY <2>1, ArrayParts DEF Fits
    <3> QED BY <3>1 DEF FactHolds, Holds
  <2>7. EvaluateValue(e, x) = Evaluated(IF n \in e.nonempty THEN element ELSE Join(element, NilType), e)
    BY <1>5 DEF EvaluateValue
  <2>8. NamesIn(x) = {n}
    BY <1>5 DEF NamesIn
  <2> HIDE DEF n, element, v
  <2>9. n \notin g => Describes(w, IF n \in e.nonempty THEN element ELSE Join(element, NilType))
    BY <2>2, <2>3, <2>4, <2>5, <2>6, BasicLaw, JoinLaw
  <2> QED BY <2>4, <2>7, <2>8, <2>9 DEF Evaluated
<1> QED BY <1>1, <1>2, <1>3, <1>4, <1>5 DEF Evaluable, IsExpression

-----------------------------------------------------------------------------
(* Containers that change in place.                                        *)

(* A container that changes in place keeps its class: only its type and its shape need to fit it. *)
LEMMA ContainerFits ==
    ASSUME NEW e, NEW st \in [Name -> Value], NEW g, Fits(e, st, g),
           NEW n \in Name \ Ivar, NEW w \in Value, Holds(w),
           \/ IsArray(st[n]) /\ IsArray(w)
           \/ IsHash(st[n]) /\ IsHash(w),
           NEW f, Typed(f), NEW t \in Type, NEW shape \in ShapeOrAbsent,
           f.locals = [e.locals EXCEPT ![n] = t], f.shape = [e.shape EXCEPT ![n] = shape],
           f.nonempty = e.nonempty, f.responds = e.responds, f.alias = e.alias,
           f.truthiness = e.truthiness,
           n \in g \/ Describes(w, t), ShapeFits(shape, w)
    PROVE  Fits(f, [st EXCEPT ![n] = w], g)
<1> DEFINE v == st[n]
           st2 == [st EXCEPT ![n] = w]
<1>0. Typed(e) /\ v \in Value
  BY DEF Fits
<1>1. \A m \in Name : st2[m] = IF m = n THEN w ELSE st[m]
  OBVIOUS
<1>2. /\ Truthy(w) /\ Truthy(v) /\ v # NilValue /\ ~ Responds(v)
      /\ \A class \in Class : Describes(v, class) <=> Describes(w, class)
  BY <1>0, Containers, ContainerLaw
<1> HIDE DEF v, st2
<1>3. Described(f, st2, g)
  <2> SUFFICES ASSUME NEW m \in Name \ g
               PROVE  Describes(st2[m], ReadType(f, m))
    BY DEF Described
  <2>1. CASE m = n
    <3>1. f.locals[n] = t /\ t # Absent
      BY <1>0, AbsentAssumption DEF Typed, Environment
    <3> QED BY <1>1, <2>1, <3>1 DEF ReadType, Get, Contains
  <2>2. CASE m # n
    <3>1. ReadType(f, m) = ReadType(e, m)
      BY <1>0, <2>2 DEF ReadType, Get, Contains, Typed, Environment
    <3> QED BY <1>1, <2>2, <3>1 DEF Fits, Described
  <2> QED BY <2>1, <2>2
<1>4. \A m \in Name : FactHolds(f, st2, m)
  <2> SUFFICES ASSUME NEW m \in Name
               PROVE  FactHolds(f, st2, m)
    OBVIOUS
  <2>1. FactHolds(e, st, m)
    BY DEF Fits
  <2>2. m = n => /\ e.truthiness[n] # Absent => Truthy(v) = e.truthiness[n]
                 /\ n \notin e.responds
    BY <1>2, <2>1 DEF FactHolds, v
  <2>3. Truthy(w) = Truthy(v)
    BY <1>2 DEF Truthy
  <2>4. CASE m = n
    BY <1>1, <2>2, <2>3, <2>4 DEF FactHolds
  <2>5. CASE m # n
    BY <1>1, <2>1, <2>5 DEF FactHolds
  <2> QED BY <2>4, <2>5
<1>5. \A m \in Name : AliasHolds(f.alias[m], st2, m)
  <2> SUFFICES ASSUME NEW m \in Name, e.alias[m] # Absent
               PROVE  AliasHolds(e.alias[m], st2, m)
    BY DEF AliasHolds
  <2> DEFINE source == e.alias[m].source
             expected == e.alias[m].expected
  <2>1. AliasHolds(e.alias[m], st, m) /\ source \in Name /\ expected \in Class \union {Absent}
    BY <1>0, AliasParts DEF Fits
  <2>2. Truthy(st2[m]) = Truthy(st[m]) /\ (Truthy(st2[source]) <=> Truthy(st[source]))
    BY <1>1, <1>2, <2>1 DEF Truthy, v
  <2>3. expected # Absent => (Describes(st2[source], expected) <=> Describes(st[source], expected))
    BY <1>1, <1>2, <2>1 DEF v
  <2> QED BY <2>1, <2>2, <2>3 DEF AliasHolds
<1>6. \A m \in Name : ShapeFits(f.shape[m], st2[m])
  <2>1. \A m \in Name : ShapeFits(e.shape[m], st[m])
    BY DEF Fits
  <2> QED BY <1>0, <1>1, <2>1 DEF Typed, Environment
<1>7. UnboundAreNil(f, st2)
  <2>1. \A m \in Name \ Ivar : Contains(e, m) \/ st[m] = NilValue
    BY DEF Fits, UnboundAreNil
  <2>2. \A m \in Name : Contains(f, m) <=> m = n \/ Contains(e, m)
    BY <1>0, AbsentAssumption DEF Contains, Typed, Environment
  <2> QED BY <1>1, <2>1, <2>2 DEF UnboundAreNil
<1> QED BY <1>3, <1>4, <1>5, <1>6, <1>7 DEF Fits, st2

(* An append, and a write to a key: their types first. *)
LEMMA PushTypes ==
    ASSUME NEW e, Typed(e), NEW n \in Name \ Ivar, NEW v \in Element
    PROVE  /\ Typed(WidenOpenArray(e, n, LiteralType(v)))
           /\ \A m \in Ivar : Contains(WidenOpenArray(e, n, LiteralType(v)), m) <=> Contains(e, m)
<1> DEFINE element == ElementOf(Get(e, n))
           before == IF element = AnyType THEN NeverType ELSE element
           t == ArrayOf(Join(before, LiteralType(v)))
<1>1. Get(e, n) \in Type /\ LiteralType(v) \in Type
  BY ReadTypes, ConstantTypes, ValueAssumption, ScalarsAreValues DEF Typed
<1>2. element # Absent => element \in Type
  BY <1>1, PartTypes
<1> HIDE DEF element
<1>3. element # Absent => t \in Type
  BY <1>1, <1>2, CombinedTypes, PartTypes, ConstantTypes
<1>4. \/ WidenOpenArray(e, n, LiteralType(v)) = e
      \/ element # Absent /\ WidenOpenArray(e, n, LiteralType(v)) = Retype(e, n, t)
  BY DEF WidenOpenArray, element
<1> HIDE DEF t
<1>5. element # Absent => Within(e, Retype(e, n, t), {}, {})
  BY <1>3, RetypeWithin
<1> QED BY <1>4, <1>5 DEF Within

(* An append keeps the environment right about the longer array. *)
LEMMA PushFits ==
    ASSUME NEW e, NEW st \in [Name -> Value], NEW g, Fits(e, st, g),
           NEW n \in Name \ Ivar, NEW v \in Element, IsArray(st[n]), ElementOf(Get(e, n)) # Absent,
           n \in e.openArray \/ IsAssignable(LiteralType(v), ElementOf(Get(e, n))),
           ElementOf(Get(e, n)) = AnyType => st[n][2] = {}
    PROVE  Fits(WidenOpenArray(e, n, LiteralType(v)),
                [st EXCEPT ![n] = ArrayValue(st[n][2] \union {v})], g)
<1> DEFINE old == st[n]
           w == ArrayValue(old[2] \union {v})
           element == ElementOf(Get(e, n))
           before == IF element = AnyType THEN NeverType ELSE element
           lt == LiteralType(v)
           f == WidenOpenArray(e, n, lt)
<1>0. Typed(e) /\ old \in Value /\ IsArray(old) /\ v \in Value
  BY ValueAssumption, ScalarsAreValues DEF Fits
<1>1. /\ old[2] \subseteq Element /\ ~ IsHash(old)
      /\ w \in Value /\ IsArray(w) /\ w[2] = old[2] \union {v} /\ Holds(w)
  BY <1>0, ArrayParts DEF ArrayValue, IsArray, Value, Holds
<1>2. Contains(e, n) /\ Get(e, n) = e.locals[n] /\ Get(e, n) \in Type
  <2>1. old # NilValue
    BY <1>0, Containers
  <2>2. Contains(e, n)
    BY <2>1 DEF Fits, UnboundAreNil
  <2> QED BY <1>0, <2>2, ReadTypes DEF Get, Typed
<1>3. e.shape[n] = Absent /\ e.shape = [e.shape EXCEPT ![n] = Absent]
  <2>1. ShapeFits(e.shape[n], old)
    BY DEF Fits
  <2> QED BY <1>0, <1>1, <2>1 DEF ShapeFits, Typed, Environment
<1>4. element \in Type /\ lt \in Type
  BY <1>0, <1>2, PartTypes, ConstantTypes
<1>5. Typed(f)
  BY <1>0, PushTypes
<1>6. n \notin g => \A y \in old[2] : y \in Value /\ Describes(y, element)
  <2>1. n \notin g => Describes(old, Get(e, n))
    BY <1>2 DEF Fits, Described, ReadType
  <2>2. \A y \in old[2] : y \in Value
    BY <1>1, ValueAssumption, ScalarsAreValues
  <2> QED BY <1>0, <1>2, <2>1, <2>2, ArrayLaw
<1>7. PICK t \in Type : /\ f.locals = [e.locals EXCEPT ![n] = t]
                        /\ f.shape = e.shape /\ f.nonempty = e.nonempty
                        /\ f.responds = e.responds /\ f.alias = e.alias
                        /\ f.truthiness = e.truthiness
                        /\ n \in g \/ Describes(w, t)
  <2>1. CASE n \in e.openArray
    <3> DEFINE joined == Join(before, lt)
    <3>1. before \in Type /\ joined \in Type
      BY <1>4, CombinedTypes, ConstantTypes
    <3>2. f = Retype(e, n, ArrayOf(joined))
      BY <1>2, <2>1 DEF WidenOpenArray
    <3>3. n \notin g => \A y \in w[2] : Describes(y, joined)
      <4> SUFFICES ASSUME n \notin g, NEW y \in w[2]
                   PROVE  Describes(y, joined)
        OBVIOUS
      <4>1. CASE y = v
        BY <1>0, <1>4, <3>1, <4>1, LiteralLaw, JoinLaw
      <4>2. CASE y \in old[2]
        <5>1. y \in Value /\ Describes(y, before)
          BY <1>6, <4>2
        <5> QED BY <1>4, <3>1, <5>1, JoinLaw
      <4> QED BY <1>1, <4>1, <4>2
    <3> HIDE DEF joined, w
    <3>4. n \in g \/ Describes(w, ArrayOf(joined))
      BY <1>1, <3>1, <3>3, ArrayLaw
    <3>5. ArrayOf(joined) \in Type
      BY <3>1, PartTypes
    <3> HIDE DEF f
    <3>6. /\ f.locals = [e.locals EXCEPT ![n] = ArrayOf(joined)]
          /\ f.shape = e.shape /\ f.nonempty = e.nonempty
          /\ f.responds = e.responds /\ f.alias = e.alias /\ f.truthiness = e.truthiness
      BY <1>0, <3>2 DEF Retype, Typed, Environment
    <3> QED BY <3>4, <3>5, <3>6
  <2>2. CASE n \notin e.openArray
    <3>1. f = e
      BY <2>2 DEF WidenOpenArray
    <3>2. Describes(v, element)
      BY <1>4, <2>2, LiteralLaw
    <3>3. n \notin g => \A y \in w[2] : Describes(y, element)
      BY <1>1, <1>6, <3>2
    <3> HIDE DEF w
    <3>4. n \in g \/ Describes(w, Get(e, n))
      BY <1>1, <1>2, <3>3, ArrayLaw
    <3>5. e.locals = [e.locals EXCEPT ![n] = Get(e, n)]
      BY <1>0, <1>2 DEF Typed, Environment
    <3> QED BY <1>2, <3>1, <3>4, <3>5
  <2> QED BY <2>1, <2>2
<1> HIDE DEF w, f
<1>8. ShapeFits(Absent, w) /\ Absent \in ShapeOrAbsent /\ f.shape = [e.shape EXCEPT ![n] = Absent]
  BY <1>3, <1>7 DEF ShapeFits, ShapeOrAbsent
<1>9. /\ f.locals = [e.locals EXCEPT ![n] = t] /\ f.shape = [e.shape EXCEPT ![n] = Absent]
      /\ f.nonempty = e.nonempty /\ f.responds = e.responds /\ f.alias = e.alias
      /\ f.truthiness = e.truthiness /\ (n \in g \/ Describes(w, t))
  BY <1>7, <1>8
<1> HIDE DEF element, before, lt
<1>10. Fits(f, [st EXCEPT ![n] = w], g)
  <2>1. ShapeFits(Absent, w) /\ Absent \in ShapeOrAbsent
    BY <1>8
  <2>2. IsArray(st[n]) /\ IsArray(w) /\ w \in Value /\ Holds(w)
    BY <1>0, <1>1
  <2> HIDE DEF old
  <2> QED BY <1>5, <1>9, <2>1, <2>2, ContainerFits
<1> QED BY <1>10 DEF f, w, lt

(* A write to a key leaves an environment with the refinements it had. *)
LEMMA KeyTypes ==
    ASSUME NEW e, Typed(e), NEW n \in Name \ Ivar, NEW k \in Key, NEW v \in Element,
           HashValueOf(Get(e, n)) # Absent
    PROVE  /\ Typed(WriteKey(e, n, k, LiteralType(v)))
           /\ \A m \in Ivar : Contains(WriteKey(e, n, k, LiteralType(v)), m) <=> Contains(e, m)
<1> DEFINE t == LiteralType(v)
           shape == e.shape[n]
           value == HashValueOf(Get(e, n))
           wide == HashOf(SymbolType, IF value = AnyType THEN t ELSE Join(value, t))
           written == IF shape = Absent THEN e ELSE SetHashShape(e, n, WriteEntry(shape, k, t))
<1>1. Get(e, n) \in Type /\ t \in Type
  BY ReadTypes, ConstantTypes, ValueAssumption, ScalarsAreValues DEF Typed
<1>2. value \in Type
  BY <1>1, PartTypes
<1> HIDE DEF value, t
<1>3. wide \in Type
  BY <1>1, <1>2, CombinedTypes, PartTypes
<1> HIDE DEF wide
<1>4. shape # Absent => WriteEntry(shape, k, t) \in ShapeOrAbsent
  BY <1>1 DEF Typed, Environment, ShapeOrAbsent, Shape, WriteEntry
<1>5. Within(e, written, {}, {}) /\ Typed(written)
  <2>1. Within(e, written, {}, {})
    <3>1. CASE shape = Absent
      BY <3>1, WithinSelf
    <3>2. CASE shape # Absent
      BY <1>4, <3>2, ShapeWithin
    <3> QED BY <3>1, <3>2
  <2> QED BY <2>1 DEF Within
<1> HIDE DEF written
<1>6. Within(written, Retype(written, n, wide), {}, {})
  BY <1>3, <1>5, RetypeWithin
<1>7. WriteKey(e, n, k, t) \in {written, Retype(written, n, wide)}
  BY DEF WriteKey, written, wide, value
<1> QED BY <1>5, <1>6, <1>7 DEF Within, t

(* A write to a key keeps the environment right about the hash it leaves. *)
LEMMA KeyFits ==
    ASSUME NEW e, NEW st \in [Name -> Value], NEW g, Fits(e, st, g),
           NEW n \in Name \ Ivar, NEW k \in Key, NEW v \in Element,
           IsHash(st[n]), HashValueOf(Get(e, n)) # Absent,
           e.shape[n] # Absent /\ e.shape[n].entries[k] # Absent =>
               IsAssignable(LiteralType(v), HashValueOf(Get(e, n))),
           HashValueOf(Get(e, n)) = AnyType => \A j \in Key : st[n][2][j] = Missing
    PROVE  Fits(WriteKey(e, n, k, LiteralType(v)),
                [st EXCEPT ![n] = HashValue([st[n][2] EXCEPT ![k] = v])], g)
<1> DEFINE old == st[n]
           w == HashValue([old[2] EXCEPT ![k] = v])
           type == Get(e, n)
           value == HashValueOf(type)
           lt == LiteralType(v)
           shape == e.shape[n]
           known == shape # Absent /\ shape.entries[k] # Absent
           part == IF value = AnyType THEN lt ELSE Join(value, lt)
           wide == HashOf(SymbolType, part)
           written == IF shape = Absent THEN e ELSE SetHashShape(e, n, WriteEntry(shape, k, lt))
           f == WriteKey(e, n, k, lt)
           after == IF shape = Absent THEN Absent ELSE WriteEntry(shape, k, lt)
<1>0. Typed(e) /\ old \in Value /\ v \in Value /\ v # Missing
  BY ValueAssumption, ScalarsAreValues DEF Fits
<1>1. /\ old[2] \in [Key -> Element \union {Missing}] /\ ~ IsArray(old)
      /\ w \in Value /\ IsHash(w) /\ w[2] = [old[2] EXCEPT ![k] = v]
  BY <1>0, HashParts DEF HashValue, IsHash, Value
<1>2. /\ w[2][k] = v /\ \A j \in Key : j # k => w[2][j] = old[2][j]
      /\ Holds(w)
  BY <1>0, <1>1 DEF Holds
<1>3. Contains(e, n) /\ type = e.locals[n] /\ type \in Type
  <2>1. old # NilValue
    BY <1>0, Containers
  <2>2. Contains(e, n)
    BY <2>1 DEF Fits, UnboundAreNil
  <2> QED BY <1>0, <2>2, ReadTypes DEF Get, Typed
<1>4. value \in Type /\ lt \in Type /\ Describes(v, lt) /\ lt # Absent
  BY <1>0, <1>3, PartTypes, ConstantTypes, LiteralLaw, AbsentAssumption
<1>5. Typed(f)
  BY <1>0, KeyTypes
<1>6. n \notin g => \A j \in Key : old[2][j] = Missing \/ Describes(old[2][j], value)
  <2>1. n \notin g => Describes(old, type)
    BY <1>3 DEF Fits, Described, ReadType
  <2> QED BY <1>0, <1>3, <2>1, HashLaw
<1>7. \A j \in Key : old[2][j] = Missing \/ old[2][j] \in Value
  BY <1>1, ValueAssumption, ScalarsAreValues
<1> HIDE DEF w, lt
<1>8. after \in ShapeOrAbsent /\ ShapeFits(after, w)
  <2>1. CASE shape = Absent
    BY <2>1 DEF ShapeFits, ShapeOrAbsent
  <2>2. CASE shape # Absent
    <3>1. shape \in Shape /\ ShapeFits(shape, old)
      BY <1>0, <2>2 DEF Typed, Environment, ShapeOrAbsent, Fits
    <3> HIDE DEF shape
    <3>2. /\ after.entries = [shape.entries EXCEPT ![k] = lt] /\ after.unknown = shape.unknown
          /\ after \in Shape
      BY <1>4, <2>2, <3>1 DEF WriteEntry, Shape
    <3> HIDE DEF after
    <3>3. ASSUME NEW j \in Key
          PROVE  \/ Describes(ValueAt(w, j), IF after.entries[j] = Absent THEN NilType
                                             ELSE after.entries[j])
                 \/ after.unknown # Absent /\ Describes(ValueAt(w, j), after.unknown)
      <4>1. CASE j = k
        <5>1. ValueAt(w, k) = v /\ after.entries[k] = lt
          BY <1>0, <1>2, <3>1, <3>2 DEF ValueAt, Shape
        <5> QED BY <1>4, <4>1, <5>1
      <4>2. CASE j # k
        <5>1. ValueAt(w, j) = ValueAt(old, j) /\ after.entries[j] = shape.entries[j]
          BY <1>2, <3>1, <3>2, <4>2 DEF ValueAt, Shape
        <5> QED BY <2>2, <3>1, <3>2, <5>1 DEF ShapeFits
      <4> QED BY <4>1, <4>2
    <3> QED BY <1>1, <3>2, <3>3 DEF ShapeFits, ShapeOrAbsent
  <2> QED BY <2>1, <2>2
<1>9. /\ written.locals = e.locals /\ written.shape = [e.shape EXCEPT ![n] = after]
      /\ written.nonempty = e.nonempty /\ written.responds = e.responds
      /\ written.alias = e.alias /\ written.truthiness = e.truthiness
      /\ written \in Environment
  <2>1. written \in Environment
    BY <1>0, <1>8, ShapeWithin DEF Within, Typed
  <2> QED BY <1>0, <2>1 DEF SetHashShape, Typed, Environment
<1>10. f = IF known THEN written ELSE Retype(written, n, wide)
  BY DEF WriteKey
<1> HIDE DEF written, f, after
<1>11. PICK t \in Type : /\ f.locals = [e.locals EXCEPT ![n] = t]
                         /\ n \in g \/ Describes(w, t)
                         /\ f.shape = [e.shape EXCEPT ![n] = after]
                         /\ f.nonempty = e.nonempty /\ f.responds = e.responds
                         /\ f.alias = e.alias /\ f.truthiness = e.truthiness
  <2>1. CASE known
    <3>1. Describes(v, value)
      BY <1>4, <2>1, LiteralLaw DEF lt
    <3>2. n \notin g => \A j \in Key : w[2][j] = Missing \/ Describes(w[2][j], value)
      BY <1>2, <1>6, <3>1
    <3>3. n \in g \/ Describes(w, type)
      BY <1>1, <1>3, <3>2, HashLaw
    <3>4. e.locals = [e.locals EXCEPT ![n] = type]
      BY <1>0, <1>3 DEF Typed, Environment
    <3> QED BY <1>3, <1>9, <1>10, <2>1, <3>3, <3>4
  <2>2. CASE ~ known
    <3>1. part \in Type /\ wide \in Type
      BY <1>4, CombinedTypes, PartTypes
    <3>2. n \notin g => \A j \in Key : w[2][j] = Missing \/ Describes(w[2][j], part)
      <4> SUFFICES ASSUME n \notin g, NEW j \in Key, w[2][j] # Missing
                   PROVE  Describes(w[2][j], part)
        OBVIOUS
      <4>1. CASE j = k
        BY <1>0, <1>2, <1>4, <4>1, JoinLaw
      <4>2. CASE j # k
        <5>1. w[2][j] = old[2][j] /\ old[2][j] # Missing /\ value # AnyType
          BY <1>2, <4>2
        <5>2. Describes(w[2][j], value) /\ w[2][j] \in Value
          BY <1>6, <1>7, <5>1
        <5> QED BY <1>4, <5>1, <5>2, JoinLaw
      <4> QED BY <4>1, <4>2
    <3> HIDE DEF part
    <3>3. n \in g \/ Describes(w, wide)
      BY <1>1, <3>1, <3>2, HashLaw
    <3> HIDE DEF wide
    <3>4. f = Retype(written, n, wide)
      BY <1>10, <2>2
    <3>5. /\ f.locals = [written.locals EXCEPT ![n] = wide] /\ f.shape = written.shape
          /\ f.nonempty = written.nonempty /\ f.responds = written.responds
          /\ f.alias = written.alias /\ f.truthiness = written.truthiness
      BY <1>9, <3>4 DEF Retype, Environment
    <3> QED BY <1>9, <3>1, <3>3, <3>5
  <2> QED BY <2>1, <2>2
<1>12. Fits(f, [st EXCEPT ![n] = w], g)
  BY <1>0, <1>1, <1>2, <1>5, <1>8, <1>11, ContainerFits
<1> QED BY <1>12 DEF f, w, lt

-----------------------------------------------------------------------------
(* ||= and &&=, whose write is a branch of their own.                      *)

(* The read of the name that decides is a condition. *)
LEMMA ReadCondition ==
    ASSUME NEW n \in Name
    PROVE  /\ IsCondition(ReadOf(n)) /\ IsAtom(ReadOf(n).left)
           /\ ReadOf(n).left.op = "read" /\ ReadOf(n).left.name = n /\ ReadOf(n).right.name = n
           /\ ~ ReadOf(n).left.negated
BY DEF IsCondition, IsAtom, ReadOf, Operations, ClassTests, NilTests

(* Either arm refines the name if it can be refined, and nothing else. *)
LEMMA ArmTypes ==
    ASSUME NEW e, Typed(e), NEW s, s.name \in Name, NEW b \in BOOLEAN
    PROVE  /\ Within(e, LogicalArm(e, s, b), {s.name}, {})
           /\ s.name \in Ivar => Contains(LogicalArm(e, s, b), s.name)
<1> DEFINE n == s.name
           c == ReadOf(n)
           t == ReadType(e, n)
           part == OperandPart(e, c.left, t, b)
           bound == BindTested(e, n, part)
<1>1. /\ IsCondition(c) /\ IsAtom(c.left) /\ c.left.op = "read" /\ c.left.name = n /\ c.right.name = n
      /\ ~ c.left.negated
  BY ReadCondition
<1>2. t \in Type
  BY ReadTypes DEF Typed
<1>3. LogicalArm(e, s, b) = NarrowOperand(e, c, t, b)
  BY DEF LogicalArm
<1> HIDE DEF c, t
<1>4. Within(e, LogicalArm(e, s, b), {s.name}, {})
  BY <1>1, <1>2, <1>3, OperandWithin
<1>5. part \in Type
  BY <1>2, Parts, ConstantTypes DEF OperandPart
<1>6. LogicalArm(e, s, b) = NarrowAtom(bound, c.left, b)
  BY <1>1, <1>3 DEF NarrowOperand
<1> HIDE DEF part
<1>7. Typed(bound) /\ Contains(bound, n)
  <2>1. Within(e, bound, {n}, {})
    BY <1>5, TestedWithin
  <2>2. bound.locals = [e.locals EXCEPT ![n] = part]
    BY DEF BindTested, SetHashShape, Bind
  <2>3. bound.locals[n] # Absent
    BY <1>5, <2>2, AbsentAssumption DEF Typed, Environment
  <2> QED BY <2>1, <2>3 DEF Within, Contains
<1> HIDE DEF bound
<1>8. Within(bound, NarrowAtom(bound, c.left, b), {n}, {})
  BY <1>1, <1>7, AtomWithin
<1>9. n \in Ivar => Contains(LogicalArm(e, s, b), n)
  BY <1>6, <1>7, <1>8 DEF Within
<1> QED BY <1>4, <1>9

(* The arm that the value of the name takes is right about the store. *)
LEMMA ArmFits ==
    ASSUME NEW e, NEW st \in [Name -> Value], NEW g, Fits(e, st, g), NEW s, s.name \in Name,
           NEW b \in BOOLEAN, Truthy(st[s.name]) <=> b
    PROVE  Fits(LogicalArm(e, s, b), st, g)
<1> DEFINE n == s.name
           c == ReadOf(n)
           t == ReadType(e, n)
<1>1. /\ IsAtom(c.left) /\ c.left.op = "read" /\ c.left.name = n /\ ~ c.left.negated
  BY ReadCondition
<1>2. t \in Type
  BY ReadTypes DEF Typed, Fits
<1>3. st[n] \in AtomValues(st, c.left)
  BY <1>1 DEF AtomValues
<1>4. n \in g \/ Describes(st[n], t)
  BY DEF Fits, Described
<1>5. LogicalArm(e, s, b) = NarrowOperand(e, c, t, b)
  BY DEF LogicalArm
<1> HIDE DEF c, t
<1> QED BY <1>1, <1>2, <1>3, <1>4, <1>5, ReadOperandFits

\* What ||= and &&= write, and whether there are two ways through them.
Written(e, s) == Assign(s, EvaluateValue(Before(e, s), s.value))
ArmsOf(e, s) ==
    IF s.goesOn THEN OperandReachability(e, ReadOf(s.name).left, ReadType(e, s.name)) ELSE BothWays

(* The two arms of a logical assignment, and which of them are joined. *)
LEMMA LogicalSimple ==
    ASSUME NEW e, NEW s, s.kind = "logical"
    PROVE  /\ Before(e, s) = LogicalArm(e, s, s.goesOn)
           /\ Simple(e, s) = IF ArmsOf(e, s) = BothWays
                             THEN JoinEnvironment(Written(e, s), LogicalArm(e, s, ~ s.goesOn))
                             ELSE IF ArmsOf(e, s)[1] THEN Written(e, s)
                             ELSE LogicalArm(e, s, ~ s.goesOn)
BY DEF Before, Simple, AfterAssignment, LogicalAssign, JoinArms, Written, ArmsOf

(* The value of ||= and &&= and what its write leaves: the two arms have the same refinements.  *)
LEMMA WrittenTypes ==
    ASSUME NEW e, Typed(e), NEW s, IsStatement(s), s.kind = "logical"
    PROVE  LET before == Before(e, s)
               value == EvaluateValue(before, s.value)
           IN  /\ Within(e, before, {s.name}, {}) /\ Evaluable(before, s.value)
               /\ value.type \in Type /\ Within(before, value.env, NamesIn(s.value), NamesIn(s.value))
               /\ Typed(Written(e, s))
               /\ KeepsRefinements(e, s) =>
                     SameRefinements(Written(e, s), LogicalArm(e, s, ~ s.goesOn))
<1> DEFINE n == s.name
           before == Before(e, s)
           value == EvaluateValue(before, s.value)
           other == LogicalArm(e, s, ~ s.goesOn)
           names == NamesIn(s.value)
<1>1. /\ n \in Name /\ s.goesOn \in BOOLEAN /\ IsExpression(s.value)
      /\ s.value.kind \in {"literal", "untyped", "condition"}
  BY DEF IsStatement
<1>2. /\ Within(e, before, {n}, {}) /\ (n \in Ivar => Contains(before, n))
      /\ Within(e, other, {n}, {}) /\ (n \in Ivar => Contains(other, n))
  <2>1. before = LogicalArm(e, s, s.goesOn)
    BY LogicalSimple
  <2>2. (~ s.goesOn) \in BOOLEAN
    OBVIOUS
  <2> QED BY <1>1, <2>1, <2>2, ArmTypes
<1> HIDE DEF before, other
<1>3. Typed(before) /\ Evaluable(before, s.value)
  BY <1>1, <1>2 DEF Within, Evaluable
<1>4. value.type \in Type /\ Within(before, value.env, names, names)
  BY <1>3, ValueTypes
<1>5. Written(e, s) = Write(value.env, n, s.value, value.type, TRUE)
  BY DEF Written, Assign, before
<1> HIDE DEF value
<1>6. Typed(value.env)
  BY <1>4 DEF Within
<1>7. /\ Typed(Written(e, s))
      /\ \A m \in Name : Contains(Written(e, s), m) <=> m = n \/ Contains(value.env, m)
  <2> DEFINE type == value.type
             left == value.env
             x == s.value
  <2>1. type \in Type /\ Typed(left) /\ IsExpression(x)
    BY <1>1, <1>4, <1>6
  <2>2. Written(e, s) = Write(left, n, x, type, TRUE)
    BY <1>5
  <2> HIDE DEF type, left, x
  <2>3. /\ Typed(Write(left, n, x, type, TRUE))
        /\ \A m \in Name : Contains(Write(left, n, x, type, TRUE), m) <=> m = n \/ Contains(left, m)
    BY <1>1, <2>1, WriteTypes
  <2> QED BY <2>2, <2>3 DEF left
<1>8. ASSUME KeepsRefinements(e, s)
      PROVE  SameRefinements(Written(e, s), other)
  <2>1. \A m \in Ivar : m \in names => Contains(e, m)
    <3>1. CASE s.value.kind = "condition"
      BY <1>8, <3>1 DEF KeepsRefinements, Assigns, Refined, NamesIn
    <3>2. CASE s.value.kind # "condition"
      BY <1>1, <3>2 DEF NamesIn, names
    <3> QED BY <3>1, <3>2
  <2>2. \A m \in Ivar : Contains(value.env, m) <=> Contains(before, m)
    BY <1>2, <1>4, <2>1 DEF Within
  <2>3. \A m \in Ivar : m # n => (Contains(before, m) <=> Contains(other, m))
    BY <1>2 DEF Within
  <2> QED BY <1>2, <1>7, <2>2, <2>3, NameAssumption DEF SameRefinements
<1> QED BY <1>2, <1>3, <1>4, <1>7, <1>8 DEF before, value, other

(* More guesses promise less. *)
LEMMA FitsMore ==
    ASSUME NEW e, NEW st, NEW g, NEW g2, Fits(e, st, g), \A m \in g : m \in g2
    PROVE  Fits(e, st, g2)
BY DEF Fits, Described

(* An assignment alone ends a guess, and one that reads a guess begins one. *)
LEMMA GuessesKept ==
    ASSUME NEW g, NEW s
    PROVE  /\ \A m \in g : m \in GuessAfter(g, s) \/ (s.kind = "assign" /\ m = s.name)
           /\ Assigns(s) /\ NamesIn(s.value) \intersect g # {} => s.name \in GuessAfter(g, s)
BY DEF GuessAfter

(* The ways that the value of the name leaves open. *)
LEMMA ArmAlive ==
    ASSUME NEW e, NEW st \in [Name -> Value], NEW g, Fits(e, st, g), NEW s, s.name \in Name,
           s.goesOn \in BOOLEAN, s.name \in g => IsOpen(e, s.name)
    PROVE  \/ ArmsOf(e, s) = BothWays
           \/ /\ s.goesOn /\ ArmsOf(e, s) \in BOOLEAN \X BOOLEAN
              /\ Way(ArmsOf(e, s), Truthy(st[s.name]))
<1> DEFINE n == s.name
           a == ReadOf(n).left
           t == ReadType(e, n)
<1>1. a.op = "read" /\ a.name = n /\ ~ a.negated
  BY ReadCondition
<1>2. t \in Type /\ Typed(e)
  BY ReadTypes DEF Typed, Fits
<1>3. Truthiness(t) \in BOOLEAN \X BOOLEAN
  BY DEF Truthiness
<1>4. CASE ~ s.goesOn
  BY <1>4 DEF ArmsOf
<1>5. CASE s.goesOn /\ ReadsOpen(e, a)
  BY <1>1, <1>5 DEF ArmsOf, OperandReachability
<1>6. CASE s.goesOn /\ ~ ReadsOpen(e, a)
  <2>1. n \notin g
    BY <1>1, <1>2, <1>6 DEF ReadsOpen, IsLocalRead, Typed, Closed
  <2>2. Describes(st[n], t)
    BY <2>1 DEF Fits, Described
  <2>3. Truthy(st[n]) \in BOOLEAN
    BY DEF Truthy
  <2>4. ArmsOf(e, s) = Truthiness(t)
    BY <1>6 DEF ArmsOf, OperandReachability
  <2> HIDE DEF t
  <2>5. Way(Truthiness(t), Truthy(st[n]))
    BY <1>2, <2>2, <2>3, TruthinessSound
  <2> QED BY <1>3, <1>6, <2>4, <2>5
<1> QED BY <1>4, <1>5, <1>6

(* What an assignment may write is a value. *)
LEMMA WrittenIsValue ==
    ASSUME NEW st \in [Name -> Value], NEW x, IsExpression(x),
           x.kind \in {"literal", "untyped", "condition"}, NEW w \in RunValues(st, x)
    PROVE  w \in Value
<1>1. CASE x.kind = "literal"
  BY <1>1 DEF RunValues, IsExpression
<1>2. CASE x.kind = "untyped"
  BY <1>2, ScalarsAreValues DEF RunValues
<1>3. CASE x.kind = "condition"
  <2>1. PICK o \in Outcomes(st, x.cond) : w = o.value
    BY <1>3 DEF RunValues
  <2>2. IsAtom(x.cond.left) /\ IsAtom(x.cond.right)
    BY <1>3 DEF IsExpression, IsCondition
  <2> QED BY <2>1, <2>2, OutcomeParts, AtomsAreValues
<1> QED BY <1>1, <1>2, <1>3

(* The write of ||= and &&= on the path that makes it. *)
LEMMA WrittenFits ==
    ASSUME NEW e, NEW st \in [Name -> Value], NEW g, Fits(e, st, g),
           NEW s, IsStatement(s), s.kind = "logical", Truthy(st[s.name]) <=> s.goesOn,
           IsLogical(s.value) => Trusted(Before(e, s), g, s.value.cond),
           KeepsOperand(s), KeepsAliases(e, s), KeepsRefinements(e, s), KeepsResponds(e, s),
           NEW w \in RunValues(st, s.value), w # NilValue
    PROVE  Fits(Written(e, s), [st EXCEPT ![s.name] = w], GuessAfter(g, s))
<1> DEFINE n == s.name
           x == s.value
           before == Before(e, s)
           value == EvaluateValue(before, x)
           g2 == GuessAfter(g, s)
           left == value.env
           type == value.type
<1>1. /\ n \in Name /\ s.goesOn \in BOOLEAN /\ IsExpression(x)
      /\ x.kind \in {"literal", "untyped", "condition"} /\ Assigns(s) /\ Typed(e)
      /\ n \notin NamesIn(x) /\ \A m \in Name : e.alias[m] # Absent => e.alias[m].source # n
      /\ n \in Ivar => n \notin e.responds
  BY DEF IsStatement, Assigns, Fits, KeepsAliases, KeepsResponds, Writes
<1>2. before = LogicalArm(e, s, s.goesOn)
  BY LogicalSimple
<1>3. /\ Within(e, before, {n}, {}) /\ Evaluable(before, x)
      /\ type \in Type /\ Within(before, left, NamesIn(x), NamesIn(x))
      /\ Typed(Written(e, s))
  BY <1>1, WrittenTypes
<1>4. Written(e, s) = Write(left, n, x, type, TRUE)
  BY DEF Written, Assign
<1> HIDE DEF x, before
<1>5. Fits(before, st, g)
  BY <1>1, <1>2, ArmFits
<1>6. x.kind = "condition" =>
         /\ x.cond.kind = "atom" \/ Refined(before, x.cond)
         /\ x.cond.kind # "atom" => Trusted(before, g, x.cond) /\ x.cond.left.op = "read"
  <2>1. x.kind = "condition" => Refined(e, x.cond)
    BY <1>1 DEF KeepsRefinements, x
  <2>2. x.kind = "condition" => Refined(before, x.cond)
    BY <1>3, <2>1 DEF Refined, Within
  <2>3. x.kind = "condition" /\ x.cond.kind # "atom" => IsLogical(x)
    BY DEF IsLogical
  <2> QED BY <1>1, <2>2, <2>3 DEF KeepsOperand, x, before
<1>7. x.kind # "first"
  BY <1>1
<1> HIDE DEF value, left, type
<1>8. /\ w \in Value /\ Fits(left, st, g)
      /\ NamesIn(x) \intersect g # {} \/ Describes(w, type)
  BY <1>3, <1>5, <1>6, <1>7, ValueFits DEF x, left, type, value
<1>9. /\ \A m \in g : m = n \/ m \in g2
      /\ NamesIn(x) \intersect g # {} => n \in g2
  BY <1>1, GuessesKept DEF x
<1> HIDE DEF g2
<1>10. n \in g2 \/ Describes(w, type)
  BY <1>8, <1>9
<1>11. /\ \A m \in Name : left.alias[m] # Absent => left.alias[m].source # n
       /\ n \in Ivar => n \notin left.responds
  BY <1>1, <1>3 DEF Within
<1>12. w \in RunValues(st, x)
  BY DEF x
<1>13. Fits(Write(left, n, x, type, TRUE), [st EXCEPT ![n] = w], g2)
  BY <1>1, <1>3, <1>8, <1>9, <1>10, <1>11, <1>12, WriteFits
<1> QED BY <1>4, <1>13 DEF g2

(* Either arm and their join. *)
LEMMA LogicalStatementFits ==
    ASSUME NEW e, NEW st \in [Name -> Value], NEW g, Fits(e, st, g),
           NEW s, IsStatement(s), s.kind = "logical", s.name \in g => IsOpen(e, s.name),
           IsLogical(s.value) => Trusted(Before(e, s), g, s.value.cond),
           KeepsOperand(s), KeepsAliases(e, s), KeepsRefinements(e, s), KeepsResponds(e, s),
           NEW st2 \in RunSimple(st, s)
    PROVE  Fits(Simple(e, s), st2, GuessAfter(g, s))
<1> DEFINE n == s.name
           other == LogicalArm(e, s, ~ s.goesOn)
           reach == ArmsOf(e, s)
           g2 == GuessAfter(g, s)
<1>1. n \in Name /\ s.goesOn \in BOOLEAN /\ Typed(e) /\ (~ s.goesOn) \in BOOLEAN
  BY DEF IsStatement, Fits
<1>2. Simple(e, s) = IF reach = BothWays THEN JoinEnvironment(Written(e, s), other)
                     ELSE IF reach[1] THEN Written(e, s) ELSE other
  BY LogicalSimple
<1>3. /\ Typed(Written(e, s)) /\ SameRefinements(Written(e, s), other)
      /\ SameRefinements(other, Written(e, s))
  BY <1>1, WrittenTypes DEF SameRefinements
<1>4. Typed(other)
  BY <1>1, ArmTypes DEF Within
<1>5. \/ reach = BothWays
      \/ s.goesOn /\ reach \in BOOLEAN \X BOOLEAN /\ Way(reach, Truthy(st[n]))
  BY <1>1, ArmAlive
<1>6. \A m \in g : m \in g2
  BY GuessesKept
<1> HIDE DEF other, reach, g2
<1>7. CASE Truthy(st[n]) <=> s.goesOn
  <2>1. PICK w \in RunValues(st, s.value) \ {NilValue} : st2 = [st EXCEPT ![n] = w]
    BY <1>1, <1>7 DEF RunSimple, Truthy
  <2>2. Fits(Written(e, s), st2, g2)
    BY <1>7, <2>1, WrittenFits DEF g2
  <2>3. st2 \in [Name -> Value]
    <3>1. w \in Value
      BY <2>1, WrittenIsValue DEF IsStatement
    <3> QED BY <2>1, <3>1
  <2>4. Fits(JoinEnvironment(Written(e, s), other), st2, g2)
    BY <1>3, <1>4, <2>2, <2>3, JoinFits
  <2>5. reach = BothWays \/ reach[1]
    BY <1>5, <1>7 DEF Way
  <2> QED BY <1>2, <2>2, <2>4, <2>5 DEF g2
<1>8. CASE ~ (Truthy(st[n]) <=> s.goesOn)
  <2>1. st2 = st
    BY <1>1, <1>8 DEF RunSimple, Truthy
  <2>2. Truthy(st[n]) <=> ~ s.goesOn
    BY <1>1, <1>8 DEF Truthy
  <2>3. Fits(other, st, g)
    BY <1>1, <2>2, ArmFits DEF other
  <2>4. Fits(other, st, g2)
    BY <1>6, <2>3, FitsMore
  <2>5. Fits(JoinEnvironment(Written(e, s), other), st, g2)
    BY <1>3, <2>4, JoinFits
  <2>6. reach # BothWays => ~ reach[1]
    <3> SUFFICES ASSUME reach # BothWays, reach[1]
                 PROVE  FALSE
      OBVIOUS
    <3>1. s.goesOn /\ reach \in BOOLEAN \X BOOLEAN
      BY <1>5
    <3>2. reach[2]
      BY <1>5, <1>8, <3>1 DEF Way, Truthy
    <3>3. PICK p \in BOOLEAN, q \in BOOLEAN : reach = << p, q >>
      BY <3>1
    <3>4. p = TRUE /\ q = TRUE
      BY <3>2, <3>3
    <3> QED BY <3>3, <3>4 DEF BothWays
  <2> QED BY <1>2, <2>1, <2>4, <2>5, <2>6 DEF g2
<1> QED BY <1>7, <1>8

-----------------------------------------------------------------------------
(* One statement.                                                          *)

\* What the code needs of an environment to transfer the statement at all.
Runnable(e, s) ==
    /\ IsStatement(s)
    /\ s.kind = "assign" => Evaluable(e, s.value)
    /\ s.kind = "write" => HashValueOf(Get(e, s.name)) # Absent

\* What the exclusions ask of a statement.
KeepsAll(e, st, s) ==
    /\ KeepsOperand(s) /\ KeepsAliases(e, s) /\ KeepsRefinements(e, s) /\ KeepsResponds(e, s)
    /\ KeepsPlaceholder(e, st, s) /\ KeepsAggregate(e, s)

(* A statement of a program without a type error can be transferred. *)
LEMMA AcceptedRuns ==
    ASSUME NEW e, NEW st, NEW g, NEW s, IsStatement(s), Accepted(e, st, g, s)
    PROVE  Runnable(e, s)
BY DEF Runnable, Accepted, Evaluable, IsStatement, Assigns

(* A statement leaves an environment, whatever the store. *)
LEMMA SimpleTyped ==
    ASSUME NEW e, Typed(e), NEW s, Runnable(e, s)
    PROVE  Typed(Simple(e, s))
<1>0. IsStatement(s)
  BY DEF Runnable
<1>1. CASE s.kind = "assign"
  <2> DEFINE value == EvaluateValue(e, s.value)
             left == value.env
             type == value.type
             x == s.value
  <2>1. s.name \in Name /\ IsExpression(x) /\ Evaluable(e, x)
    BY <1>0, <1>1 DEF IsStatement, Runnable
  <2>2. type \in Type /\ Within(e, left, NamesIn(x), NamesIn(x))
    BY <2>1, ValueTypes
  <2>3. Typed(left)
    BY <2>2 DEF Within
  <2>4. Simple(e, s) = Write(left, s.name, x, type, FALSE)
    BY <1>1 DEF Simple, AfterAssignment, Assign, Before
  <2> HIDE DEF value, left, type, x
  <2>5. Typed(Write(left, s.name, x, type, FALSE))
    BY <2>1, <2>2, <2>3, WriteTypes
  <2> QED BY <2>4, <2>5
<1>2. CASE s.kind = "logical"
  <2>1. Typed(Written(e, s))
    BY <1>0, <1>2, WrittenTypes
  <2>2. Typed(LogicalArm(e, s, ~ s.goesOn))
    <3>1. s.name \in Name /\ (~ s.goesOn) \in BOOLEAN
      BY <1>0, <1>2 DEF IsStatement
    <3> QED BY <3>1, ArmTypes DEF Within
  <2>3. Typed(JoinEnvironment(Written(e, s), LogicalArm(e, s, ~ s.goesOn)))
    BY <2>1, <2>2, JoinTyped
  <2> QED BY <1>2, <2>1, <2>2, <2>3, LogicalSimple
<1>3. CASE s.kind = "push"
  <2>1. s.name \in Name \ Ivar /\ s.value.value \in Element
    BY <1>0, <1>3 DEF IsStatement
  <2>2. Simple(e, s) = WidenOpenArray(e, s.name, LiteralType(s.value.value))
    BY <1>3 DEF Simple
  <2> QED BY <2>1, <2>2, PushTypes
<1>4. CASE s.kind = "write"
  <2>1. /\ s.name \in Name \ Ivar /\ s.value.value \in Element /\ s.key \in Key
        /\ HashValueOf(Get(e, s.name)) # Absent
    BY <1>0, <1>4 DEF IsStatement, Runnable
  <2>2. Simple(e, s) = WriteKey(e, s.name, s.key, LiteralType(s.value.value))
    BY <1>4 DEF Simple
  <2> QED BY <2>1, <2>2, KeyTypes
<1>5. CASE s.kind = "skip"
  BY <1>5 DEF Simple
<1> QED BY <1>0, <1>1, <1>2, <1>3, <1>4, <1>5 DEF IsStatement

(* An assignment. *)
LEMMA AssignFits ==
    ASSUME NEW e, NEW st \in [Name -> Value], NEW g, Fits(e, st, g),
           NEW s, IsStatement(s), s.kind = "assign", Accepted(e, st, g, s), KeepsAll(e, st, s),
           NEW st2 \in RunSimple(st, s)
    PROVE  /\ Fits(Simple(e, s), st2, GuessAfter(g, s))
           /\ \E w \in Value : st2 = [st EXCEPT ![s.name] = w]
<1> DEFINE n == s.name
           x == s.value
           value == EvaluateValue(e, x)
           left == value.env
           type == value.type
           g2 == GuessAfter(g, s)
<1>1. /\ n \in Name /\ Evaluable(e, x) /\ IsExpression(x) /\ Typed(e) /\ Assigns(s)
      /\ Before(e, s) = e
  BY AcceptedRuns DEF Runnable, Evaluable, IsStatement, Fits, Assigns, Before
<1>2. PICK w \in RunValues(st, x) : st2 = [st EXCEPT ![n] = w]
  BY DEF RunSimple
<1>3. /\ n \notin NamesIn(x) /\ \A m \in Name : e.alias[m] # Absent => e.alias[m].source # n
      /\ n \in Ivar => n \notin e.responds
  BY <1>1 DEF KeepsAll, KeepsAliases, KeepsResponds, Writes
<1>4. x.kind = "condition" => /\ x.cond.kind = "atom" \/ Refined(e, x.cond)
                              /\ x.cond.kind # "atom" => /\ Trusted(e, g, x.cond)
                                                         /\ x.cond.left.op = "read"
  BY <1>1 DEF KeepsAll, KeepsRefinements, KeepsOperand, IsLogical, Accepted
<1>5. x.kind = "first" => IsArray(st[x.name])
  BY DEF Accepted
<1>6. type \in Type /\ Within(e, left, NamesIn(x), NamesIn(x))
  BY <1>1, ValueTypes
<1>7. Simple(e, s) = Write(left, n, x, type, FALSE)
  BY <1>1 DEF Simple, AfterAssignment, Assign
<1> HIDE DEF x
<1>8. /\ w \in Value /\ Fits(value.env, st, g)
      /\ NamesIn(x) \intersect g # {} \/ Describes(w, value.type)
  BY <1>1, <1>2, <1>4, <1>5, ValueFits
<1>9. /\ \A m \in g : m = n \/ m \in g2
      /\ NamesIn(x) \intersect g # {} => n \in g2
  BY <1>1, GuessesKept DEF x
<1> HIDE DEF g2, left, type
<1>10. Fits(left, st, g) /\ (n \in g2 \/ Describes(w, type))
  BY <1>8, <1>9 DEF left, type
<1>11. /\ \A m \in Name : left.alias[m] # Absent => left.alias[m].source # n
       /\ n \in Ivar => n \notin left.responds
  BY <1>3, <1>6 DEF Within
<1>12. Fits(Write(left, n, x, type, FALSE), [st EXCEPT ![n] = w], g2)
  BY <1>1, <1>2, <1>3, <1>6, <1>8, <1>9, <1>10, <1>11, WriteFits
<1> QED BY <1>2, <1>7, <1>8, <1>12 DEF g2

(* Any statement, outside a block. *)
LEMMA SimpleFits ==
    ASSUME NEW e, NEW st \in [Name -> Value], NEW g, Fits(e, st, g),
           NEW s, IsStatement(s), Accepted(e, st, g, s), KeepsAll(e, st, s),
           NEW st2 \in RunSimple(st, s)
    PROVE  /\ Fits(Simple(e, s), st2, GuessAfter(g, s))
           /\ st2 \in [Name -> Value]
<1>1. CASE s.kind = "assign"
  <2>1. s.name \in Name
    BY <1>1 DEF IsStatement
  <2>2. Fits(Simple(e, s), st2, GuessAfter(g, s)) /\ \E w \in Value : st2 = [st EXCEPT ![s.name] = w]
    BY <1>1, AssignFits
  <2>3. PICK w \in Value : st2 = [st EXCEPT ![s.name] = w]
    BY <2>2
  <2>4. st2 \in [Name -> Value]
    BY <2>1, <2>3
  <2> QED BY <2>2, <2>4
<1>2. CASE s.kind = "logical"
  <2>1. Fits(Simple(e, s), st2, GuessAfter(g, s))
    BY <1>2, LogicalStatementFits DEF Accepted, KeepsAll, Assigns
  <2>2. /\ s.name \in Name /\ IsExpression(s.value)
        /\ s.value.kind \in {"literal", "untyped", "condition"}
    BY <1>2 DEF IsStatement
  <2>3. st2 = st \/ \E w \in RunValues(st, s.value) : st2 = [st EXCEPT ![s.name] = w]
    BY <1>2 DEF RunSimple
  <2>4. \A w \in RunValues(st, s.value) : w \in Value
    BY <2>2, WrittenIsValue
  <2> QED BY <2>1, <2>2, <2>3, <2>4
<1>3. CASE s.kind = "push"
  <2> DEFINE n == s.name
             v == s.value.value
             w == ArrayValue(st[n][2] \union {v})
  <2>1. n \in Name \ Ivar /\ v \in Element /\ v \in Value
    BY <1>3, ValueAssumption, ScalarsAreValues DEF IsStatement
  <2>2. /\ IsArray(st[n]) /\ ElementOf(Get(e, n)) # Absent
        /\ n \in e.openArray \/ IsAssignable(LiteralType(v), ElementOf(Get(e, n)))
        /\ ElementOf(Get(e, n)) = AnyType => st[n][2] = {}
    BY <1>3 DEF Accepted, KeepsAll, KeepsPlaceholder
  <2>3. st2 = [st EXCEPT ![n] = w]
    BY <1>3 DEF RunSimple
  <2>4. w \in Value
    <3>1. st[n][2] \subseteq Element
      BY <2>1, <2>2, ArrayParts
    <3> QED BY <2>1, <3>1 DEF Value
  <2>5. GuessAfter(g, s) = g
    BY <1>3 DEF GuessAfter, Assigns
  <2>6. Simple(e, s) = WidenOpenArray(e, n, LiteralType(v))
    BY <1>3 DEF Simple
  <2> HIDE DEF n, v
  <2>7. Fits(WidenOpenArray(e, n, LiteralType(v)), [st EXCEPT ![n] = w], g)
    BY <2>1, <2>2, PushFits
  <2> QED BY <2>1, <2>3, <2>4, <2>5, <2>6, <2>7
<1>4. CASE s.kind = "write"
  <2> DEFINE n == s.name
             k == s.key
             v == s.value.value
             w == HashValue([st[n][2] EXCEPT ![k] = v])
  <2>1. n \in Name \ Ivar /\ v \in Element /\ k \in Key
    BY <1>4 DEF IsStatement
  <2>2. /\ IsHash(st[n]) /\ HashValueOf(Get(e, n)) # Absent
        /\ e.shape[n] # Absent /\ e.shape[n].entries[k] # Absent =>
              IsAssignable(LiteralType(v), HashValueOf(Get(e, n)))
        /\ HashValueOf(Get(e, n)) = AnyType => \A j \in Key : st[n][2][j] = Missing
    BY <1>4 DEF Accepted, KeepsAll, KeepsPlaceholder, KeepsAggregate
  <2>3. st2 = [st EXCEPT ![n] = w]
    BY <1>4 DEF RunSimple
  <2>4. w \in Value
    <3>1. st[n][2] \in [Key -> Element \union {Missing}]
      BY <2>1, <2>2, HashParts
    <3> QED BY <2>1, <3>1 DEF Value
  <2>5. GuessAfter(g, s) = g
    BY <1>4 DEF GuessAfter, Assigns
  <2>6. Simple(e, s) = WriteKey(e, n, k, LiteralType(v))
    BY <1>4 DEF Simple
  <2> HIDE DEF n, k, v
  <2>7. Fits(WriteKey(e, n, k, LiteralType(v)), [st EXCEPT ![n] = w], g)
    BY <2>1, <2>2, KeyFits
  <2> QED BY <2>1, <2>3, <2>4, <2>5, <2>6, <2>7
<1>5. CASE s.kind = "skip"
  <2>1. st2 = st /\ Simple(e, s) = e /\ GuessAfter(g, s) = g
    BY <1>5 DEF RunSimple, Simple, GuessAfter, Assigns
  <2> QED BY <2>1
<1> QED BY <1>1, <1>2, <1>3, <1>4, <1>5 DEF IsStatement

-----------------------------------------------------------------------------
(* Blocks.                                                                 *)

(* What the block of a join leaves of each name, changed or not. *)
LEMMA BlockParts ==
    ASSUME NEW e, Typed(e), NEW after, Typed(after), NEW changed,
           \A n \in changed : n \in Name /\ Contains(e, n)
    PROVE  LET j == JoinBlock(e, after, changed)
           IN  /\ Typed(j)
               /\ \A n \in Name : Contains(j, n) <=> Contains(e, n)
               /\ \A n \in Name : n \notin changed =>
                     /\ j.locals[n] = e.locals[n] /\ j.alias[n] = e.alias[n]
                     /\ j.truthiness[n] = e.truthiness[n] /\ j.shape[n] = e.shape[n]
               /\ \A n \in changed :
                     /\ j.locals[n] = Join(Get(e, n), Get(after, n)) /\ j.locals[n] \in Type
                     /\ j.alias[n] = Absent /\ j.truthiness[n] = Absent /\ j.shape[n] = Absent
               /\ \A n \in Name : /\ n \in j.nonempty => n \in e.nonempty /\ n \notin changed
                                  /\ n \in j.responds => n \in e.responds
                                  /\ n \in j.responds /\ n \in changed => n \in Ivar
<1> DEFINE j == JoinBlock(e, after, changed)
<1>1. \A n \in changed : Join(Get(e, n), Get(after, n)) \in Type
  BY ReadTypes, CombinedTypes DEF Typed
<1>2. /\ j.locals = [n \in Name |-> IF n \in changed THEN Join(Get(e, n), Get(after, n))
                                    ELSE e.locals[n]]
      /\ j.alias = [n \in Name |-> IF n \in changed THEN Absent ELSE e.alias[n]]
      /\ j.truthiness = [n \in Name |-> IF n \in changed THEN Absent ELSE e.truthiness[n]]
      /\ j.shape = [n \in Name |-> IF n \in changed THEN Absent ELSE e.shape[n]]
      /\ j.inferred = e.inferred \ changed /\ j.provisional = e.provisional \ changed
      /\ j.openArray = e.openArray \ changed /\ j.nonempty = e.nonempty \ changed
      /\ j.responds = e.responds \ (changed \ Ivar)
      /\ j = [ locals |-> j.locals, alias |-> j.alias, truthiness |-> j.truthiness,
               shape |-> j.shape, inferred |-> j.inferred, provisional |-> j.provisional,
               openArray |-> j.openArray, nonempty |-> j.nonempty, responds |-> j.responds ]
  BY DEF JoinBlock, WithoutResponds
<1> HIDE DEF j
<1>3. /\ \A n \in Name : n \notin changed =>
            /\ j.locals[n] = e.locals[n] /\ j.alias[n] = e.alias[n]
            /\ j.truthiness[n] = e.truthiness[n] /\ j.shape[n] = e.shape[n]
      /\ \A n \in changed :
            /\ j.locals[n] = Join(Get(e, n), Get(after, n)) /\ j.locals[n] \in Type
            /\ j.alias[n] = Absent /\ j.truthiness[n] = Absent /\ j.shape[n] = Absent
  BY <1>1, <1>2
<1>4. \A n \in Name : Contains(j, n) <=> Contains(e, n)
  BY <1>3, AbsentAssumption DEF Contains
<1>5. /\ j.locals \in [Name -> Type \union {Absent}] /\ j.alias \in [Name -> AliasOrAbsent]
      /\ j.truthiness \in [Name -> BOOLEAN \union {Absent}] /\ j.shape \in [Name -> ShapeOrAbsent]
  BY <1>1, <1>2 DEF Typed, Environment, AliasOrAbsent, ShapeOrAbsent
<1>6. j \in Environment
  BY <1>2, <1>5 DEF Typed, Environment
<1>7. Closed(j)
  BY <1>2, <1>3 DEF Typed, Closed, IsOpen
<1>8. \A n \in Name : /\ n \in j.nonempty => n \in e.nonempty /\ n \notin changed
                      /\ n \in j.responds => n \in e.responds
                      /\ n \in j.responds /\ n \in changed => n \in Ivar
  BY <1>2
<1> QED BY <1>3, <1>4, <1>6, <1>7, <1>8 DEF Typed, j

(* A block that does not run: what it would do is joined with what was there. *)
LEMMA BlockKeeps ==
    ASSUME NEW e, NEW st \in [Name -> Value], NEW g, Fits(e, st, g), NEW after, Typed(after)
    PROVE  Fits(Block(e, after), st, g)
<1> DEFINE changed == {n \in Name : Contains(e, n) /\ ~ LocalFactsUnchanged(e, after, n)}
           j == JoinBlock(e, after, changed)
<1>0. Typed(e)
  BY DEF Fits
<1>1. \A n \in changed : n \in Name /\ Contains(e, n)
  OBVIOUS
<1>2. Block(e, after) = j
  BY DEF Block
<1> HIDE DEF changed
<1>3. /\ Typed(j)
      /\ \A n \in Name : Contains(j, n) <=> Contains(e, n)
      /\ \A n \in Name : n \notin changed =>
            /\ j.locals[n] = e.locals[n] /\ j.alias[n] = e.alias[n]
            /\ j.truthiness[n] = e.truthiness[n] /\ j.shape[n] = e.shape[n]
      /\ \A n \in changed :
            /\ j.locals[n] = Join(Get(e, n), Get(after, n)) /\ j.locals[n] \in Type
            /\ j.alias[n] = Absent /\ j.truthiness[n] = Absent /\ j.shape[n] = Absent
      /\ \A n \in Name : (n \in j.nonempty => n \in e.nonempty) /\ (n \in j.responds => n \in e.responds)
  BY <1>0, <1>1, BlockParts
<1> HIDE DEF j
<1>4. Described(j, st, g)
  <2> SUFFICES ASSUME NEW n \in Name \ g
               PROVE  Describes(st[n], ReadType(j, n))
    BY DEF Described
  <2>1. Describes(st[n], ReadType(e, n))
    BY DEF Fits, Described
  <2>2. CASE n \notin changed
    BY <1>3, <2>1, <2>2 DEF ReadType, Get, Contains
  <2>3. CASE n \in changed
    <3>1. ReadType(e, n) = Get(e, n) /\ ReadType(j, n) = Join(Get(e, n), Get(after, n))
      BY <1>1, <1>3, <2>3 DEF ReadType, Get
    <3>2. Get(e, n) \in Type /\ Get(after, n) \in Type
      BY <1>0, ReadTypes DEF Typed
    <3> QED BY <2>1, <3>1, <3>2, JoinLaw
  <2> QED BY <2>2, <2>3
<1>5. \A n \in Name : FactHolds(j, st, n)
  <2>1. \A n \in Name : FactHolds(e, st, n)
    BY DEF Fits
  <2> QED BY <1>3, <2>1 DEF FactHolds
<1>6. \A n \in Name : AliasHolds(j.alias[n], st, n)
  <2>1. \A n \in Name : AliasHolds(e.alias[n], st, n)
    BY DEF Fits
  <2> QED BY <1>3, <2>1 DEF AliasHolds
<1>7. \A n \in Name : ShapeFits(j.shape[n], st[n])
  <2>1. \A n \in Name : ShapeFits(e.shape[n], st[n])
    BY DEF Fits
  <2> QED BY <1>3, <2>1 DEF ShapeFits
<1>8. UnboundAreNil(j, st)
  BY <1>3 DEF Fits, UnboundAreNil
<1> QED BY <1>2, <1>3, <1>4, <1>5, <1>6, <1>7, <1>8 DEF Fits

\* Values that no truth test and no class test tells apart.
Alike(v, w) ==
    /\ Truthy(v) = Truthy(w)
    /\ \A class \in Class : Describes(v, class) <=> Describes(w, class)

(* A block that ran: it wrote one local, of which nothing is kept but what held after it too.   *)
LEMMA BlockRuns ==
    ASSUME NEW e, NEW st \in [Name -> Value], NEW g, Fits(e, st, g),
           NEW n \in Name \ Ivar, Contains(e, n), n \notin e.responds, NEW w \in Value, NEW g2,
           \A m \in g : m \in g2,
           \/ Alike(st[n], w)
           \/ \A m \in Name : e.alias[m] # Absent => e.alias[m].source # n,
           NEW after, Fits(after, [st EXCEPT ![n] = w], g2)
    PROVE  Fits(Block(e, after), [st EXCEPT ![n] = w], g2)
<1> DEFINE changed == {m \in Name : Contains(e, m) /\ ~ LocalFactsUnchanged(e, after, m)}
           j == JoinBlock(e, after, changed)
           st2 == [st EXCEPT ![n] = w]
<1>0. Typed(e) /\ Typed(after) /\ \A m \in Name : st2[m] = IF m = n THEN w ELSE st[m]
  BY DEF Fits
<1>1. /\ \A m \in changed : m \in Name /\ Contains(e, m)
      /\ n \notin changed => LocalFactsUnchanged(e, after, n)
  OBVIOUS
<1>2. Block(e, after) = j
  BY DEF Block
<1> HIDE DEF changed
<1>3. /\ Typed(j)
      /\ \A m \in Name : Contains(j, m) <=> Contains(e, m)
      /\ \A m \in Name : m \notin changed =>
            /\ j.locals[m] = e.locals[m] /\ j.alias[m] = e.alias[m]
            /\ j.truthiness[m] = e.truthiness[m] /\ j.shape[m] = e.shape[m]
      /\ \A m \in changed :
            /\ j.locals[m] = Join(Get(e, m), Get(after, m)) /\ j.locals[m] \in Type
            /\ j.alias[m] = Absent /\ j.truthiness[m] = Absent /\ j.shape[m] = Absent
      /\ \A m \in Name : /\ m \in j.nonempty => m \in e.nonempty /\ m \notin changed
                         /\ m \in j.responds => m \in e.responds
  BY <1>0, <1>1, BlockParts
<1>4. n \notin changed => /\ j.locals[n] = Get(after, n) /\ j.alias[n] = after.alias[n]
                          /\ j.truthiness[n] = after.truthiness[n] /\ j.shape[n] = after.shape[n]
                          /\ n \in j.nonempty => n \in after.nonempty
  BY <1>1, <1>3 DEF LocalFactsUnchanged, Get
<1> HIDE DEF j, st2
<1>5. Described(j, st2, g2)
  <2> SUFFICES ASSUME NEW m \in Name \ g2
               PROVE  Describes(st2[m], ReadType(j, m))
    BY DEF Described
  <2>1. m # n => Describes(st2[m], ReadType(e, m))
    BY <1>0 DEF Fits, Described
  <2>2. m = n => Describes(st2[m], Get(after, m))
    <3>1. m = n => ReadType(after, m) = Get(after, m)
      BY DEF ReadType
    <3> QED BY <3>1 DEF Fits, Described, st2
  <2>3. Get(e, m) \in Type /\ Get(after, m) \in Type /\ st2[m] \in Value
    BY <1>0, ReadTypes DEF Typed
  <2>4. CASE m \notin changed /\ m # n
    BY <1>3, <2>1, <2>4 DEF ReadType, Get, Contains
  <2>5. CASE m \notin changed /\ m = n
    <3>1. ReadType(j, m) = Get(after, m)
      BY <1>3, <1>4, <2>5 DEF ReadType, Get
    <3> QED BY <2>2, <2>5, <3>1
  <2>6. CASE m \in changed
    <3>1. ReadType(e, m) = Get(e, m) /\ ReadType(j, m) = Join(Get(e, m), Get(after, m))
      BY <1>1, <1>3, <2>6 DEF ReadType, Get
    <3> QED BY <2>1, <2>2, <2>3, <3>1, JoinLaw
  <2> QED BY <2>4, <2>5, <2>6
<1>6. \A m \in Name : FactHolds(j, st2, m)
  <2> SUFFICES ASSUME NEW m \in Name
               PROVE  FactHolds(j, st2, m)
    OBVIOUS
  <2>1. FactHolds(e, st, m) /\ FactHolds(after, st2, m)
    BY DEF Fits, st2
  <2>2. CASE m # n
    BY <1>0, <1>3, <2>1, <2>2 DEF FactHolds
  <2>3. CASE m = n
    BY <1>3, <1>4, <2>1, <2>3 DEF FactHolds
  <2> QED BY <2>2, <2>3
<1>7. \A m \in Name : AliasHolds(j.alias[m], st2, m)
  <2> SUFFICES ASSUME NEW m \in Name, j.alias[m] # Absent
               PROVE  AliasHolds(j.alias[m], st2, m)
    BY DEF AliasHolds
  <2>1. m \notin changed /\ j.alias[m] = e.alias[m]
    BY <1>3
  <2>2. CASE m = n
    <3>1. AliasHolds(after.alias[n], st2, n)
      BY DEF Fits, st2
    <3> QED BY <1>4, <2>1, <2>2, <3>1
  <2>3. CASE m # n
    <3> DEFINE source == e.alias[m].source
               expected == e.alias[m].expected
    <3>1. /\ AliasHolds(e.alias[m], st, m) /\ source \in Name /\ expected \in Class \union {Absent}
          /\ e.alias[m] # Absent
      BY <1>0, <2>1, AliasParts DEF Fits
    <3>2. Alike(st[source], st2[source])
      BY <1>0, <3>1 DEF Alike
    <3> HIDE DEF source, expected
    <3>3. st2[m] = st[m]
      BY <1>0, <2>3
    <3> QED BY <2>1, <3>1, <3>2, <3>3 DEF AliasHolds, Alike, source, expected
  <2> QED BY <2>2, <2>3
<1>8. \A m \in Name : ShapeFits(j.shape[m], st2[m])
  <2>1. \A m \in Name : ShapeFits(e.shape[m], st[m])
    BY DEF Fits
  <2>2. \A m \in Name : ShapeFits(after.shape[m], st2[m])
    BY DEF Fits, st2
  <2>3. \A v : ShapeFits(Absent, v)
    BY DEF ShapeFits
  <2> QED BY <1>0, <1>3, <1>4, <2>1, <2>2, <2>3
<1>9. UnboundAreNil(j, st2)
  BY <1>0, <1>3 DEF Fits, UnboundAreNil
<1> QED BY <1>2, <1>3, <1>5, <1>6, <1>7, <1>8, <1>9 DEF Fits, st2

(* What a block starts with is right when what stands before it is.                             *)
LEMMA CapturedFits ==
    ASSUME NEW e, NEW st \in [Name -> Value], NEW g, Fits(e, st, g), NEW n \in Name \ Ivar,
           Contains(e, n), n \notin g
    PROVE  LET f == WidenCapturedTruthiness(e, n)
           IN  /\ Fits(f, st, g)
               /\ f.alias = e.alias /\ f.responds = e.responds /\ f.shape = e.shape
               /\ f.openArray = e.openArray
               /\ \A m \in Name : Contains(f, m) <=> Contains(e, m)
               /\ Get(f, n) \in {Get(e, n), BoolType}
<1> DEFINE t == IF e.locals[n] \in Literals THEN BoolType ELSE e.locals[n]
           f == WidenCapturedTruthiness(e, n)
<1>1. Typed(e) /\ e.locals[n] \in Type /\ Get(e, n) = e.locals[n]
  BY DEF Fits, Typed, Environment, Contains, Get
<1>2. t \in Type /\ t # Absent
  BY <1>1, ConstantTypes, AbsentAssumption
<1>3. Describes(st[n], t)
  <2>1. Describes(st[n], e.locals[n])
    BY <1>1 DEF Fits, Described, ReadType
  <2> QED BY <2>1, BasicLaw
<1>4. /\ f.locals = [e.locals EXCEPT ![n] = t] /\ f.truthiness = [e.truthiness EXCEPT ![n] = Absent]
      /\ f.alias = e.alias /\ f.responds = e.responds /\ f.shape = e.shape
      /\ f.openArray = e.openArray /\ f.nonempty = e.nonempty
  BY <1>1 DEF WidenCapturedTruthiness, SetKnownTruthiness, Retype, Typed, Environment
<1>5. Typed(f)
  <2>1. f = SetKnownTruthiness(Retype(e, n, t), n, Absent)
    BY DEF WidenCapturedTruthiness
  <2>2. Typed(Retype(e, n, t))
    <3>1. Within(e, Retype(e, n, t), {n}, {})
      BY <1>1, <1>2, RetypeWithin
    <3> QED BY <3>1 DEF Within
  <2>3. Within(Retype(e, n, t), SetKnownTruthiness(Retype(e, n, t), n, Absent), {n}, {})
    BY <2>2, TruthinessWithin
  <2> QED BY <2>1, <2>3 DEF Within
<1>6. Get(f, n) \in {Get(e, n), BoolType}
  BY <1>1, <1>2, <1>4 DEF Get, Contains, Typed, Environment
<1> HIDE DEF f, t
<1>7. /\ \A m \in Name : Contains(f, m) <=> Contains(e, m)
      /\ f.locals[n] = t /\ \A m \in Name : m # n => f.locals[m] = e.locals[m]
  BY <1>1, <1>2, <1>4 DEF Contains, Typed, Environment
<1>8. Described(f, st, g)
  BY <1>2, <1>3, <1>7 DEF Fits, Described, ReadType, Get, Contains
<1>9. \A m \in Name : FactHolds(f, st, m)
  <2>1. \A m \in Name : FactHolds(e, st, m)
    BY DEF Fits
  <2> QED BY <1>1, <1>4, <2>1 DEF FactHolds, Typed, Environment
<1>10. UnboundAreNil(f, st)
  BY <1>7 DEF Fits, UnboundAreNil
<1>11. Fits(f, st, g)
  BY <1>4, <1>5, <1>8, <1>9, <1>10 DEF Fits
<1> QED BY <1>4, <1>6, <1>7, <1>11 DEF f

(* Booleans are no hashes: what the exclusions ask before a block they ask inside it.           *)
LEMMA CapturedKeeps ==
    ASSUME NEW e, NEW st \in [Name -> Value], NEW g, Fits(e, st, g), NEW s, IsStatement(s),
           Accepted(Captured(e, s), st, g, s), KeepsAll(e, st, s)
    PROVE  /\ Fits(Captured(e, s), st, g)
           /\ KeepsAll(Captured(e, s), st, s)
           /\ s.inBlock => /\ Contains(e, s.name) /\ s.name \in Name \ Ivar /\ s.name \notin g
                           /\ s.kind # "skip"
<1> DEFINE f == Captured(e, s)
           n == s.name
<1>1. CASE ~ s.inBlock \/ s.kind = "push"
  <2>1. f = e
    BY <1>1 DEF Captured
  <2>2. s.inBlock => Contains(e, s.name) /\ s.name \in Name \ Ivar /\ s.name \notin g /\ s.kind # "skip"
    <3>1. s.inBlock => s.kind = "push"
      BY <1>1
    <3> QED BY <2>1, <3>1 DEF Accepted, IsStatement
  <2> QED BY <2>1, <2>2
<1>2. CASE s.inBlock /\ s.kind # "push"
  <2>1. f = WidenCapturedTruthiness(e, n)
    BY <1>2 DEF Captured
  <2>2. n \in Name \ Ivar /\ s.kind \in {"assign", "logical", "write"}
    BY <1>2 DEF IsStatement
  <2>3. Contains(f, n) /\ n \notin g
    BY <1>2 DEF Accepted
  <2>4. Contains(e, n)
    <3>1. f.locals = [e.locals EXCEPT ![n] = IF e.locals[n] \in Literals THEN BoolType ELSE e.locals[n]]
      BY <2>1, <2>2 DEF WidenCapturedTruthiness, SetKnownTruthiness, Retype, Fits, Typed, Environment
    <3>2. Absent \notin Literals
      BY ConstantTypes, AbsentAssumption
    <3> QED BY <2>2, <2>3, <3>1, <3>2 DEF Contains, Fits, Typed, Environment
  <2>5. /\ Fits(f, st, g)
        /\ f.alias = e.alias /\ f.responds = e.responds /\ f.shape = e.shape
        /\ f.openArray = e.openArray
        /\ \A m \in Name : Contains(f, m) <=> Contains(e, m)
        /\ Get(f, n) \in {Get(e, n), BoolType}
    BY <2>1, <2>2, <2>3, <2>4, CapturedFits
  <2>6. HashValueOf(BoolType) = Absent
    <3>1. TrueValue \in Value /\ ~ IsHash(TrueValue) /\ Describes(TrueValue, BoolType) /\ BoolType \in Type
      BY ValueAssumption, ScalarsAreValues, BasicLaw, ConstantTypes
    <3> QED BY <3>1, HashLaw
  <2> HIDE DEF f
  <2>7. s.kind = "write" => Get(f, n) = Get(e, n)
    <3>1. s.kind = "write" => HashValueOf(Get(f, n)) # Absent
      BY DEF Accepted, f
    <3> QED BY <2>5, <2>6, <3>1
  <2>8. KeepsOperand(s) /\ KeepsAliases(f, s) /\ KeepsResponds(f, s)
    BY <2>5 DEF KeepsAll, KeepsAliases, KeepsResponds
  <2>9. KeepsRefinements(f, s)
    <3>1. \A c : Refined(e, c) => Refined(f, c)
      BY <2>5, NameAssumption DEF Refined
    <3> QED BY <3>1 DEF KeepsAll, KeepsRefinements
  <2>10. KeepsPlaceholder(f, st, s) /\ KeepsAggregate(f, s)
    BY <1>2, <2>5, <2>7 DEF KeepsAll, KeepsPlaceholder, KeepsAggregate
  <2> QED BY <1>2, <2>2, <2>3, <2>4, <2>5, <2>8, <2>9, <2>10 DEF f, KeepsAll
<1> QED BY <1>1, <1>2

(* A statement keeps the environment right about the store it leaves, in and out of blocks. *)
LEMMA ExecuteFits ==
    ASSUME NEW e, NEW st \in [Name -> Value], NEW g, Fits(e, st, g), NEW s, IsStatement(s),
           Accepted(Captured(e, s), st, g, s), KeepsAll(e, st, s), NEW st2 \in Run(st, s)
    PROVE  Fits(Execute(e, s), st2, GuessAfter(g, s)) /\ st2 \in [Name -> Value]
<1> DEFINE f == Captured(e, s)
           after == Simple(f, s)
           n == s.name
           g2 == GuessAfter(g, s)
<1>1. /\ Fits(f, st, g) /\ KeepsAll(f, st, s) /\ Accepted(f, st, g, s)
      /\ s.inBlock => /\ Contains(e, n) /\ n \in Name \ Ivar /\ n \notin g /\ s.kind # "skip"
  BY CapturedKeeps
<1>2. st2 \in RunSimple(st, s) => Fits(after, st2, g2) /\ st2 \in [Name -> Value]
  <2> HIDE DEF f
  <2> QED BY <1>1, SimpleFits
<1>3. CASE ~ s.inBlock
  <2>1. Execute(e, s) = after
    BY <1>3 DEF Execute, AfterBody
  <2>2. st2 \in RunSimple(st, s)
    BY <1>3 DEF Run
  <2> QED BY <1>2, <2>1, <2>2
<1>4. CASE s.inBlock
  <2>1. Execute(e, s) = Block(e, after)
    BY <1>4 DEF Execute, AfterBody
  <2>2. Typed(after)
    <3> HIDE DEF f
    <3>1. Typed(f) /\ Runnable(f, s)
      BY <1>1, AcceptedRuns DEF Fits
    <3> QED BY <3>1, SimpleTyped
  <2>3. \A m \in g : m \in g2
    BY <1>1, <1>4, GuessesKept
  <2> HIDE DEF after, g2
  <2>4. CASE st2 = st
    <3>1. Fits(Block(e, after), st, g)
      BY <2>2, BlockKeeps
    <3>2. Fits(Block(e, after), st, g2)
      BY <2>3, <3>1, FitsMore
    <3> QED BY <2>1, <2>4, <3>2 DEF g2
  <2>5. CASE st2 \in RunSimple(st, s) /\ st2 # st
    <3> DEFINE w == st2[n]
    <3>1. n \in Name \ Ivar /\ Contains(e, n) /\ s.kind \in {"assign", "logical", "push", "write"}
      BY <1>1, <1>4 DEF IsStatement
    <3>2. Fits(after, st2, g2) /\ st2 \in [Name -> Value]
      BY <1>2, <2>5
    <3>3. st2 = [st EXCEPT ![n] = w]
      BY <2>5, <3>1, <3>2 DEF RunSimple
    <3>4. n \notin e.responds
      <4>1. CASE Assigns(s)
        BY <1>4, <3>1, <4>1 DEF KeepsAll, KeepsResponds, Writes
      <4>2. CASE ~ Assigns(s)
        <5>1. IsArray(st[n]) \/ IsHash(st[n])
          BY <1>1, <3>1, <4>2 DEF Assigns, Accepted
        <5>2. FactHolds(e, st, n)
          BY <3>1 DEF Fits
        <5> QED BY <5>1, <5>2, Containers DEF FactHolds
      <4> QED BY <4>1, <4>2
    <3>5. \/ Alike(st[n], w)
          \/ \A m \in Name : e.alias[m] # Absent => e.alias[m].source # n
      <4>1. CASE Assigns(s)
        BY <4>1 DEF KeepsAll, KeepsAliases, Writes
      <4>2. CASE s.kind = "push"
        <5>1. IsArray(st[n]) /\ IsArray(w)
          BY <1>1, <2>5, <3>1, <4>2 DEF Accepted, RunSimple, ArrayValue, IsArray
        <5> QED BY <3>1, <3>2, <5>1, Containers, ContainerLaw DEF Alike, Truthy
      <4>3. CASE s.kind = "write"
        <5>1. IsHash(st[n]) /\ IsHash(w)
          BY <1>1, <2>5, <3>1, <4>3 DEF Accepted, RunSimple, HashValue, IsHash
        <5> QED BY <3>1, <3>2, <5>1, Containers, ContainerLaw DEF Alike, Truthy
      <4> QED BY <3>1, <4>1, <4>2, <4>3 DEF Assigns
    <3> HIDE DEF w
    <3>6. w \in Value /\ Fits(after, [st EXCEPT ![n] = w], g2)
      BY <3>1, <3>2, <3>3 DEF w
    <3>7. Fits(Block(e, after), [st EXCEPT ![n] = w], g2)
      BY <2>3, <3>1, <3>4, <3>5, <3>6, BlockRuns
    <3> QED BY <2>1, <3>2, <3>3, <3>7 DEF g2
  <2> QED BY <1>4, <2>4, <2>5 DEF Run
<1> QED BY <1>3, <1>4

-----------------------------------------------------------------------------
(* The steps.                                                              *)

(* The invariant holds where a body begins. *)
LEMMA InitIInv == Init => IInv
<1> SUFFICES ASSUME Init PROVE IInv
  OBVIOUS
<1>1. PICK start \in Families[family].initial :
          env = start.env /\ store = start.store /\ guess = start.guess
  BY DEF Init
<1>2. family \in DOMAIN Families /\ saved = Absent /\ lost = FALSE
  BY DEF Init
<1>3. /\ start.store \in [Name -> Value] /\ start.guess \subseteq Name
      /\ Fits(start.env, start.store, start.guess)
  BY <1>2, BodyAssumption
<1> QED BY <1>1, <1>2, <1>3 DEF IInv, SavedTyped

(* A statement keeps it. *)
LEMMA DoIInv ==
    ASSUME Shapes \subseteq Excluded, IInv, NEW s, IsStatement(s), Do(s)
    PROVE  IInv'
<1>1. KeepsAll(env, store, s)
  BY DEF Do, Kept, KeepsAll, Shapes
<1>2. /\ store \in [Name -> Value] /\ guess \subseteq Name /\ Fits(env, store, guess)
      /\ SavedTyped /\ lost = FALSE /\ family \in DOMAIN Families
  BY DEF IInv
<1>3. /\ Accepted(Captured(env, s), store, guess, s) /\ env' = Execute(env, s)
      /\ store' \in Run(store, s) /\ guess' = GuessAfter(guess, s)
      /\ saved' = saved /\ lost' = lost /\ family' = family
  BY DEF Do, Step
<1>4. Fits(Execute(env, s), store', guess') /\ store' \in [Name -> Value]
  BY <1>1, <1>2, <1>3, ExecuteFits
<1>5. guess' \subseteq Name
  BY <1>2, <1>3 DEF GuessAfter, Assigns, IsStatement
<1>6. Fits(env', store', guess')
  BY <1>3, <1>4
<1>7. SavedTyped'
  BY <1>2, <1>3 DEF SavedTyped
<1> QED BY <1>2, <1>3, <1>4, <1>5, <1>6, <1>7 DEF IInv

(* The arm that is not taken. *)
LEMMA ArmTyped ==
    ASSUME NEW e, Typed(e), NEW g \in SUBSET Name, NEW s,
           \/ s.kind = "skip"
           \/ IsStatement(s) /\ s.kind = "assign" /\ s.value.kind = "literal"
    PROVE  Typed(Arm(e, g, s).env) /\ Arm(e, g, s).guess \subseteq Name
<1>1. CASE s.kind = "skip"
  BY <1>1 DEF Arm, GuessAfter, Assigns
<1>2. CASE s.kind # "skip"
  <2> DEFINE x == s.value
             type == LiteralType(x.value)
             n == s.name
  <2>1. n \in Name /\ IsExpression(x) /\ x.value \in Value
    BY <1>2 DEF IsStatement, IsExpression
  <2>2. type \in Type
    BY <2>1, ConstantTypes
  <2>3. Arm(e, g, s).env = Write(e, n, x, type, FALSE) /\ Arm(e, g, s).guess = GuessAfter(g, s)
    BY <1>2 DEF Arm
  <2>4. GuessAfter(g, s) \subseteq Name
    BY <2>1 DEF GuessAfter
  <2> HIDE DEF x, type, n
  <2>5. Typed(Write(e, n, x, type, FALSE))
    BY <2>1, <2>2, WriteTypes
  <2> QED BY <2>3, <2>4, <2>5
<1> QED BY <1>1, <1>2

(* A branch keeps it: the store takes a way that is open, and its environment is right on it. *)
LEMMA BranchIInv ==
    ASSUME Shapes \subseteq Excluded, IInv, NEW c, IsCondition(c), NEW leaves \in BOOLEAN,
           NEW s, s.kind = "skip" \/ (IsStatement(s) /\ s.kind = "assign" /\ s.value.kind = "literal"),
           Branch(c, s, leaves)
    PROVE  IInv'
<1> DEFINE after == Evaluate(env, c)
           left == EvaluateAtom(env, c.left)
           reach == Reachability(after.env, c, after.type)
<1>1. /\ store \in [Name -> Value] /\ guess \subseteq Name /\ Fits(env, store, guess) /\ Typed(env)
      /\ SavedTyped /\ lost = FALSE /\ family \in DOMAIN Families
  BY DEF IInv, Fits
<1>2. c.kind = "atom" \/ Refined(env, c)
  BY DEF Branch, Shapes
<1>3. store' = store /\ guess' = guess /\ family' = family
  BY DEF Branch, Step
<1>4. PICK o \in Outcomes(store, c) :
          LET d == Truthy(o.value)
          IN  IF LeftAlive(c, left, o) /\ Way(reach, d)
              THEN Take(d, c, s, leaves \/ ~ Way(reach, ~ d), after.env,
                        NarrowCondition(after.env, c, ~ d))
              ELSE Trusted(env, guess, c) /\ Lose
  BY DEF Branch
<1> DEFINE d == Truthy(o.value)
           other == NarrowCondition(after.env, c, ~ d)
<1>5. d \in BOOLEAN /\ (~ d) \in BOOLEAN
  BY DEF Truthy
<1>6. Typed(after.env) /\ \A m \in Ivar : Contains(env, m) => Contains(after.env, m)
  <2>1. Within(env, after.env, {c.left.name, c.right.name}, {c.left.name, c.right.name})
    BY <1>1, EvaluateWithin
  <2> QED BY <2>1 DEF Within
<1>7. c.kind = "atom" \/ Refined(after.env, c)
  BY <1>2, <1>6 DEF Refined
<1> HIDE DEF d, after, left, reach
<1>8. CASE LeftAlive(c, left, o) /\ Way(reach, d)
  <2>1. Take(d, c, s, leaves \/ ~ Way(reach, ~ d), after.env, other)
    BY <1>4, <1>8 DEF d
  <2>2. Fits(after.env, store, guess)
    BY <1>1, <1>2, <1>8, EvaluateFits DEF left, after
  <2>3. Fits(NarrowCondition(after.env, c, d), store, guess)
    BY <1>1, <1>5, <1>7, <2>2, ConditionFits DEF d
  <2>4. Typed(other)
    <3>1. Within(after.env, other, {c.left.name, c.right.name}, {c.left.name, c.right.name})
      BY <1>5, <1>6, ConditionWithin
    <3> QED BY <3>1 DEF Within
  <2> HIDE DEF other
  <2>5. Typed(Arm(other, guess, s).env) /\ Arm(other, guess, s).guess \subseteq Name
    BY <1>1, <2>4, ArmTyped
  <2>6. /\ env' = NarrowCondition(after.env, c, d) /\ lost' = lost
        /\ saved' = Absent \/ saved' = Arm(other, guess, s)
    BY <2>1 DEF Take
  <2>7. SavedTyped'
    BY <2>5, <2>6 DEF SavedTyped
  <2>8. Fits(env', store', guess')
    BY <1>3, <2>3, <2>6
  <2> QED BY <1>1, <1>3, <2>6, <2>7, <2>8 DEF IInv
<1>9. CASE ~ (LeftAlive(c, left, o) /\ Way(reach, d))
  <2>1. Trusted(env, guess, c)
    BY <1>4, <1>9 DEF d
  <2>2. LeftAlive(c, left, o)
    BY <1>1, <2>1, LeftWay DEF left
  <2>3. Way(reach, d)
    BY <1>1, <1>2, <2>1, ReachabilitySound DEF reach, after, d
  <2> QED BY <1>9, <2>2, <2>3
<1> QED BY <1>8, <1>9

(* So does a case, whose arms are narrowed by rules of their own. *)
LEMMA CaseIInv ==
    ASSUME IInv, NEW n \in Name, NEW class \in Class, NEW leaves \in BOOLEAN, Case(n, class, leaves)
    PROVE  IInv'
<1> DEFINE current == ReadType(env, n)
           reach == IF n \notin Ivar /\ IsOpen(env, n) THEN BothWays
                    ELSE CaseReachability(current, class)
           d == Describes(store[n], class)
           arm(matches) == BindTested(env, n, IF matches THEN MeetPredicate(current, class)
                                              ELSE WithoutPredicate(current, class))
<1>1. /\ store \in [Name -> Value] /\ guess \subseteq Name /\ Fits(env, store, guess) /\ Typed(env)
      /\ SavedTyped /\ lost = FALSE /\ family \in DOMAIN Families
  BY DEF IInv, Fits
<1>2. /\ store' = store /\ guess' = guess /\ family' = family
      /\ IF Way(reach, d)
         THEN /\ env' = arm(d)
              /\ saved' = IF leaves \/ ~ Way(reach, ~ d) THEN Absent
                          ELSE [env |-> arm(~ d), guess |-> guess]
              /\ lost' = lost
         ELSE n \notin guess /\ Lose
  BY DEF Case, Step
<1>3. current \in Type /\ class \in Type /\ store[n] \in Value
  BY <1>1, ReadTypes, ConstantTypes DEF Typed
<1>4. /\ d \in BOOLEAN /\ (n \in guess \/ Describes(store[n], current))
      /\ MeetPredicate(current, class) \in Type /\ WithoutPredicate(current, class) \in Type
  BY <1>1, <1>3, BasicLaw, CombinedTypes DEF Fits, Described
<1> HIDE DEF current
<1>5. Way(reach, d) \/ n \in guess
  <2>1. CASE n \notin Ivar /\ IsOpen(env, n)
    BY <2>1, EitherWay
  <2>2. CASE ~ (n \notin Ivar /\ IsOpen(env, n)) /\ n \notin guess
    BY <1>3, <1>4, <2>2, ClassLaw DEF Way
  <2> QED BY <2>1, <2>2
<1> HIDE DEF reach
<1>6. /\ Way(reach, d) /\ env' = arm(d) /\ lost' = lost
      /\ saved' = Absent \/ saved' = [env |-> arm(~ d), guess |-> guess]
  BY <1>2, <1>5
<1>7. Fits(arm(d), store, guess)
  <2> DEFINE t == IF d THEN MeetPredicate(current, class) ELSE WithoutPredicate(current, class)
  <2>1. t \in Type /\ (n \in guess \/ Describes(store[n], t))
    BY <1>3, <1>4, ClassLaw
  <2> HIDE DEF t
  <2>2. Fits(BindTested(env, n, t), store, guess)
    BY <1>1, <2>1, TestedFits
  <2> QED BY <2>2 DEF t
<1>8. Typed(arm(~ d))
  <2> DEFINE t == IF ~ d THEN MeetPredicate(current, class) ELSE WithoutPredicate(current, class)
  <2>1. t \in Type
    BY <1>4
  <2> HIDE DEF t
  <2>2. Within(env, BindTested(env, n, t), {n}, {n})
    BY <1>1, <2>1, TestedWithin
  <2> QED BY <2>2 DEF t, Within
<1> HIDE DEF arm, d
<1>9. SavedTyped'
  BY <1>1, <1>6, <1>8 DEF SavedTyped
<1>10. Fits(env', store', guess')
  BY <1>2, <1>6, <1>7
<1> QED BY <1>1, <1>2, <1>6, <1>9, <1>10 DEF IInv

(* So does the end of a conditional, whichever arm comes first. *)
LEMMA MergeIInv ==
    ASSUME Shapes \subseteq Excluded, IInv, Merge
    PROVE  IInv'
<1>1. /\ store \in [Name -> Value] /\ guess \subseteq Name /\ Fits(env, store, guess)
      /\ SavedTyped /\ lost = FALSE /\ family \in DOMAIN Families
  BY DEF IInv
<1>2. /\ SameRefinements(env, saved.env) /\ saved # Absent
      /\ env' \in {JoinEnvironment(env, saved.env), JoinEnvironment(saved.env, env)}
      /\ guess' = guess \union saved.guess /\ saved' = Absent
      /\ store' = store /\ lost' = lost /\ family' = family
  BY DEF Merge, Shapes, Step
<1>3. Typed(saved.env) /\ saved.guess \subseteq Name
  BY <1>1, <1>2 DEF SavedTyped
<1>4. Fits(env', store, guess)
  BY <1>1, <1>2, <1>3, JoinFits
<1>5. Fits(env', store, guess')
  BY <1>2, <1>4, FitsMore
<1>6. SavedTyped'
  BY <1>2 DEF SavedTyped
<1>7. Fits(env', store', guess')
  BY <1>2, <1>5
<1> QED BY <1>1, <1>2, <1>3, <1>6, <1>7 DEF IInv

(* Every step keeps the invariant. *)
LEMMA NextIInv ==
    ASSUME Shapes \subseteq Excluded, IInv, [Next]_vars
    PROVE  IInv'
<1> DEFINE body == Families[family]
           assignments == {s \in body.statements : s.kind = "assign" /\ s.value.kind = "literal"
                                                    /\ ~ s.inBlock}
<1>1. /\ \A s \in body.statements : IsStatement(s)
      /\ \A c \in body.conditions : IsCondition(c)
      /\ \A k \in body.cases : k[1] \in Name /\ k[2] \in Class
  BY BodyAssumption DEF IInv
<1>2. CASE UNCHANGED vars
  <2>1. /\ family' = family /\ env' = env /\ store' = store /\ guess' = guess
        /\ saved' = saved /\ lost' = lost
    BY <1>2 DEF vars
  <2>2. SavedTyped' /\ Fits(env', store', guess')
    BY <2>1 DEF IInv, SavedTyped
  <2> QED BY <2>1, <2>2 DEF IInv
<1>3. CASE \E s \in body.statements : Do(s)
  BY <1>1, <1>3, DoIInv
<1>4. CASE \E c \in body.conditions, s \in assignments \union {Skip}, leaves \in BOOLEAN :
              Branch(c, s, leaves)
  <2>1. PICK c \in body.conditions, s \in assignments \union {Skip}, leaves \in BOOLEAN :
              Branch(c, s, leaves)
    BY <1>4
  <2>2. s.kind = "skip" \/ (IsStatement(s) /\ s.kind = "assign" /\ s.value.kind = "literal")
    BY <1>1 DEF Skip
  <2>3. IsCondition(c)
    BY <1>1
  <2> QED BY <2>1, <2>2, <2>3, BranchIInv
<1>5. CASE \E k \in body.cases, leaves \in BOOLEAN : Case(k[1], k[2], leaves)
  <2>1. PICK k \in body.cases, leaves \in BOOLEAN : Case(k[1], k[2], leaves)
    BY <1>5
  <2>2. k[1] \in Name /\ k[2] \in Class
    BY <1>1
  <2> QED BY <2>1, <2>2, CaseIInv
<1>6. CASE Merge
  BY <1>6, MergeIInv
<1>7. CASE Stop
  BY <1>2, <1>7 DEF Stop
<1> QED BY <1>2, <1>3, <1>4, <1>5, <1>6, <1>7 DEF Next

-----------------------------------------------------------------------------
(* Theorems.                                                               *)

(* Of every body without the six excluded shapes, with every algebra that obeys the laws:      *)
(* IInv is inductive.                                                                           *)
THEOREM EnvironmentInvariant ==
    ASSUME Shapes \subseteq Excluded
    PROVE  Spec => []IInv
<1>1. Init => IInv
  BY InitIInv
<1>2. IInv /\ [Next]_vars => IInv'
  BY NextIInv
<1> QED BY <1>1, <1>2, PTL DEF Spec

(* The type of a local or an instance variable describes its value on every path: narrowing,   *)
(* joining, blocks and appends exclude nothing that can be there.                               *)
THEOREM EnvironmentSound ==
    ASSUME Shapes \subseteq Excluded
    PROVE  Spec => []EnvironmentDescribes
<1>1. IInv => EnvironmentDescribes
  BY DEF IInv, EnvironmentDescribes, TypeOK, Fits, Typed, SavedTyped
<1> QED BY <1>1, EnvironmentInvariant, PTL

(* No fact outlives the value it was learned from. *)
THEOREM FactsSound ==
    ASSUME Shapes \subseteq Excluded
    PROVE  Spec => []FactsHold
<1>1. IInv => FactsHold
  BY DEF IInv, Fits, FactsHold
<1> QED BY <1>1, EnvironmentInvariant, PTL

(* A stored predicate still tells of its source what it told when it was stored. *)
THEOREM AliasesSound ==
    ASSUME Shapes \subseteq Excluded
    PROVE  Spec => []AliasesHold
<1>1. IInv => AliasesHold
  BY DEF IInv, Fits, AliasesHold
<1> QED BY <1>1, EnvironmentInvariant, PTL

(* What a shape says of a key is what the hash holds there. *)
THEOREM ShapesSound ==
    ASSUME Shapes \subseteq Excluded
    PROVE  Spec => []ShapesHold
<1>1. IInv => ShapesHold
  <2> SUFFICES ASSUME IInv, NEW n \in Name, env.shape[n] # Absent
               PROVE  ShapeHolds(env.shape[n], store[n])
    BY DEF ShapesHold, ShapeHolds
  <2>1. /\ env.shape[n] \in Shape /\ store[n] \in Value /\ ShapeFits(env.shape[n], store[n])
    BY DEF IInv, Fits, Typed, Environment, ShapeOrAbsent
  <2>2. IsHash(store[n])
    BY <2>1 DEF ShapeFits
  <2>3. \A k \in Key : Describes(ValueAt(store[n], k), ValueFor(env.shape[n], k))
    BY <2>1, ValueForSound
  <2> QED BY <2>2, <2>3 DEF ShapeHolds
<1> QED BY <1>1, EnvironmentInvariant, PTL

(* A branch that a program takes is never deemed unreachable. *)
THEOREM BranchesSound ==
    ASSUME Shapes \subseteq Excluded
    PROVE  Spec => []BranchAlive
<1>1. IInv => BranchAlive
  BY DEF IInv, BranchAlive
<1> QED BY <1>1, EnvironmentInvariant, PTL
=============================================================================
