------------------------------ MODULE FlowLaws ------------------------------
(***************************************************************************)
(* The laws under which FlowNarrowing is correct for every program and     *)
(* every algebra of types, as assumptions on its constants, and the        *)
(* inductive invariant.  That the code's own algebra (types.rs,            *)
(* predicate_flow.rs) obeys the laws on joins, meets, removals, the parts  *)
(* of a condition, class tests and case arms is what JoinSound, CutSound,  *)
(* SubtypeSound, TestSound and ArmsAlive check of TypeLattice and          *)
(* NominalTypes.                                                           *)
(***************************************************************************)
EXTENDS FlowNarrowing

\* Values: the three that decide conditions, and what containers hold, are scalars.
ASSUME ValueAssumption ==
    /\ {NilValue, FalseValue, TrueValue} \subseteq Scalar
    /\ Element \subseteq Scalar
    /\ \A v \in Scalar : ~ IsArray(v) /\ ~ IsHash(v) /\ v # Missing

\* The operators of the algebra answer with types.
ASSUME ConstantTypes ==
    /\ {AnyType, NeverType, NilType, BoolType, IvarType, SymbolType} \subseteq Type
    /\ NilType \in Class /\ Class \union Literals \subseteq Type
    /\ \A v \in Value : LiteralType(v) \in Type
ASSUME PartTypes ==
    \A t \in Type :
        /\ TruthyPart(t) \in Type /\ FalsyPart(t) \in Type /\ ArrayOf(t) \in Type
        /\ HashOf(SymbolType, t) \in Type
        /\ {ElementOf(t), HashValueOf(t)} \subseteq Type \union {Absent}
ASSUME CombinedTypes ==
    \A s, t \in Type :
        {Join(s, t), Meet(s, t), Without(s, t), MeetPredicate(s, t), WithoutPredicate(s, t)}
            \subseteq Type

\* What the types without parts stand for; Any loses nothing by a removal.
ASSUME BasicLaw ==
    /\ \A v \in Value, t \in Type : Describes(v, t) \in BOOLEAN
    /\ \A v \in Value : /\ Describes(v, AnyType) /\ ~ Describes(v, NeverType)
                        /\ Describes(v, NilType) <=> v = NilValue
    /\ Describes(TrueValue, BoolType) /\ Describes(FalseValue, BoolType)
    /\ \A t \in Literals, v \in Value : Describes(v, t) => Describes(v, BoolType)
    /\ Without(AnyType, NilType) = AnyType

\* A join describes what either side does, a meet what both do (JoinSound, MeetSound).
ASSUME JoinLaw ==
    \A s, t \in Type, v \in Value :
        /\ Describes(v, s) \/ Describes(v, t) => Describes(v, Join(s, t))
        /\ Describes(v, s) /\ Describes(v, t) => Describes(v, Meet(s, t))

\* The two parts of a condition share out the values (BranchesCover).
ASSUME PartLaw ==
    \A t \in Type, v \in Value :
        Describes(v, t) => Describes(v, IF Truthy(v) THEN TruthyPart(t) ELSE FalsyPart(t))

\* The two arms of a class test and of a case share out the values, and an arm that a value
\* takes is reachable (WithoutSound, TestSound, ArmsAlive).
ASSUME ClassLaw ==
    \A t \in Type, class \in Class, v \in Value :
        Describes(v, t) =>
            IF Describes(v, class)
            THEN Describes(v, MeetPredicate(t, class)) /\ CaseReachability(t, class)[1]
            ELSE /\ Describes(v, Without(t, class)) /\ Describes(v, WithoutPredicate(t, class))
                 /\ CaseReachability(t, class)[2]

\* The class of a container does not depend on what it holds.
ASSUME ContainerLaw ==
    \A class \in Class, v, w \in Value :
        (IsArray(v) /\ IsArray(w)) \/ (IsHash(v) /\ IsHash(w)) =>
            (Describes(v, class) <=> Describes(w, class))

\* A type with an element type describes the arrays of its elements, and Array[t] those of t.
ASSUME ArrayLaw ==
    \A t \in Type, v \in Value :
        /\ ElementOf(t) # Absent =>
              (Describes(v, t) <=> IsArray(v) /\ \A x \in v[2] : Describes(x, ElementOf(t)))
        /\ IsArray(v) /\ (\A x \in v[2] : Describes(x, t)) => Describes(v, ArrayOf(t))

\* The same of hashes, whose keys are symbols.
ASSUME HashLaw ==
    \A t \in Type, v \in Value :
        LET holds(type) == \A k \in Key : v[2][k] = Missing \/ Describes(v[2][k], type)
        IN  /\ HashValueOf(t) # Absent => (Describes(v, t) <=> IsHash(v) /\ holds(HashValueOf(t)))
            /\ IsHash(v) /\ holds(t) => Describes(v, HashOf(SymbolType, t))

\* A literal is one of its type, and what is accepted where t is expected is a t (SubtypeSound).
ASSUME LiteralLaw ==
    /\ \A v \in Value : Describes(v, LiteralType(v))
    /\ \A v \in Element, t \in Type : IsAssignable(LiteralType(v), t) => Describes(v, t)

-----------------------------------------------------------------------------
(* The inductive invariant.                                                *)

\* Refinements are never open, and predicates are about locals.
Closed(e) ==
    /\ \A n \in Ivar : ~ IsOpen(e, n)
    /\ \A n \in Name : e.alias[n] # Absent => /\ e.alias[n].source \notin Ivar
                                              /\ e.alias[n].expected \in Class \union {Absent}

Typed(e) == e \in Environment /\ Closed(e)

\* A local that no path bound is nil.
UnboundAreNil(e, st) == \A n \in Name \ Ivar : Contains(e, n) \/ st[n] = NilValue

\* What a shape says of a key is said by one of its two parts: a join with the types of other
\* keys never has to be taken apart.
ShapeFits(shape, v) ==
    shape # Absent =>
        /\ IsHash(v)
        /\ \A k \in Key :
              \/ Describes(ValueAt(v, k), IF shape.entries[k] = Absent THEN NilType
                                         ELSE shape.entries[k])
              \/ shape.unknown # Absent /\ Describes(ValueAt(v, k), shape.unknown)

\* The environment is right about the store.
Fits(e, st, g) ==
    /\ Typed(e)
    /\ Described(e, st, g)
    /\ \A n \in Name : FactHolds(e, st, n)
    /\ \A n \in Name : AliasHolds(e.alias[n], st, n)
    /\ \A n \in Name : ShapeFits(e.shape[n], st[n])
    /\ UnboundAreNil(e, st)

\* Of the arm the store did not take nothing is known but that it is an environment.
SavedTyped == saved # Absent => Typed(saved.env) /\ saved.guess \subseteq Name

IInv ==
    /\ family \in DOMAIN Families
    /\ store \in [Name -> Value] /\ guess \subseteq Name
    /\ Fits(env, store, guess)
    /\ SavedTyped
    /\ lost = FALSE

-----------------------------------------------------------------------------
(* What the bodies are made of.                                            *)

Operations == {"read", "&.", "empty?", "respond_to?"} \union NilTests \union ClassTests

IsAtom(a) ==
    /\ a = [op |-> a.op, name |-> a.name, negated |-> a.negated, class |-> a.class]
    /\ a.op \in Operations /\ a.name \in Name /\ a.negated \in BOOLEAN
    /\ a.op \in ClassTests => a.class \in Class
    /\ a.op = "&." => ~ a.negated

IsCondition(c) == c.kind \in {"atom", "and", "or"} /\ IsAtom(c.left) /\ IsAtom(c.right)

IsExpression(x) ==
    \/ x.kind = "literal" /\ x.value \in Value
    \/ x.kind = "untyped"
    \/ x.kind = "condition" /\ IsCondition(x.cond)
    \/ x.kind = "key" /\ x.name \in Name /\ x.key \in Key
    \/ x.kind = "first" /\ x.name \in Name

\* What is written in a container is a literal; a block writes locals.
IsStatement(s) ==
    /\ s.inBlock \in BOOLEAN
    /\ \/ s.kind = "skip"
       \/ s.kind = "assign" /\ s.name \in Name /\ IsExpression(s.value)
       \/ /\ s.kind = "logical" /\ s.name \in Name /\ s.goesOn \in BOOLEAN
          /\ IsExpression(s.value) /\ s.value.kind \in {"literal", "untyped", "condition"}
       \/ s.kind = "push" /\ s.name \in Name \ Ivar /\ s.value.value \in Element
       \/ /\ s.kind = "write" /\ s.name \in Name \ Ivar /\ s.key \in Key
          /\ s.value.value \in Element
    /\ s.inBlock => s.kind # "skip" /\ s.name \notin Ivar

ASSUME BodyAssumption ==
    \A family1 \in DOMAIN Families :
        LET body == Families[family1]
        IN  /\ \A s \in body.statements : IsStatement(s)
            /\ \A c \in body.conditions : IsCondition(c)
            /\ \A k \in body.cases : k[1] \in Name /\ k[2] \in Class
            /\ \A start \in body.initial :
                  /\ start.store \in [Name -> Value] /\ start.guess \subseteq Name
                  /\ Fits(start.env, start.store, start.guess)
=============================================================================
