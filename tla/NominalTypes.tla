---------------------------- MODULE NominalTypes ----------------------------
(***************************************************************************)
(* Types over a graph of classes: assignability, infer/type_system.rs, and *)
(* what a class test proves, infer/predicate_flow.rs and patterns.rs.      *)
(* ClassGraph is the table of declared classes; the names are resolved.    *)
(* Enumerable, Range and the types of class objects are left out.          *)
(***************************************************************************)
EXTENDS TypeLattice

CONSTANTS
    ClassGraph, \* [class name -> [parents : set of names, isModule : BOOLEAN]]
    ClassTests  \* the types the program tests for

\* nominal_subtype_names: what is reached over superclass, include and prepend.
RECURSIVE Reaches(_, _)
Reaches(names, visited) ==
    IF names \subseteq visited THEN visited
    ELSE Reaches(UNION {ClassGraph[n].parents : n \in (names \ visited) \intersect DOMAIN ClassGraph},
                 visited \union names)

NominalSubtype(name, expected) == expected \in Reaches({name}, {})

BuiltinNames ==
    [ Nil |-> "NilClass", True |-> "TrueClass", False |-> "FalseClass", Integer |-> "Integer",
      Float |-> "Float", String |-> "String", Symbol |-> "Symbol", Object |-> "Object" ]

IsNamed(t) == Head1(t) = "Named"

RECURSIVE IsAssignable(_, _)
IsAssignable(t, expected) ==
    LET AllFit(xs, ys) == Len(xs) = Len(ys) /\ \A i \in DOMAIN xs : IsAssignable(xs[i], ys[i])
        from == Head1(t)
        to == Head1(expected)
    IN  \/ TAny \in {t, expected} \/ IsSubtype(t, expected)
        \/ IF IsUnion(t)
           THEN \A m \in t[2] : IF IsUnion(expected) THEN \E x \in expected[2] : IsAssignable(m, x)
                                ELSE IsAssignable(m, expected)
           ELSE IF IsUnion(expected) THEN \E x \in expected[2] : IsAssignable(t, x)
           ELSE IF IsAll(expected) THEN \A x \in expected[2] : IsAssignable(t, x)
           ELSE IF IsAll(t) THEN \E m \in t[2] : IsAssignable(m, expected)
           ELSE \/ from = to /\ from \in {"Array", "Hash"} /\ AllFit(Tail(t), Tail(expected))
                \/ from = "Tuple" /\ to = "Tuple" /\ AllFit(t[2], expected[2])
                \/ from = "Tuple" /\ to = "Array"
                      /\ \A i \in DOMAIN t[2] : IsAssignable(t[2][i], expected[2])
                \/ from = "Array" /\ to = "Tuple"
                      /\ \A i \in DOMAIN expected[2] : IsAssignable(t[2], expected[2][i])
                \/ from = "Proc" /\ to = "Proc"
                      /\ AllFit(expected[2], t[2]) /\ IsAssignable(t[3], expected[3])
                \/ to = "Named" /\ from = expected[2] /\ from \in {"Array", "Hash"}
                      /\ (expected[3] = << >> \/ AllFit(Tail(t), expected[3]))
                \/ from = "Tuple" /\ to = "Named" /\ expected[2] = "Array"
                      /\ \A i \in DOMAIN t[2], j \in DOMAIN expected[3] :
                            IsAssignable(t[2][i], expected[3][j])
                \/ /\ from = "Named" /\ to = "Named" /\ NominalSubtype(t[2], expected[2])
                   /\ << >> \in {t[3], expected[3]} \/ AllFit(t[3], expected[3])
                \/ from = "Named" /\ to \in {"Array", "Hash", "Integer", "Float", "String", "Symbol"}
                      /\ NominalSubtype(t[2], to)
                \/ /\ to = "Named" /\ from \in DOMAIN BuiltinNames /\ expected[3] = << >>
                   /\ NominalSubtype(BuiltinNames[from], expected[2])

\* class_instance_name and known_nominal_name.
Known == {"Integer", "Float", "String", "Symbol", "Object"}
ClassName(t) == IF IsNamed(t) THEN t[2] ELSE IF Head1(t) \in Known THEN Head1(t) ELSE "none"
KnownName(n) == n \in DOMAIN ClassGraph \union Known
IsModule(n) == n \in DOMAIN ClassGraph /\ ClassGraph[n].isModule

\* DefinitelyDisjoint with one slip: that a class may include a module is not considered.
DisjointByName(t, expected) ==
    /\ KnownName(ClassName(t)) /\ KnownName(ClassName(expected))
    /\ ~ NominalSubtype(ClassName(t), ClassName(expected))
    /\ ~ NominalSubtype(ClassName(expected), ClassName(t))

\* Two classes, neither a module, of which neither inherits from the other.
DefinitelyDisjoint(t, expected) ==
    LET a == ClassName(t)
        b == ClassName(expected)
    IN  /\ KnownName(a) /\ KnownName(b) /\ ~ IsModule(a) /\ ~ IsModule(b)
        /\ ~ NominalSubtype(a, b) /\ ~ NominalSubtype(b, a)

EachMember(t, Op(_)) == UnionOf([i \in 1 .. Cardinality(t[2]) |-> Op(Canonical(t[2])[i])], << >>)

\* What is left of t when a test for the class succeeded.
RECURSIVE MeetPredicate(_, _)
MeetPredicate(t, expected) ==
    IF IsUnion(t) THEN EachMember(t, LAMBDA m : MeetPredicate(m, expected))
    ELSE CASE t \in {TAny, TAnything} \/ Head1(t) = "TypeVar" -> expected
           [] IsAssignable(t, expected)       -> t
           [] IsAssignable(expected, t)       -> expected
           [] DefinitelyDisjoint(t, expected) -> TNever
           [] OTHER                           -> Meet(t, expected)

\* WithoutPredicate with one slip: a class that has instances of the excluded one goes as a whole.
WithoutPredicateWider(t, excluded) ==
    IF IsAssignable(t, excluded) \/ (t # TAny /\ IsAssignable(excluded, t)) THEN TNever
    ELSE Without(t, excluded)

\* ... and when a case arm did not match.
RECURSIVE WithoutPredicate(_, _)
WithoutPredicate(t, excluded) ==
    IF IsUnion(t) THEN EachMember(t, LAMBDA m : WithoutPredicate(m, excluded))
    ELSE CASE t \in {TAny, TAnything}    -> t
           [] IsAssignable(t, excluded) -> TNever
           [] OTHER                     -> Without(t, excluded)

\* CaseReachability with one slip: what is not known to fit is taken not to match.
CaseReachabilityClosed(t, expected) ==
    IF IsAssignable(t, expected) THEN << TRUE, FALSE >>
    ELSE << IsAssignable(expected, t), TRUE >>

\* Whether a case arm for a class can match, and can fail to match.
RECURSIVE CaseReachability(_, _)
CaseReachability(t, expected) ==
    CASE TAny \in {t, expected} -> << TRUE, TRUE >>
      [] t # TAny /\ IsUnion(t) ->
            << \E m \in t[2] : CaseReachability(m, expected)[1],
               \E m \in t[2] : CaseReachability(m, expected)[2] >>
      [] OTHER -> IF IsAssignable(t, expected) THEN << TRUE, FALSE >>
                  ELSE << IsAssignable(expected, t) \/ ~ DefinitelyDisjoint(t, expected), TRUE >>

-----------------------------------------------------------------------------
(***************************************************************************)
(* Reference: Ruby objects of declared classes, beside the plain values    *)
(* and arrays of TypeLattice.                                              *)
(***************************************************************************)
Object(class) == << "object", class >>
Objects == {Object(c) : c \in {c \in DOMAIN ClassGraph : ~ ClassGraph[c].isModule}}

RECURSIVE IsOne(_, _)
IsOne(v, t) ==
    CASE IsUnion(t) -> \E m \in t[2] : IsOne(v, m)
      [] IsAll(t)   -> \A m \in t[2] : IsOne(v, m)
      [] Head1(t) = "Array" -> v[1] = "array" /\ \A i \in DOMAIN v[2] : IsOne(v[2][i], t[2])
      [] IsNamed(t) /\ t[2] \in DOMAIN ClassGraph -> v \in Objects /\ NominalSubtype(v[2], t[2])
      [] OTHER      -> Describes(t, v)

Instances(t) == {v \in Plain \union Objects \union Arrays(Objects) : IsOne(v, t)}

(***************************************************************************)
(* is_a? keeps every instance of the class, also of a subclass that mixes  *)
(* a module in (predicate_flow.rs:916-919).                                *)
(***************************************************************************)
TestKeepsInstances == LET here == Instances(summary) IN \A class \in ClassTests :
    here \intersect Instances(class) \subseteq Instances(MeetPredicate(summary, class))

(***************************************************************************)
(* ... and an arm that did not match keeps all the others, except where    *)
(* Any inside a container makes assignability gradual.                     *)
(***************************************************************************)
ElseKeepsOthers == LET here == Instances(summary) IN \A class \in ClassTests :
    ~ ContainsAny(summary) =>
        here \ Instances(class) \subseteq Instances(WithoutPredicate(summary, class))

\* A class test loses no value: what one arm drops, the other keeps.
TestSound == TestKeepsInstances /\ ElseKeepsOthers

\* A case arm that some value of the subject takes is not deemed dead, nor the arms behind it.
ArmsAlive == LET here == Instances(summary) IN \A class \in ClassTests : ~ ContainsAny(summary) =>
    LET reach == CaseReachability(summary, class)
    IN  /\ here \intersect Instances(class) # {} => reach[1]
        /\ here \ Instances(class) # {} => reach[2]
=============================================================================
