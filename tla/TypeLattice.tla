---------------------------- MODULE TypeLattice ----------------------------
(***************************************************************************)
(* The type algebra of src/types.rs: union canonicalisation, join, meet,   *)
(* removal, truthiness and the gradual subtype relation, over a summary    *)
(* slot that joins every type it is shown (a parameter slot, a return, a   *)
(* local at a CFG join, an ivar).                                          *)
(*                                                                         *)
(* A type is a tuple headed by its constructor's name.  The members of a   *)
(* Union or Intersection are a set: the code keeps them sorted by their    *)
(* display text, which Canonical restores where the order is used.         *)
(* BoundProc, AttachedClass and AttachedClassOf are left out: BoundProc    *)
(* repeats Proc with one more component, the other two only equal          *)
(* themselves, like a TypeVar.                                             *)
(***************************************************************************)
EXTENDS Integers, Sequences, SequencesExt, FiniteSets, FiniteSetsExt

CONSTANTS
    Universe,       \* the types a slot may be shown
    MaxObservations \* how many of them it is shown in one behaviour

ASSUME MaxObservations \in Nat

TAny == << "Any" >>
TAnything == << "Anything" >>
TNever == << "Never" >>
TNil == << "Nil" >>
TTrue == << "True" >>
TFalse == << "False" >>
TInteger == << "Integer" >>
TFloat == << "Float" >>
TString == << "String" >>
TSymbol == << "Symbol" >>
TObject == << "Object" >>
TNamed(name, args) == << "Named", name, args >>
TArray(element) == << "Array", element >>
THash(key, value) == << "Hash", key, value >>
TTuple(elements) == << "Tuple", elements >>
TProc(params, result) == << "Proc", params, result >>
TUnion(members) == << "Union", members >>
TAll(members) == << "Intersection", members >>
TNumeric == TNamed("Numeric", << >>)

Head1(t) == t[1]
IsUnion(t) == Head1(t) = "Union"
IsAll(t) == Head1(t) = "Intersection"

(***************************************************************************)
(* Display order of the members of one union or intersection: two members  *)
(* never share a constructor, arity and name, so the rank orders them.     *)
(***************************************************************************)
Ranks == << "Bar", "Base", "Box", "False", "Float", "Foo", "Integer", "Mod", "Nil", "Numeric",
            "Object", "String", "Sub", "Symbol", "TypeVar", "Intersection", "Union", "Proc", "Array",
            "Hash", "True", "Tuple" >>
Rank(t) == LET key == IF Head1(t) = "Named" THEN t[2] ELSE Head1(t)
           IN  100 * (CHOOSE i \in DOMAIN Ranks : Ranks[i] = key)
                 + (IF Head1(t) \in {"Tuple", "Proc"} THEN Len(t[2]) ELSE 0)
Canonical(members) == SetToSortSeq(members, LAMBDA s, t : Rank(s) < Rank(t))

RECURSIVE IsSubtype(_, _)

\* IsSubtype with one slip: the type arguments are not compared.
IsSubtypeByHead(t, expected) ==
    \/ t = TNever \/ TAny \in {t, expected} \/ expected \in {TAnything, TObject}
    \/ IF IsUnion(expected) THEN \E m \in expected[2] : IsSubtype(t, m)
       ELSE IF IsUnion(t) THEN \A m \in t[2] : IsSubtype(m, expected)
       ELSE Head1(t) = Head1(expected)

IsSubtype(t, expected) ==
    LET Covariant(xs, ys) ==
            Len(xs) = Len(ys) /\ \A i \in DOMAIN xs : IsSubtype(xs[i], ys[i])
        AllTo(xs, y) == \A i \in DOMAIN xs : IsSubtype(xs[i], y)
        to == Head1(expected)
        from == Head1(t)
    IN  \/ TNever = t \/ TAny \in {t, expected} \/ TAnything = expected \/ t = expected
        \/ /\ t \notin {TNever, TAny} /\ expected \notin {TAny, TAnything}
           /\ IF IsUnion(expected) THEN \E m \in expected[2] : IsSubtype(t, m)
              ELSE IF IsUnion(t) THEN \A m \in t[2] : IsSubtype(m, expected)
              ELSE IF IsAll(expected) THEN \A m \in expected[2] : IsSubtype(t, m)
              ELSE IF IsAll(t) THEN \E m \in t[2] : IsSubtype(m, expected)
              ELSE \/ expected = TObject /\ from \notin {"Anything", "TypeVar"}
                   \/ expected = TNumeric /\ t \in {TInteger, TFloat}
                   \/ expected = TNamed("Object", << >>) /\ from = "Named"
                   \/ from = "Array" /\ to = "Array" /\ IsSubtype(t[2], expected[2])
                   \/ from = "Hash" /\ to = "Hash" /\ Covariant(Tail(t), Tail(expected))
                   \/ from = "Tuple" /\ to = "Tuple" /\ Covariant(t[2], expected[2])
                   \/ from = "Tuple" /\ to = "Array" /\ AllTo(t[2], expected[2])
                   \/ /\ from = "Proc" /\ to = "Proc"
                      /\ Covariant(expected[2], t[2]) /\ IsSubtype(t[3], expected[3])
                   \/ /\ from = "Named" /\ to = "Named" /\ t[2] = expected[2]
                      /\ expected[3] = << >> \/ Covariant(t[3], expected[3])

\* A nilable Object stays visible as such: neither member makes the other redundant.
PreservesNilability(s, t) == {s, t} = {TNil, TObject}

\* Whether structural_join has an answer for the two members.
Joinable(s, t) ==
    /\ Head1(s) = Head1(t)
    /\ \/ Head1(s) \in {"Array", "Hash"}
       \/ Head1(s) \in {"Tuple", "Proc"} /\ Len(s[2]) = Len(t[2])
       \/ Head1(s) = "Named" /\ s[2] = t[2]
          /\ (s[3] = << >> \/ t[3] = << >> \/ Len(s[3]) = Len(t[3]))

RECURSIVE JoinType(_, _), UnionOf(_, _)

\* An empty array literal, Array[Any], is no evidence about a tuple's position.
JoinPosition(s, t) ==
    IF Head1(s) = "Array" /\ Head1(t) = "Array" /\ s[2] = TAny THEN t
    ELSE IF Head1(s) = "Array" /\ Head1(t) = "Array" /\ t[2] = TAny THEN s
    ELSE JoinType(s, t)

\* StructuralJoin with one slip: the first operand's type arguments win.
StructuralJoinFirst(s, t) == s

StructuralJoin(s, t) ==
    LET Each(xs, ys) == [i \in DOMAIN xs |-> JoinType(xs[i], ys[i])]
    IN  CASE Head1(s) = "Array" -> TArray(JoinType(s[2], t[2]))
          [] Head1(s) = "Hash"  -> THash(JoinType(s[2], t[2]), JoinType(s[3], t[3]))
          [] Head1(s) = "Proc"  -> TProc(Each(s[2], t[2]), JoinType(s[3], t[3]))
          [] Head1(s) = "Tuple" -> TTuple([i \in DOMAIN s[2] |-> JoinPosition(s[2][i], t[2][i])])
          [] Head1(s) = "Named" -> TNamed(s[2], IF << >> \in {s[3], t[3]} THEN << >>
                                                ELSE Each(s[3], t[3]))

\* Merge with one slip: structurally compatible members are left to subtyping.
MergeNothing(members, new) == << members, new >>

\* The inner loop of union: merge the new member with every member it is joinable with.
RECURSIVE Merge(_, _)
Merge(members, new) ==
    LET hits == {i \in DOMAIN members : Joinable(members[i], new)}
    IN  IF hits = {} THEN << members, new >>
        ELSE Merge(RemoveAt(members, Min(hits)), StructuralJoin(members[Min(hits)], new))

AddMember(members, type) ==
    LET merged == Merge(members, type)
        others == merged[1]
        new == merged[2]
        Redundant(s, t) == ~ PreservesNilability(s, t) /\ IsSubtype(s, t)
    IN  IF \E i \in DOMAIN others : Redundant(new, others[i]) THEN others
        ELSE Append(SelectSeq(others, LAMBDA m : ~ Redundant(m, new)), new)

\* Type::union: pending is a stack, so the last operand is looked at first.
UnionOf(pending, members) ==
    IF pending = << >>
    THEN CASE members = << >>     -> TNever
           [] Len(members) = 1 -> members[1]
           [] OTHER            -> TUnion(Range(members))
    ELSE LET type == Last(pending)
         IN  CASE type \in {TAny, TAnything} -> type
               [] type = TNever -> UnionOf(Front(pending), members)
               [] IsUnion(type) -> UnionOf(Front(pending) \o Canonical(type[2]), members)
               [] OTHER -> UnionOf(Front(pending), AddMember(members, type))

JoinType(s, t) ==
    CASE s = t -> s
      [] s = TNever -> t
      [] t = TNever -> s
      [] s = TAny -> IF t = TAnything THEN TAnything ELSE TAny
      [] t = TAny -> TAny
      [] TAnything \in {s, t} -> TAnything
      [] OTHER -> UnionOf(<< s, t >>, << >>)

-----------------------------------------------------------------------------
\* Disjoint with one slip: types that are neither sub- nor supertype count as disjoint.
DisjointUnlessEqual(s, t) == s # t

Disjoint(s, t) ==
    /\ s # t
    /\ {s, t} \subseteq {TNil, TTrue, TFalse, TInteger, TFloat, TString, TSymbol}

RECURSIVE IntersectionOf(_, _), Meet(_, _)
IntersectionOf(pending, members) ==
    IF pending = << >>
    THEN CASE members = << >>     -> TAny
           [] Len(members) = 1 -> members[1]
           [] OTHER            -> TAll(Range(members))
    ELSE LET type == Last(pending)
             rest == Front(pending)
         IN  CASE type = TNever -> TNever
               [] type \in {TAny, TAnything} -> IntersectionOf(rest, members)
               [] IsAll(type) -> IntersectionOf(rest \o Canonical(type[2]), members)
               [] \E m \in Range(members) : Disjoint(m, type) -> TNever
               [] \E m \in Range(members) : IsSubtype(m, type) -> IntersectionOf(rest, members)
               [] OTHER -> IntersectionOf(rest,
                      Append(SelectSeq(members, LAMBDA m : ~ IsSubtype(type, m)), type))

Meet(s, t) ==
    LET Each(xs, ys) == [i \in DOMAIN xs |-> Meet(xs[i], ys[i])]
        Members(u) == IF IsAll(u) THEN Canonical(u[2]) ELSE << u >>
        OfMembers(u, Part(_)) == UnionOf([i \in 1 .. Cardinality(u[2]) |-> Part(Canonical(u[2])[i])], << >>)
    IN  CASE TNever \in {s, t} -> TNever
          [] s \in {TAny, TAnything} -> t
          [] t \in {TAny, TAnything} \/ s = t -> s
          [] IsUnion(s) -> OfMembers(s, LAMBDA member : Meet(member, t))
          [] ~ IsUnion(s) /\ IsUnion(t) -> OfMembers(t, LAMBDA member : Meet(s, member))
          [] OTHER ->
             CASE IsSubtype(s, t) -> s
               [] ~ IsSubtype(s, t) /\ IsSubtype(t, s) -> t
               [] OTHER ->
                  IF Disjoint(s, t) THEN TNever
                  ELSE IF Head1(s) = Head1(t) /\ Head1(s) \in {"Array", "Hash"}
                  THEN << Head1(s) >> \o Each(Tail(s), Tail(t))
                  ELSE IF Head1(s) = Head1(t) /\ Head1(s) = "Tuple" /\ Len(s[2]) = Len(t[2])
                  THEN TTuple(Each(s[2], t[2]))
                  ELSE IF Head1(s) = Head1(t) /\ Head1(s) = "Proc" /\ Len(s[2]) = Len(t[2])
                  THEN TProc([i \in DOMAIN s[2] |-> JoinType(s[2][i], t[2][i])], Meet(s[3], t[3]))
                  ELSE IF IsAll(t) /\ ~ IsAll(s)
                  THEN IntersectionOf(Append(Members(t), s), << >>)
                  ELSE IntersectionOf(Members(s) \o Members(t), << >>)

-----------------------------------------------------------------------------
\* Without with one slip: a member that is wider than the removed type goes with it.
WithoutWider(t, excluded) ==
    IF IsUnion(t) THEN UnionOf(SelectSeq(Canonical(t[2]), LAMBDA m : ~ IsSubtype(excluded, m)), << >>)
    ELSE IF IsSubtype(excluded, t) THEN TNever ELSE t

Without(t, excluded) ==
    CASE t \in {TAny, TAnything} -> t
      [] IsUnion(t) -> UnionOf(SelectSeq(Canonical(t[2]), LAMBDA m : ~ IsSubtype(m, excluded)), << >>)
      [] OTHER -> IF IsSubtype(t, excluded) THEN TNever ELSE t

Falsy == TUnion({TFalse, TNil})
IsFalsy(t) == t \in {TNil, TFalse}

\* TruthyPart with one slip: the falsy union is matched the wrong way round.
TruthyPartNever(t) == IF IsUnion(t) THEN Without(t, TObject) ELSE Without(t, Falsy)

TruthyPart(t) == Without(t, Falsy)

FalsyPart(t) ==
    CASE t \in {TAny, TAnything} -> t
      [] IsUnion(t) -> UnionOf(SelectSeq(Canonical(t[2]), IsFalsy), << >>)
      [] OTHER -> IF IsFalsy(t) THEN t ELSE TNever

RECURSIVE ContainsAny(_)
ContainsAny(t) ==
    LET Some(ts) == \E i \in DOMAIN ts : ContainsAny(ts[i])
    IN  CASE t = TAny -> TRUE
          [] Head1(t) \in {"Array", "Hash"} -> Some(Tail(t))
          [] Head1(t) = "Tuple" -> Some(t[2])
          [] Head1(t) = "Proc"  -> Some(t[2]) \/ ContainsAny(t[3])
          [] Head1(t) = "Named" -> Some(t[3])
          [] IsUnion(t) \/ IsAll(t) -> \E m \in t[2] : ContainsAny(m)
          [] OTHER -> FALSE

\* RefineAny with one slip: the observed type replaces the contract.
RefineAnyReplace(t, actual) == IF ContainsAny(actual) THEN t ELSE actual

RECURSIVE RefineAny(_, _)
RefineAny(t, actual) ==
    LET Each(xs, ys) == [i \in DOMAIN xs |-> RefineAny(xs[i], ys[i])]
        Same == Head1(t) = Head1(actual)
    IN  IF ContainsAny(actual) THEN t
        ELSE IF t = TAny THEN actual
        ELSE IF Same /\ Head1(t) \in {"Array", "Hash"} THEN << t[1] >> \o Each(Tail(t), Tail(actual))
        ELSE IF Same /\ Head1(t) = "Tuple" /\ Len(t[2]) = Len(actual[2])
        THEN TTuple(Each(t[2], actual[2]))
        ELSE IF Same /\ Head1(t) = "Proc" /\ Len(t[2]) = Len(actual[2])
        THEN TProc(Each(t[2], actual[2]), RefineAny(t[3], actual[3]))
        ELSE IF Same /\ Head1(t) = "Named" /\ t[2] = actual[2] /\ Len(t[3]) = Len(actual[3])
        THEN TNamed(t[2], Each(t[3], actual[3]))
        ELSE t

-----------------------------------------------------------------------------
VARIABLES
    summary,    \* what the slot holds
    seen        \* the types it was shown

vars == << summary, seen >>

Init == summary = TNever /\ seen = {}

Observe(t) ==
    /\ Cardinality(seen \union {t}) <= MaxObservations
    /\ summary' = JoinType(summary, t)
    /\ seen' = seen \union {t}

Next == \E t \in Universe : Observe(t)

Spec == Init /\ [][Next]_vars

-----------------------------------------------------------------------------
(***************************************************************************)
(* Reference: the Ruby values a type describes, over witness values: one   *)
(* per primitive, a plain object, arrays of at most one such value, and    *)
(* one-element arrays of those.  Any, Anything and Object describe all.    *)
(***************************************************************************)
Plain == { << "nil" >>, << "true" >>, << "false" >>, << "integer" >>, << "float" >>,
           << "string" >>, << "symbol" >>, << "rational" >>, << "object" >> }
Arrays(vs) == { << "array", << >> >> } \union { << "array", << v >> >> : v \in vs }
Values == Plain \union Arrays(Plain \union Arrays(Plain))

Primitives == [ nil |-> TNil, true |-> TTrue, false |-> TFalse, integer |-> TInteger,
                float |-> TFloat, string |-> TString, symbol |-> TSymbol ]

RECURSIVE Describes(_, _)
Describes(t, v) ==
    CASE t \in {TAny, TAnything, TObject} -> TRUE
      [] IsUnion(t) -> \E m \in t[2] : Describes(m, v)
      [] IsAll(t)   -> \A m \in t[2] : Describes(m, v)
      [] t = TNumeric -> v[1] \in {"integer", "float", "rational"}
      [] Head1(t) = "Array" -> v[1] = "array" /\ \A i \in DOMAIN v[2] : Describes(t[2], v[2][i])
      [] Head1(t) = "Tuple" -> /\ v[1] = "array" /\ Len(v[2]) = Len(t[2])
                               /\ \A i \in DOMAIN v[2] : Describes(t[2][i], v[2][i])
      [] OTHER -> v[1] \in DOMAIN Primitives /\ Primitives[v[1]] = t

Denotes(t) == {v \in Values : Describes(t, v)}

-----------------------------------------------------------------------------
(***************************************************************************)
(* Showing the slot a type again changes nothing.                          *)
(***************************************************************************)
Absorbs == \A t \in seen : JoinType(summary, t) = summary /\ JoinType(t, summary) = summary

(***************************************************************************)
(* The slot does not depend on the order in which it was shown its types   *)
(* (docs/01-pipeline.md: traversal order must not decide the answer).      *)
(***************************************************************************)
OrderIndependent ==
    \A order \in SetToSeqs(seen) : FoldLeft(JoinType, TNever, order) = summary

(***************************************************************************)
(* A joined summary is stable: what was joined into it changes it no more, *)
(* and nothing depends on the order.  Every worklist of the checker needs  *)
(* this to stop, for its "changed" tests compare a joined summary with the *)
(* summary before.                                                         *)
(***************************************************************************)
JoinStable == Absorbs /\ OrderIndependent

(***************************************************************************)
(* Every value some observed type describes is described by the slot: a    *)
(* joined local or return loses no path (docs/02: "what type safely        *)
(* describes a value that may be an A or a B").                            *)
(***************************************************************************)
JoinSound == \A t \in seen : Denotes(t) \subseteq Denotes(summary)

\* Narrowing keeps every value both sides describe: a met path is not declared impossible.
MeetSound == LET here == Denotes(summary) IN \A t \in Universe :
    here \intersect Denotes(t) \subseteq Denotes(Meet(summary, t))

(***************************************************************************)
(* A negative branch loses only values the removed type describes.  Any    *)
(* inside a container makes subtyping gradual, which is no proof of that.  *)
(***************************************************************************)
WithoutSound == LET here == Denotes(summary) IN \A t \in Universe :
    (~ ContainsAny(summary) /\ ~ ContainsAny(t)) =>
        here \ Denotes(t) \subseteq Denotes(Without(summary, t))

(***************************************************************************)
(* The two branches of a condition share out every value of the slot: no   *)
(* branch that can run is typed as impossible.  FalsyCovers is claimed for *)
(* slots that never saw Object only, whose falsy part is Never.            *)
(***************************************************************************)
FalsyValues == { << "nil" >>, << "false" >> }
FalsyCovers == Denotes(summary) \intersect FalsyValues \subseteq Denotes(FalsyPart(summary))
BranchesCover ==
    /\ Denotes(summary) \ FalsyValues \subseteq Denotes(TruthyPart(summary))
    /\ TObject \notin {summary} \union seen => FalsyCovers

\* Subtyping agrees with the values, except where Any stands in for a proof.
SubtypeSound == LET here == Denotes(summary) IN \A t \in Universe :
    (~ ContainsAny(summary) /\ ~ ContainsAny(t) /\ IsSubtype(summary, t)) =>
        here \subseteq Denotes(t)

\* What is above: a join, and a type something was accepted for, describe every value below.
OrderSound == JoinSound /\ SubtypeSound

(***************************************************************************)
(* What is cut away: a meet, a removal and the two parts of a condition    *)
(* lose no value they have no reason to lose, so no branch that can run is *)
(* typed as impossible.                                                    *)
(***************************************************************************)
CutSound == MeetSound /\ WithoutSound /\ BranchesCover

(***************************************************************************)
(* An opted-in contract is only filled in where it was untyped: refining   *)
(* keeps every typed component, and evidence that is untyped itself never  *)
(* overwrites it (commit_inferred_returns relies on both).                 *)
(***************************************************************************)
RefineWithin == LET here == Denotes(summary) IN \A t \in Universe :
    LET refined == RefineAny(summary, t)
    IN  /\ Denotes(refined) \subseteq here
        /\ ~ ContainsAny(summary) => refined = summary
=============================================================================
