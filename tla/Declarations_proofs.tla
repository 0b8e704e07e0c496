------------------------ MODULE Declarations_proofs ------------------------
(***************************************************************************)
(* Every def is recorded under the class Ruby defines it in, in programs   *)
(* of any length with any classes, as long as they are Regular.            *)
(*                                                                         *)
(* The registrar restores what it put aside only when a body ends, so the  *)
(* invariant speaks of all bodies that are open: past is how the stacks    *)
(* will be when each of them is the innermost again.                       *)
(***************************************************************************)
EXTENDS Declarations, SequenceTheorems, WellFoundedInduction, TLAPS

-----------------------------------------------------------------------------
(* Sequences. *)

LEMMA FrontFacts ==
    ASSUME NEW S, NEW s \in Seq(S), s # << >>
    PROVE  /\ Front(s) \in Seq(S) /\ Len(Front(s)) = Len(s) - 1
           /\ \A i \in 1 .. Len(s) - 1 : Front(s)[i] = s[i]
           /\ Len(s) \in Nat \ {0} /\ Last(s) = s[Len(s)] /\ Last(s) \in S
  <1>1. Len(s) \in Nat /\ DOMAIN s = 1 .. Len(s) /\ Len(s) # 0
    OBVIOUS
  <1>2. Last(s) = s[Len(s)] /\ Last(s) \in S
    BY <1>1 DEF Last
  <1>3. Front(s) = SubSeq(s, 1, Len(s) - 1)
    BY DEF Front
  <1>4. Front(s) \in Seq(S) /\ Len(Front(s)) = Len(s) - 1
    BY <1>1, <1>3
  <1>5. \A i \in 1 .. Len(s) - 1 : Front(s)[i] = s[i]
    BY <1>1, <1>3
  <1> QED
    BY <1>1, <1>2, <1>4, <1>5

LEMMA AppendFacts ==
    ASSUME NEW S, NEW s \in Seq(S), NEW e \in S
    PROVE  /\ Append(s, e) \in Seq(S) /\ Len(Append(s, e)) = Len(s) + 1 /\ Append(s, e) # << >>
           /\ \A i \in 1 .. Len(s) : Append(s, e)[i] = s[i]
           /\ Append(s, e)[Len(s) + 1] = e /\ Last(Append(s, e)) = e /\ Front(Append(s, e)) = s
BY DEF Front, Last

LEMMA Associative == \A S : \A x, y, z \in Seq(S) : (x \o y) \o z = x \o (y \o z)
BY ConcatAssociative

LEMMA NameFacts ==
    ASSUME NEW p \in NamePaths
    PROVE  /\ p \in Seq(STRING) /\ p # << >> /\ Len(p) \in Nat /\ Len(p) >= 1
           /\ << Head(p) >> \in NamePaths /\ << Head(p) >> \in Seq(STRING) /\ Head(<< Head(p) >>) = Head(p)
           /\ Len(p) = 1 => p = << Head(p) >>
  <1>1. p \in Seq(STRING) /\ p # << >>
    BY DEF Path, NamePaths
  <1>2. Len(p) \in Nat /\ Len(p) >= 1 /\ Head(p) = p[1] /\ Head(p) \in STRING
    BY <1>1
  <1>3. << Head(p) >> \in NamePaths /\ << Head(p) >> \in Seq(STRING) /\ Head(<< Head(p) >>) = Head(p)
    BY <1>2 DEF Path, NamePaths
  <1>4. Len(p) = 1 => p = << Head(p) >>
    BY <1>1, <1>2
  <1> QED
    BY <1>1, <1>2, <1>3, <1>4

LEMMA OuterName ==
    ASSUME NEW p \in NamePaths, Len(p) > 1
    PROVE  /\ Front(p) \in NamePaths /\ Front(p) \in Seq(STRING) /\ Head(Front(p)) = Head(p)
           /\ << Last(p) >> \in Seq(STRING) /\ Front(p) \o << Last(p) >> = p
  <1>0. p \in Seq(STRING) /\ p # << >> /\ Len(p) \in Nat
    BY NameFacts
  <1>1. /\ Front(p) \in Seq(STRING) /\ Len(Front(p)) = Len(p) - 1 /\ Last(p) = p[Len(p)] /\ Last(p) \in STRING
        /\ \A i \in 1 .. Len(p) - 1 : Front(p)[i] = p[i]
    BY <1>0, FrontFacts
  <1>2. Front(p) # << >> /\ Front(p) \in NamePaths
    BY <1>0, <1>1 DEF NamePaths, Path
  <1>3. Head(Front(p)) = Head(p)
    BY <1>0, <1>1, <1>2
  <1>4. Front(p) \o << Last(p) >> = p
    <2>1. Front(p) \o << Last(p) >> \in Seq(STRING) /\ Len(Front(p) \o << Last(p) >>) = Len(p)
      BY <1>0, <1>1
    <2>2. \A i \in 1 .. Len(p) : (Front(p) \o << Last(p) >>)[i] = p[i]
      BY <1>0, <1>1
    <2> QED
      BY <1>0, <2>1, <2>2
  <1> QED
    BY <1>1, <1>2, <1>3, <1>4

LEMMA Absorbed == \A p \in NamePaths : << >> \o p = p
BY NameFacts

\* What precedes a path is given by what they are together.
LEMMA SamePrefix == \A c, d \in Path : \A p \in NamePaths : c \o << Head(p) >> = d \o << Head(p) >> => c = d
BY NameFacts, ConcatSimplifications DEF Path

LEMMA NoPrefix == \A c \in Path : \A p \in NamePaths : c \o p = p => c = << >>
BY NameFacts, ConcatSimplifications DEF Path

LEMMA Extended == \A c \in Path : \A p \in NamePaths : c \o p \in NamePaths
  <1> SUFFICES ASSUME NEW c \in Path, NEW p \in NamePaths PROVE c \o p \in NamePaths
    OBVIOUS
  <1>1. c \in Seq(STRING) /\ p \in Seq(STRING) /\ Len(p) >= 1 /\ Len(p) \in Nat
    BY NameFacts DEF Path
  <1>2. c \o p \in Seq(STRING) /\ c \o p # << >>
    BY <1>1
  <1> QED
    BY <1>2 DEF NamePaths, Path

LEMMA SplitAtEnd ==
    \A c \in Path : \A p \in NamePaths : Len(p) > 1 => (c \o Front(p)) \o << Last(p) >> = c \o p
  <1> SUFFICES ASSUME NEW c \in Path, NEW p \in NamePaths, Len(p) > 1
               PROVE  (c \o Front(p)) \o << Last(p) >> = c \o p
    OBVIOUS
  <1>1. Front(p) \in Seq(STRING) /\ << Last(p) >> \in Seq(STRING) /\ Front(p) \o << Last(p) >> = p
    BY OuterName
  <1>2. c \in Seq(STRING)
    BY DEF Path
  <1>3. (c \o Front(p)) \o << Last(p) >> = c \o (Front(p) \o << Last(p) >>)
    BY <1>1, <1>2, Associative
  <1> QED
    BY <1>1, <1>3

-----------------------------------------------------------------------------
(* The invariant. *)

RegistrarFields == {"classStack", "singletonStack", "dynamicStack", "visibilityStack", "overrides", "open"}
TableFields == {"methods", "definitions", "states", "annotations", "kinds", "aliases", "accessors",
                "structFields", "classes"}
WorldFields == {"scopes", "superclasses", "mixins", "structs", "members", "declared", "methods", "sigs",
                "comments", "contracts"}

Nodes == [kind : {"class"}, singletonStack : Seq(Path)] \union [kind : {"struct", "singleton", "block"}]
Scopes == [kind : {"class", "struct", "singleton", "block"}, cref : Path, owner : Path,
           singleton : BOOLEAN, visibility : MethodVisibilities]
Targets == [owner : Path, singleton : BOOLEAN]

Types ==
    /\ theme \in DOMAIN Themes
    /\ left \in 0 .. Themes[theme].length /\ file \in Themes[theme].files /\ registered \in BOOLEAN
    /\ DOMAIN registrar = RegistrarFields /\ DOMAIN tables = TableFields /\ DOMAIN world = WorldFields
    /\ registrar.visibilityStack \in Seq(MethodVisibilities) /\ registrar.open \in Seq(Nodes)
    /\ world.scopes \in Seq(Scopes)

\* The three stacks from which the owner of a def is read.
Stacks == [class : Seq(Path), singleton : Seq(Path), dynamic : Seq(Targets)]
Now(r) == [class |-> r.classStack, singleton |-> r.singletonStack, dynamic |-> r.dynamicStack]

\* The stacks say what Ruby's scope says.
Situated(s, scope) ==
    /\ scope.kind = "class" =>
          /\ s.singleton = << >> /\ s.dynamic = << >> /\ ~scope.singleton
          /\ LastOr(s.class, TopLevel) = scope.owner /\ scope.cref = scope.owner
    /\ scope.kind = "struct" =>
          /\ s.singleton = << >> /\ s.dynamic = << >> /\ ~scope.singleton
          /\ s.class # << >> /\ Last(s.class) = scope.owner
    /\ scope.kind = "singleton" =>
          /\ s.singleton = << scope.owner >> /\ s.dynamic = << >> /\ scope.singleton
          /\ s.class # << >> /\ Last(s.class) = scope.cref
    /\ scope.kind = "block" =>
          s.dynamic = << [owner |-> scope.owner, singleton |-> scope.singleton] >>

\* The end of the body leads from the stacks to those around it.
Around(outer, inner, node) ==
    CASE node.kind \in {"class", "struct"} ->
              /\ inner.class # << >> /\ outer.class = Front(inner.class)
              /\ outer.singleton = (IF node.kind = "class" THEN node.singletonStack ELSE inner.singleton)
              /\ outer.dynamic = inner.dynamic
      [] node.kind = "singleton" ->
              /\ outer.class = inner.class /\ outer.dynamic = inner.dynamic
              /\ inner.singleton # << >> /\ outer.singleton = Front(inner.singleton)
      [] OTHER ->
              /\ outer.class = inner.class /\ outer.singleton = inner.singleton
              /\ inner.dynamic # << >> /\ outer.dynamic = Front(inner.dynamic)

\* The classes that were open stay below those opened since, and each was opened by a body.
Layered(past) ==
    /\ past[1].class = << >>
    /\ \A i, j \in DOMAIN past : i <= j =>
          /\ Len(past[i].class) <= Len(past[j].class)
          /\ \A k \in DOMAIN past[i].class : past[j].class[k] = past[i].class[k]
    /\ \A k \in DOMAIN past[Len(past)].class : \E i \in DOMAIN past : Len(past[i].class) = k

Unwinds(past, scopes, open, known) ==
    /\ Len(past) = Len(scopes) /\ Len(past) = Len(open) + 1
    /\ Layered(past)
    /\ \A i \in DOMAIN past :
          /\ Situated(past[i], scopes[i])
          /\ Range(past[i].class) \subseteq known /\ Range(past[i].singleton) \subseteq known
    /\ \A i \in DOMAIN open :
          /\ open[i].kind = scopes[i + 1].kind
          /\ scopes[i].kind \in {"class", "singleton"}
          /\ Around(past[i], past[i + 1], open[i])

BodiesNest ==
    \E past \in Seq(Stacks) :
        /\ Unwinds(past, world.scopes, registrar.open, Known(tables))
        /\ past[Len(past)] = Now(registrar)

DefinitionsRecorded ==
    /\ tables.definitions = world.declared
    /\ DOMAIN tables.definitions = DOMAIN tables.kinds
    /\ \A o \in DOMAIN tables.definitions : tables.definitions[o] \in DOMAIN tables.methods

Inv ==
    /\ Types /\ BodiesNest /\ DefinitionsRecorded
    /\ Known(tables) = DOMAIN world.superclasses
    /\ Len(registrar.visibilityStack) = Len(registrar.open) - Len(registrar.dynamicStack)

-----------------------------------------------------------------------------
(* Names: what the stack of classes says and what Ruby's scopes say. *)

\* The scope a constant is found in, for every reference that begins with its name.
Base(w, name) ==
    LET having == {i \in DOMAIN w.scopes : w.scopes[i].cref \o << name >> \in DOMAIN w.superclasses}
    IN IF having = {} THEN << >> ELSE w.scopes[CHOOSE i \in having : \A j \in having : j <= i].cref

LEMMA GreatestMember ==
    ASSUME NEW n \in Nat, NEW S, S \subseteq 1 .. n, S # {}
    PROVE  /\ (CHOOSE i \in S : \A j \in S : j <= i) \in S
           /\ \A j \in S : j <= CHOOSE i \in S : \A k \in S : k <= i
  <1>1. \E i \in S : \A j \in S : j <= i
    <2> DEFINE R == OpToRel(<, Nat)
               Above == {n - i : i \in S}
    <2>1. IsWellFoundedOn(R, Nat)
      BY NatLessThanWellFounded
    <2>2. Above \subseteq Nat /\ Above # {}
      <3>1. PICK i \in S : TRUE
        OBVIOUS
      <3>2. n - i \in Above
        OBVIOUS
      <3>3. Above \subseteq Nat
        OBVIOUS
      <3> QED
        BY <3>2, <3>3
    <2>3. PICK a \in Above : \A b \in Above : ~(<< b, a >> \in R)
      <3> HIDE DEF R, Above
      <3> QED
        BY <2>1, <2>2, WFMin
    <2>4. PICK i \in S : a = n - i
      OBVIOUS
    <2>5. ASSUME NEW j \in S PROVE j <= i
      <3>1. n - j \in Above /\ n - j \in Nat /\ a \in Nat
        BY <2>2
      <3>2. ~(n - j < a)
        BY <2>3, <3>1 DEF OpToRel
      <3> QED
        BY <2>4, <3>1, <3>2
    <2> QED
      BY <2>5
  <1> QED
    BY <1>1

\* Wherever it is found, and in the innermost scope if that has it.
LEMMA LookupBase ==
    ASSUME world.scopes \in Seq(Scopes), world.scopes # << >>,
           NEW reference \in Reference, ~reference.absolute, NEW name, name = Head(reference.path)
    PROVE  /\ Base(world, name) \in Path
           /\ Lookup(world, reference) = Base(world, name) \o reference.path
           /\ Base(world, name) = << >> \/ Base(world, name) \o << name >> \in DOMAIN world.superclasses
           /\ Inner(world).cref \in Path
           /\ Inner(world).cref \o << name >> \in DOMAIN world.superclasses =>
                 Base(world, name) = Inner(world).cref
  <1> DEFINE having == {i \in DOMAIN world.scopes : world.scopes[i].cref \o << name >> \in DOMAIN world.superclasses}
             top == CHOOSE i \in having : \A j \in having : j <= i
  <1>1. /\ reference.path \in NamePaths /\ << >> \o reference.path = reference.path
    BY Absorbed DEF Reference
  <1>2. Len(world.scopes) \in Nat \ {0} /\ DOMAIN world.scopes = 1 .. Len(world.scopes)
    OBVIOUS
  <1>3. \A i \in DOMAIN world.scopes : world.scopes[i].cref \in Path
    <2>1. \A i \in DOMAIN world.scopes : world.scopes[i] \in Scopes
      BY <1>2
    <2> QED
      BY <2>1 DEF Scopes
  <1>4. having # {} => top \in having /\ \A j \in having : j <= top
    <2> HIDE DEF having
    <2>1. having \subseteq 1 .. Len(world.scopes)
      BY <1>2 DEF having
    <2> QED
      BY <1>2, <2>1, GreatestMember
  <1>5. Base(world, name) = IF having = {} THEN << >> ELSE world.scopes[top].cref
    BY DEF Base
  <1>6. Lookup(world, reference) = IF having = {} THEN reference.path ELSE world.scopes[top].cref \o reference.path
    BY DEF Lookup
  <1>7. Inner(world) = world.scopes[Len(world.scopes)]
    BY DEF Inner, Last
  <1>8. << >> \in Path
    BY DEF Path
  <1>9. Len(world.scopes) \in having => Base(world, name) = Inner(world).cref
    <2> HIDE DEF top
    <2>1. SUFFICES ASSUME Len(world.scopes) \in having PROVE Base(world, name) = Inner(world).cref
      OBVIOUS
    <2>2. top \in having /\ Len(world.scopes) <= top
      BY <1>4, <2>1
    <2>3. top = Len(world.scopes)
      BY <1>2, <2>2
    <2> QED
      BY <1>5, <1>7, <2>1, <2>3
  <1>10. having # {} => Base(world, name) \in Path /\ Base(world, name) \o << name >> \in DOMAIN world.superclasses
    <2> HIDE DEF top
    <2> QED
      BY <1>3, <1>4, <1>5
  <1>11. Inner(world).cref \in Path
    BY <1>2, <1>3, <1>7
  <1>12. Inner(world).cref \o << name >> \in DOMAIN world.superclasses => Len(world.scopes) \in having
    BY <1>2, <1>7
  <1>13. having = {} => Base(world, name) = << >>
    BY <1>5
  <1>14. Lookup(world, reference) = Base(world, name) \o reference.path
    BY <1>1, <1>5, <1>6
  <1> HIDE DEF having
  <1> QED
    BY <1>8, <1>9, <1>10, <1>11, <1>12, <1>13, <1>14

\* The full name of the class a statement opens is the one Ruby gives it.
LEMMA ScopeNameAgrees ==
    ASSUME world.scopes \in Seq(Scopes), world.scopes # << >>,
           NEW reference \in Reference, FoundInnermost(world, reference),
           NEW stack \in Seq(Path), LastOr(stack, TopLevel) = Inner(world).cref
    PROVE  ScopeName(stack, reference, DOMAIN world.superclasses) = Opened(world, reference)
  <1> DEFINE path == reference.path
             cref == Inner(world).cref
             known == DOMAIN world.superclasses
             base == Base(world, Head(path))
  <1>1. path \in NamePaths /\ reference.absolute \in BOOLEAN
    BY DEF Reference
  <1>2. stack # << >> => Last(stack) = cref
    BY DEF LastOr
  <1>3. stack = << >> => cref = << >>
    BY DEF LastOr, TopLevel
  <1>4. CASE reference.absolute
    BY <1>4 DEF ScopeName, Opened
  <1>5. CASE ~reference.absolute /\ Len(path) = 1
    <2>1. Opened(world, reference) = cref \o path
      BY <1>5 DEF Opened
    <2>2. << >> \o path = path
      BY <1>1, Absorbed
    <2> QED
      <3>1. ~(Len(path) > 1)
        BY <1>5
      <3>2. ScopeName(stack, reference, known) = IF stack = << >> THEN path ELSE Last(stack) \o path
        BY <1>5, <3>1 DEF ScopeName
      <3> QED
        BY <1>2, <1>3, <2>1, <2>2, <3>2
  <1>6. CASE ~reference.absolute /\ Len(path) # 1
    <2>1. Len(path) > 1
      <3>1. Len(path) \in Nat /\ Len(path) >= 1
        BY <1>1, NameFacts
      <3>2. Len(path) # 1
        BY <1>6
      <3>3. \A n \in Nat : n >= 1 /\ n # 1 => n > 1
        OBVIOUS
      <3> QED
        BY <3>1, <3>2, <3>3, Zenon
    <2>2. /\ base \in Path /\ cref \in Path
          /\ cref \o << Head(path) >> \in known => base = cref
          /\ base = << >> \/ base \o << Head(path) >> \in known
      BY <1>6, LookupBase
    <2>3. Opened(world, reference) = base \o path
      <3> DEFINE outer == [reference EXCEPT !.path = Front(@)]
      <3>1. outer \in Reference /\ ~outer.absolute /\ outer.path = Front(path) /\ Head(outer.path) = Head(path)
        BY <1>1, <1>6, <2>1, OuterName DEF Reference
      <3>2. Lookup(world, outer) = base \o Front(path)
        BY <3>1, LookupBase
      <3>3. Opened(world, reference) = Lookup(world, outer) \o << Last(path) >>
        BY <1>6 DEF Opened
      <3> QED
        BY <1>1, <2>1, <2>2, <3>2, <3>3, SplitAtEnd
    <2>4. base = << >> => base \o path = path
      BY <1>1, Absorbed
    <2>5. ScopeName(stack, reference, known) =
            IF stack = << >> THEN path
            ELSE IF IsPrefix(cref, path) \/ (cref \o << Head(path) >> \notin known /\ path \in known)
                 THEN path ELSE cref \o path
      BY <1>2, <1>6, <2>1 DEF ScopeName
    <2>6. ASSUME base \o path = path, path \in known
          PROVE  ScopeName(stack, reference, known) = path
      <3>1. base = << >>
        BY <1>1, <2>2, <2>6, NoPrefix
      <3>2. cref \o << Head(path) >> \in known => cref \o path = path
        BY <2>2, <2>6
      <3> QED
        BY <2>5, <2>6, <3>2
    <2>7. ASSUME Lookup(world, [reference EXCEPT !.path = << Head(@) >>]) = cref \o << Head(path) >>,
                 cref # TopLevel => ~IsPrefix(cref, path)
          PROVE  ScopeName(stack, reference, known) = base \o path
      <3> DEFINE first == [reference EXCEPT !.path = << Head(@) >>]
      <3>1. first \in Reference /\ ~first.absolute /\ first.path = << Head(path) >> /\ Head(first.path) = Head(path)
        BY <1>1, <1>6, NameFacts DEF Reference
      <3>2. Lookup(world, first) = base \o << Head(path) >>
        BY <3>1, LookupBase
      <3>3. base = cref
        BY <1>1, <2>2, <2>7, <3>2, SamePrefix
      <3>4. CASE cref = << >>
        BY <2>4, <2>5, <3>3, <3>4
      <3>5. CASE cref # << >>
        BY <1>3, <2>2, <2>5, <2>7, <3>3, <3>5 DEF TopLevel
      <3> QED
        BY <3>4, <3>5
    <2>8. ~Single(reference)
      BY <1>6 DEF Single
    <2> QED
      BY <2>3, <2>6, <2>7, <2>8 DEF FoundInnermost
  <1> QED
    BY <1>1, <1>4, <1>5, <1>6

\* A class that is named by one constant is the same for both.
LEMMA ReferenceAgrees ==
    ASSUME world.scopes \in Seq(Scopes),
           NEW past \in Seq(Stacks), NEW open, open \in Seq(Nodes),
           Unwinds(past, world.scopes, open, DOMAIN world.superclasses),
           Inner(world).kind \in {"class", "singleton"},
           NEW reference \in Reference, Single(reference)
    PROVE  ScopeReference(past[Len(past)].class, reference, DOMAIN world.superclasses).path
              = Lookup(world, reference)
  <1> DEFINE path == reference.path
             known == DOMAIN world.superclasses
             n == Len(past)
             scopes == world.scopes
             stack == past[n].class
             depth(i) == Len(past[i].class)
             open1 == {k \in DOMAIN stack : stack[k] \o path \in known}
             around == {i \in DOMAIN scopes : scopes[i].cref \o << Head(path) >> \in known}
             topOpen == CHOOSE i \in open1 : \A j \in open1 : j <= i
             top == CHOOSE i \in around : \A j \in around : j <= i
  <1>1. path \in NamePaths /\ reference.absolute \in BOOLEAN /\ << >> \o path = path
    BY Absorbed DEF Reference
  <1>2. /\ n \in Nat /\ n = Len(scopes) /\ n = Len(open) + 1 /\ n >= 1 /\ Len(open) \in Nat
        /\ DOMAIN past = 1 .. n /\ DOMAIN scopes = 1 .. n /\ DOMAIN open = 1 .. n - 1
    <2>1. n = Len(scopes) /\ n = Len(open) + 1
      BY DEF Unwinds
    <2>2. DOMAIN past = 1 .. Len(past) /\ DOMAIN scopes = 1 .. Len(scopes) /\ DOMAIN open = 1 .. Len(open)
      OBVIOUS
    <2>3. Len(past) \in Nat /\ Len(open) \in Nat
      OBVIOUS
    <2> QED
      BY <2>1, <2>2, <2>3
  <1>3. \A i \in 1 .. n : past[i] \in Stacks
    BY <1>2
  <1>4. \A i \in 1 .. n : past[i].class \in Seq(Path)
    BY <1>3 DEF Stacks
  <1>5. \A i \in 1 .. n : scopes[i].kind \in {"class", "singleton"}
    <2>1. \A i \in 1 .. n - 1 : scopes[i].kind \in {"class", "singleton"}
      BY <1>2 DEF Unwinds
    <2>2. Inner(world) = scopes[n]
      BY <1>2 DEF Inner, Last
    <2> QED
      BY <1>2, <2>1, <2>2
  <1>6. \A i \in 1 .. n : scopes[i].cref = LastOr(past[i].class, TopLevel)
    <2> SUFFICES ASSUME NEW i \in 1 .. n PROVE scopes[i].cref = LastOr(past[i].class, TopLevel)
      OBVIOUS
    <2>1. Situated(past[i], scopes[i])
      BY <1>2 DEF Unwinds
    <2> QED
      BY <1>5, <2>1 DEF Situated, LastOr
  <1>7. Layered(past)
    BY DEF Unwinds
  <1>8. /\ \A i \in 1 .. n : depth(i) \in Nat /\ depth(i) <= depth(n)
        /\ \A i, j \in 1 .. n : i <= j => depth(i) <= depth(j)
        /\ \A k \in DOMAIN stack : \E i \in 1 .. n : depth(i) = k
        /\ DOMAIN stack = 1 .. depth(n)
    <2>1. \A i \in 1 .. n : depth(i) \in Nat
      BY <1>4
    <2>2. \A i, j \in 1 .. n : i <= j => depth(i) <= depth(j)
      BY <1>2, <1>7 DEF Layered
    <2>3. \A k \in DOMAIN stack : \E i \in 1 .. n : depth(i) = k
      BY <1>2, <1>7 DEF Layered
    <2>4. n \in 1 .. n /\ \A i \in 1 .. n : i <= n
      BY <1>2
    <2>5. DOMAIN stack = 1 .. depth(n)
      BY <1>4, <2>4
    <2> HIDE DEF depth, stack
    <2> QED
      BY <2>1, <2>2, <2>3, <2>4, <2>5
  <1>9. ASSUME NEW i \in 1 .. n, depth(i) # 0
        PROVE  depth(i) \in DOMAIN stack /\ scopes[i].cref = stack[depth(i)]
    <2>1. depth(i) \in Nat /\ depth(i) <= depth(n) /\ depth(i) \in DOMAIN past[i].class
      BY <1>4, <1>8, <1>9
    <2>2. past[n].class[depth(i)] = past[i].class[depth(i)]
      BY <1>2, <1>7, <2>1 DEF Layered
    <2>3. past[i].class # << >> /\ Last(past[i].class) = past[i].class[depth(i)]
      BY <1>4, <1>9 DEF Last
    <2> QED
      BY <1>6, <1>8, <1>9, <2>1, <2>2, <2>3 DEF LastOr
  <1>10. ASSUME NEW i \in 1 .. n, depth(i) = 0 PROVE scopes[i].cref = << >>
    <2>1. past[i].class = << >>
      BY <1>4, <1>10
    <2> QED
      BY <1>6, <2>1 DEF LastOr, TopLevel
  <1>11. CASE reference.absolute
    BY <1>11 DEF ScopeReference, Lookup
  <1>12. CASE ~reference.absolute
    <2>1. Len(path) = 1 /\ << Head(path) >> = path
      BY <1>1, <1>12, NameFacts DEF Single
    <2>2. Lookup(world, reference) = IF around = {} THEN path ELSE scopes[top].cref \o path
      BY <1>12 DEF Lookup
    <2>3. ScopeReference(stack, reference, known).path = IF open1 = {} THEN path ELSE stack[topOpen] \o path
      <3>1. ScopeReference(stack, reference, known) = IF open1 = {} THEN reference ELSE Relative(stack[topOpen] \o path)
        <4>1. ~(Len(path) > 1)
          BY <2>1
        <4> QED
          BY <1>12, <4>1 DEF ScopeReference
      <3>2. Relative(stack[topOpen] \o path).path = stack[topOpen] \o path
        BY DEF Relative
      <3> HIDE DEF topOpen, open1
      <3> QED
        BY <3>1, <3>2
    <2> HIDE DEF top, topOpen
    <2>4. around # {} => top \in around /\ \A j \in around : j <= top
      <3>1. around \subseteq 1 .. n
        BY <1>2
      <3> HIDE DEF around, n
      <3> QED
        BY <1>2, <3>1, GreatestMember DEF top
    <2>5. open1 # {} => topOpen \in open1 /\ \A j \in open1 : j <= topOpen
      <3>1. open1 \subseteq 1 .. depth(n) /\ depth(n) \in Nat
        BY <1>2, <1>8
      <3> HIDE DEF open1, n, depth
      <3> QED
        BY <3>1, GreatestMember DEF topOpen
    <2>6. \A i \in around : depth(i) # 0 => depth(i) \in open1
      BY <1>2, <1>9, <2>1
    <2>7. \A k \in open1 : \E i \in around : depth(i) = k
      <3> SUFFICES ASSUME NEW k \in open1 PROVE \E i \in around : depth(i) = k
        OBVIOUS
      <3>1. PICK i \in 1 .. n : depth(i) = k
        BY <1>8
      <3>2. k # 0
        BY <1>8
      <3>3. scopes[i].cref = stack[k]
        BY <1>9, <3>1, <3>2
      <3>4. i \in around
        BY <1>2, <2>1, <3>3
      <3> QED
        BY <3>1, <3>4
    <2>8. CASE open1 = {}
      <3>1. around # {} => top \in 1 .. n /\ depth(top) = 0
        BY <1>2, <2>4, <2>6, <2>8
      <3>2. around # {} => scopes[top].cref = << >>
        BY <1>10, <3>1
      <3> QED
        BY <1>1, <2>2, <2>3, <2>8, <3>2
    <2>9. CASE open1 # {}
      <3>1. PICK i \in around : depth(i) = topOpen
        BY <2>5, <2>7, <2>9
      <3>2. top \in around /\ i <= top
        BY <2>4, <3>1
      <3>3. i \in 1 .. n /\ top \in 1 .. n
        BY <1>2, <3>1, <3>2
      <3>4. topOpen \in open1 /\ topOpen # 0 /\ topOpen \in Nat
        BY <1>8, <2>5, <2>9
      <3>5. depth(i) <= depth(top) /\ depth(top) \in Nat
        BY <1>8, <3>2, <3>3
      <3>6. depth(top) # 0
        BY <3>1, <3>4, <3>5
      <3>7. depth(top) \in open1 /\ depth(top) <= topOpen
        BY <2>5, <2>6, <2>9, <3>2, <3>6
      <3>8. depth(top) = topOpen
        BY <3>1, <3>4, <3>5, <3>7
      <3>9. scopes[top].cref = stack[topOpen]
        BY <1>9, <3>3, <3>6, <3>8
      <3> QED
        BY <2>2, <2>3, <2>9, <3>2, <3>9
    <2> QED
      BY <2>8, <2>9
  <1> QED
    BY <1>1, <1>11, <1>12

-----------------------------------------------------------------------------
(* What the invariant says of the bodies, as they are opened and closed. *)

OneMore(outer, inner) ==
    inner.class = outer.class \/ (inner.class # << >> /\ outer.class = Front(inner.class))

LEMMA AroundOneMore ==
    ASSUME NEW outer, NEW inner, NEW node, Around(outer, inner, node)
    PROVE  OneMore(outer, inner)
BY DEF Around, OneMore

\* The stacks of an inner body have those of the outer one at their bottom.
LEMMA OneMoreFacts ==
    ASSUME NEW outer \in Stacks, NEW inner \in Stacks, OneMore(outer, inner)
    PROVE  /\ Len(outer.class) \in Nat /\ Len(inner.class) \in Nat
           /\ DOMAIN outer.class = 1 .. Len(outer.class) /\ DOMAIN inner.class = 1 .. Len(inner.class)
           /\ Len(inner.class) = Len(outer.class) \/ Len(inner.class) = Len(outer.class) + 1
           /\ \A k \in 1 .. Len(outer.class) : inner.class[k] = outer.class[k]
  <1>1. outer.class \in Seq(Path) /\ inner.class \in Seq(Path)
    BY DEF Stacks
  <1>2. CASE inner.class = outer.class
    BY <1>1, <1>2
  <1>3. CASE inner.class # << >> /\ outer.class = Front(inner.class)
    BY <1>1, <1>3, FrontFacts
  <1> QED
    BY <1>2, <1>3 DEF OneMore

LEMMA LayeredAppend ==
    ASSUME NEW past \in Seq(Stacks), past # << >>, Layered(past), NEW s \in Stacks, OneMore(past[Len(past)], s)
    PROVE  Layered(Append(past, s))
  <1> DEFINE n == Len(past)
             new == Append(past, s)
  <1>1. n \in Nat /\ n >= 1 /\ DOMAIN past = 1 .. n /\ past[n] \in Stacks
    OBVIOUS
  <1>2. /\ DOMAIN new = 1 .. n + 1 /\ Len(new) = n + 1 /\ new[n + 1] = s
        /\ \A i \in 1 .. n : new[i] = past[i]
    BY <1>1, AppendFacts
  <1>3. \A i \in 1 .. n : past[i].class \in Seq(Path)
    <2>1. \A i \in 1 .. n : past[i] \in Stacks
      BY <1>1
    <2> QED
      BY <2>1 DEF Stacks
  <1>4. \A i \in 1 .. n : Len(past[i].class) \in Nat /\ DOMAIN past[i].class = 1 .. Len(past[i].class)
    BY <1>3
  <1> DEFINE above == past[n]
  <1>5. /\ Len(above.class) \in Nat /\ Len(s.class) \in Nat
        /\ DOMAIN above.class = 1 .. Len(above.class) /\ DOMAIN s.class = 1 .. Len(s.class)
        /\ Len(s.class) = Len(above.class) \/ Len(s.class) = Len(above.class) + 1
        /\ \A k \in 1 .. Len(above.class) : s.class[k] = above.class[k]
    BY <1>1, OneMoreFacts
  <1>6. /\ past[1].class = << >>
        /\ \A i, j \in 1 .. n : i <= j =>
              /\ Len(past[i].class) <= Len(past[j].class)
              /\ \A k \in DOMAIN past[i].class : past[j].class[k] = past[i].class[k]
        /\ \A k \in DOMAIN above.class : \E i \in 1 .. n : Len(past[i].class) = k
    BY <1>1 DEF Layered
  <1>7. new[1].class = << >>
    BY <1>1, <1>2, <1>6
  <1>8. ASSUME NEW i \in 1 .. n + 1, NEW j \in 1 .. n + 1, i <= j
        PROVE  /\ Len(new[i].class) <= Len(new[j].class)
               /\ \A k \in DOMAIN new[i].class : new[j].class[k] = new[i].class[k]
    <2>1. CASE j \in 1 .. n
      BY <1>1, <1>2, <1>6, <1>8, <2>1
    <2>2. CASE j = n + 1 /\ i = n + 1
      BY <1>2, <1>5, <2>2
    <2>3. CASE j = n + 1 /\ i \in 1 .. n
      <3>1. /\ Len(past[i].class) <= Len(above.class)
            /\ \A k \in DOMAIN past[i].class : above.class[k] = past[i].class[k]
        BY <1>1, <1>6, <2>3
      <3>2. Len(past[i].class) <= Len(s.class)
        BY <1>4, <1>5, <2>3, <3>1
      <3>3. ASSUME NEW k \in DOMAIN past[i].class PROVE s.class[k] = past[i].class[k]
        <4>1. k \in 1 .. Len(above.class)
          BY <1>4, <1>5, <2>3, <3>1
        <4> QED
          BY <1>5, <3>1, <4>1
      <3> QED
        BY <1>2, <2>3, <3>2, <3>3
    <2> QED
      BY <1>1, <2>1, <2>2, <2>3
  <1>9. ASSUME NEW k \in DOMAIN s.class PROVE \E i \in 1 .. n + 1 : Len(new[i].class) = k
    <2>1. CASE k \in 1 .. Len(above.class)
      <3>1. PICK i \in 1 .. n : Len(past[i].class) = k
        BY <1>5, <1>6, <2>1
      <3>2. i \in 1 .. n + 1 /\ new[i] = past[i]
        BY <1>1, <1>2
      <3> QED
        BY <3>1, <3>2
    <2>2. CASE k = Len(s.class)
      BY <1>1, <1>2, <2>2
    <2> QED
      BY <1>5, <2>1, <2>2
  <1> HIDE DEF new, n
  <1>10. \A k \in DOMAIN new[Len(new)].class : \E i \in DOMAIN new : Len(new[i].class) = k
    BY <1>2, <1>9
  <1>11. Layered(new)
    BY <1>2, <1>7, <1>8, <1>10 DEF Layered
  <1> QED
    BY <1>11 DEF new

LEMMA LayeredFront ==
    ASSUME NEW past \in Seq(Stacks), Len(past) > 1, Layered(past), OneMore(past[Len(past) - 1], past[Len(past)])
    PROVE  Layered(Front(past))
  <1> DEFINE n == Len(past)
             old == Front(past)
  <1>1. n \in Nat /\ n > 1 /\ DOMAIN past = 1 .. n /\ past[n] \in Stacks /\ past[n - 1] \in Stacks /\ past # << >>
    OBVIOUS
  <1>2. DOMAIN old = 1 .. n - 1 /\ Len(old) = n - 1 /\ \A i \in 1 .. n - 1 : old[i] = past[i]
    <2>1. old \in Seq(Stacks) /\ Len(old) = n - 1 /\ \A i \in 1 .. n - 1 : old[i] = past[i]
      BY <1>1, FrontFacts
    <2>2. DOMAIN old = 1 .. Len(old)
      BY <2>1
    <2> QED
      BY <2>1, <2>2
  <1> DEFINE last == past[n]
             above == past[n - 1]
  <1>3. /\ Len(above.class) \in Nat /\ Len(last.class) \in Nat
        /\ DOMAIN above.class = 1 .. Len(above.class) /\ DOMAIN last.class = 1 .. Len(last.class)
        /\ Len(last.class) = Len(above.class) \/ Len(last.class) = Len(above.class) + 1
    BY <1>1, OneMoreFacts
  <1>4. /\ past[1].class = << >>
        /\ \A i, j \in 1 .. n : i <= j =>
              /\ Len(past[i].class) <= Len(past[j].class)
              /\ \A k \in DOMAIN past[i].class : past[j].class[k] = past[i].class[k]
        /\ \A k \in DOMAIN last.class : \E i \in 1 .. n : Len(past[i].class) = k
    BY <1>1 DEF Layered
  <1>5. ASSUME NEW k \in DOMAIN above.class PROVE \E i \in 1 .. n - 1 : Len(past[i].class) = k
    <2>1. PICK i \in 1 .. n : Len(past[i].class) = k
      BY <1>3, <1>4
    <2>2. CASE i = n
      <3>1. k = Len(last.class) /\ k \in 1 .. Len(above.class)
        BY <1>3, <2>1, <2>2
      <3>2. Len(above.class) = k
        BY <1>3, <3>1
      <3> QED
        BY <1>1, <3>2
    <2>3. CASE i # n
      <3>1. i \in 1 .. n - 1
        <4>1. n \in Nat /\ i \in 1 .. n /\ i # n
          BY <1>1, <2>3
        <4> HIDE DEF n
        <4> QED
          BY <4>1
      <3> QED
        BY <2>1, <3>1
    <2> QED
      BY <2>2, <2>3
  <1>6. old[1] = past[1] /\ old[n - 1] = past[n - 1]
    BY <1>1, <1>2
  <1>7. \A i, j \in 1 .. n - 1 : i <= j =>
          /\ Len(old[i].class) <= Len(old[j].class)
          /\ \A k \in DOMAIN old[i].class : old[j].class[k] = old[i].class[k]
    BY <1>1, <1>2, <1>4
  <1>8. \A k \in DOMAIN above.class : \E i \in 1 .. n - 1 : Len(old[i].class) = k
    BY <1>2, <1>5
  <1> HIDE DEF old, n
  <1>9. \A k \in DOMAIN old[Len(old)].class : \E i \in DOMAIN old : Len(old[i].class) = k
    BY <1>2, <1>6, <1>8
  <1>10. Layered(old)
    BY <1>2, <1>4, <1>6, <1>7, <1>9 DEF Layered
  <1> QED
    BY <1>10 DEF old

LEMMA RangeEmpty == Range(<< >>) = {}
BY DEF Range

LEMMA UnwindsSizes ==
    ASSUME NEW past \in Seq(Stacks), NEW scopes \in Seq(Scopes), NEW open \in Seq(Nodes), NEW known,
           Unwinds(past, scopes, open, known)
    PROVE  /\ Len(past) \in Nat /\ Len(past) >= 1 /\ Len(scopes) = Len(past) /\ Len(open) = Len(past) - 1
           /\ DOMAIN past = 1 .. Len(past) /\ DOMAIN scopes = 1 .. Len(past) /\ DOMAIN open = 1 .. Len(past) - 1
           /\ past # << >> /\ scopes # << >> /\ Last(past) = past[Len(past)] /\ Last(scopes) = scopes[Len(past)]
           /\ past[Len(past)] \in Stacks /\ scopes[Len(past)] \in Scopes
  <1>1. Len(past) = Len(scopes) /\ Len(past) = Len(open) + 1
    BY DEF Unwinds
  <1>2. /\ DOMAIN past = 1 .. Len(past) /\ DOMAIN scopes = 1 .. Len(scopes) /\ DOMAIN open = 1 .. Len(open)
        /\ Len(past) \in Nat /\ Len(open) \in Nat /\ Len(scopes) \in Nat
    OBVIOUS
  <1>3. Len(past) >= 1 /\ Len(open) = Len(past) - 1
    BY <1>1, <1>2
  <1>4. past # << >> /\ scopes # << >>
    <2>1. Len(past) # 0 /\ Len(scopes) # 0
      BY <1>1, <1>2, <1>3
    <2>2. Len(<< >>) = 0
      OBVIOUS
    <2> QED
      BY <2>1, <2>2
  <1>5. past[Len(past)] \in Stacks /\ scopes[Len(past)] \in Scopes
    BY <1>1, <1>2, <1>3
  <1> QED
    BY <1>1, <1>2, <1>3, <1>4, <1>5 DEF Last

\* What is known only grows, and a visibility is no part of it.
LEMMA UnwindsStay ==
    ASSUME NEW past \in Seq(Stacks), NEW scopes \in Seq(Scopes), NEW open \in Seq(Nodes), NEW known,
           Unwinds(past, scopes, open, known),
           NEW later \in Seq(Scopes), Len(later) = Len(scopes),
           \A i \in DOMAIN scopes : /\ later[i].kind = scopes[i].kind /\ later[i].cref = scopes[i].cref
                                    /\ later[i].owner = scopes[i].owner
                                    /\ later[i].singleton = scopes[i].singleton,
           NEW more, known \subseteq more
    PROVE  Unwinds(past, later, open, more)
  <1> DEFINE n == Len(past)
  <1>1. /\ n \in Nat /\ n >= 1 /\ Len(scopes) = n /\ Len(open) = n - 1
        /\ DOMAIN past = 1 .. n /\ DOMAIN scopes = 1 .. n /\ DOMAIN open = 1 .. n - 1
    BY UnwindsSizes
  <1>2. Len(past) = Len(later) /\ Len(past) = Len(open) + 1 /\ Layered(past)
    BY <1>1 DEF Unwinds
  <1>3. ASSUME NEW i \in DOMAIN past
        PROVE  /\ Situated(past[i], later[i])
               /\ Range(past[i].class) \subseteq more /\ Range(past[i].singleton) \subseteq more
    <2>1. /\ Situated(past[i], scopes[i])
          /\ Range(past[i].class) \subseteq known /\ Range(past[i].singleton) \subseteq known
      BY <1>3 DEF Unwinds
    <2>2. Situated(past[i], later[i])
      BY <1>1, <2>1 DEF Situated
    <2> QED
      BY <2>1, <2>2
  <1>4. ASSUME NEW i \in DOMAIN open
        PROVE  /\ open[i].kind = later[i + 1].kind
               /\ later[i].kind \in {"class", "singleton"}
               /\ Around(past[i], past[i + 1], open[i])
    <2>1. /\ open[i].kind = scopes[i + 1].kind
          /\ scopes[i].kind \in {"class", "singleton"}
          /\ Around(past[i], past[i + 1], open[i])
      BY <1>4 DEF Unwinds
    <2>2. i \in 1 .. n /\ i + 1 \in 1 .. n
      BY <1>1
    <2> QED
      BY <1>1, <2>1, <2>2
  <1> QED
    BY <1>2, <1>3, <1>4 DEF Unwinds

LEMMA UnwindsOpen ==
    ASSUME NEW past \in Seq(Stacks), NEW scopes \in Seq(Scopes), NEW open \in Seq(Nodes), NEW known,
           Unwinds(past, scopes, open, known), Last(scopes).kind \in {"class", "singleton"},
           NEW s \in Stacks, NEW scope \in Scopes, NEW node \in Nodes, node.kind = scope.kind,
           Situated(s, scope), Around(past[Len(past)], s, node),
           Range(s.class) \subseteq known, Range(s.singleton) \subseteq known
    PROVE  Unwinds(Append(past, s), Append(scopes, scope), Append(open, node), known)
  <1> DEFINE n == Len(past)
             past2 == Append(past, s)
             scopes2 == Append(scopes, scope)
             open2 == Append(open, node)
  <1>1. /\ n \in Nat /\ n >= 1 /\ Len(scopes) = n /\ Len(open) = n - 1
        /\ DOMAIN past = 1 .. n /\ DOMAIN scopes = 1 .. n /\ DOMAIN open = 1 .. n - 1
        /\ past # << >> /\ Last(scopes) = scopes[n]
    BY UnwindsSizes
  <1>2. /\ Len(past2) = n + 1 /\ DOMAIN past2 = 1 .. n + 1 /\ past2[n + 1] = s
        /\ \A i \in 1 .. n : past2[i] = past[i]
    BY <1>1, AppendFacts
  <1>3. /\ Len(scopes2) = n + 1 /\ DOMAIN scopes2 = 1 .. n + 1 /\ scopes2[n + 1] = scope
        /\ \A i \in 1 .. n : scopes2[i] = scopes[i]
    BY <1>1, AppendFacts
  <1>4. /\ Len(open2) = n /\ DOMAIN open2 = 1 .. n /\ open2[n] = node
        /\ \A i \in 1 .. n - 1 : open2[i] = open[i]
    <2>1. /\ open2 \in Seq(Nodes) /\ Len(open2) = Len(open) + 1 /\ open2[Len(open) + 1] = node
          /\ \A i \in 1 .. Len(open) : open2[i] = open[i]
      BY AppendFacts
    <2>2. DOMAIN open2 = 1 .. Len(open2)
      BY <2>1
    <2>3. Len(open) + 1 = n
      BY <1>1
    <2> HIDE DEF open2, n
    <2> QED
      BY <1>1, <2>1, <2>2, <2>3
  <1>5. Layered(past2)
    <2>1. Layered(past)
      BY DEF Unwinds
    <2>2. OneMore(past[n], s)
      BY AroundOneMore
    <2> QED
      BY <1>1, <2>1, <2>2, LayeredAppend
  <1> HIDE DEF past2, scopes2, open2, n
  <1>6. ASSUME NEW i \in 1 .. n + 1
        PROVE  /\ Situated(past2[i], scopes2[i])
               /\ Range(past2[i].class) \subseteq known /\ Range(past2[i].singleton) \subseteq known
    <2>1. CASE i = n + 1
      BY <1>2, <1>3, <2>1
    <2>2. CASE i # n + 1
      <3>1. i \in 1 .. n
        BY <1>1, <2>2
      <3> QED
        BY <1>1, <1>2, <1>3, <3>1 DEF Unwinds
    <2> QED
      BY <2>1, <2>2
  <1>7. ASSUME NEW i \in 1 .. n
        PROVE  /\ open2[i].kind = scopes2[i + 1].kind
               /\ scopes2[i].kind \in {"class", "singleton"}
               /\ Around(past2[i], past2[i + 1], open2[i])
    <2>1. CASE i = n
      BY <1>1, <1>2, <1>3, <1>4, <2>1 DEF n
    <2>2. CASE i # n
      <3>1. i \in 1 .. n - 1 /\ i + 1 \in 1 .. n
        BY <1>1, <2>2
      <3>2. /\ open[i].kind = scopes[i + 1].kind
            /\ scopes[i].kind \in {"class", "singleton"}
            /\ Around(past[i], past[i + 1], open[i])
        BY <1>1, <3>1 DEF Unwinds
      <3>3. /\ past2[i] = past[i] /\ past2[i + 1] = past[i + 1] /\ scopes2[i] = scopes[i]
            /\ scopes2[i + 1] = scopes[i + 1] /\ open2[i] = open[i]
        BY <1>2, <1>3, <1>4, <3>1
      <3> QED
        BY <3>2, <3>3
    <2> QED
      BY <2>1, <2>2
  <1>8. Unwinds(past2, scopes2, open2, known)
    BY <1>1, <1>2, <1>3, <1>4, <1>5, <1>6, <1>7 DEF Unwinds
  <1> QED
    BY <1>8 DEF past2, scopes2, open2

LEMMA UnwindsClose ==
    ASSUME NEW past \in Seq(Stacks), NEW scopes \in Seq(Scopes), NEW open \in Seq(Nodes), NEW known,
           Unwinds(past, scopes, open, known), open # << >>
    PROVE  /\ Unwinds(Front(past), Front(scopes), Front(open), known)
           /\ Front(past) \in Seq(Stacks) /\ Front(scopes) \in Seq(Scopes) /\ Front(open) \in Seq(Nodes)
           /\ Len(Front(past)) = Len(past) - 1 /\ Front(past)[Len(past) - 1] = past[Len(past) - 1]
           /\ Around(past[Len(past) - 1], past[Len(past)], Last(open))
           /\ past[Len(past) - 1] \in Stacks /\ past[Len(past)] \in Stacks /\ Last(open) \in Nodes
  <1> DEFINE n == Len(past)
             past2 == Front(past)
             scopes2 == Front(scopes)
             open2 == Front(open)
  <1>1. /\ n \in Nat /\ n >= 1 /\ Len(scopes) = n /\ Len(open) = n - 1
        /\ DOMAIN past = 1 .. n /\ DOMAIN scopes = 1 .. n /\ DOMAIN open = 1 .. n - 1
        /\ past # << >> /\ scopes # << >>
    BY UnwindsSizes
  <1>2. n > 1 /\ Len(open) \in Nat /\ Len(open) # 0
    <2>1. Len(open) \in Nat /\ Len(open) # 0
      OBVIOUS
    <2> QED
      BY <1>1, <2>1
  <1>3. /\ past2 \in Seq(Stacks) /\ Len(past2) = n - 1 /\ DOMAIN past2 = 1 .. n - 1
        /\ \A i \in 1 .. n - 1 : past2[i] = past[i]
    <2>1. past2 \in Seq(Stacks) /\ Len(past2) = n - 1 /\ \A i \in 1 .. n - 1 : past2[i] = past[i]
      BY <1>1, FrontFacts
    <2>2. DOMAIN past2 = 1 .. Len(past2)
      BY <2>1
    <2> QED
      BY <2>1, <2>2
  <1>4. /\ scopes2 \in Seq(Scopes) /\ Len(scopes2) = n - 1 /\ DOMAIN scopes2 = 1 .. n - 1
        /\ \A i \in 1 .. n - 1 : scopes2[i] = scopes[i]
    <2>1. scopes2 \in Seq(Scopes) /\ Len(scopes2) = n - 1 /\ \A i \in 1 .. n - 1 : scopes2[i] = scopes[i]
      BY <1>1, FrontFacts
    <2>2. DOMAIN scopes2 = 1 .. Len(scopes2)
      BY <2>1
    <2> QED
      BY <2>1, <2>2
  <1>5. /\ open2 \in Seq(Nodes) /\ Len(open2) = n - 2 /\ DOMAIN open2 = 1 .. n - 2
        /\ \A i \in 1 .. n - 2 : open2[i] = open[i]
        /\ Last(open) = open[n - 1] /\ Last(open) \in Nodes
    <2>1. /\ open2 \in Seq(Nodes) /\ Len(open2) = Len(open) - 1 /\ \A i \in 1 .. Len(open) - 1 : open2[i] = open[i]
          /\ Last(open) = open[Len(open)] /\ Last(open) \in Nodes
      BY FrontFacts
    <2>2. DOMAIN open2 = 1 .. Len(open2)
      BY <2>1
    <2>3. Len(open) - 1 = n - 2
      BY <1>1
    <2> HIDE DEF open2, n
    <2> QED
      BY <1>1, <2>1, <2>2, <2>3
  <1>6. \A i \in 1 .. n - 1 :
          /\ open[i].kind = scopes[i + 1].kind /\ scopes[i].kind \in {"class", "singleton"}
          /\ Around(past[i], past[i + 1], open[i])
    BY <1>1 DEF Unwinds
  <1>7. n - 1 \in 1 .. n - 1 /\ (n - 1) + 1 = n
    BY <1>1, <1>2
  <1>8. Around(past[n - 1], past[n], Last(open))
    BY <1>5, <1>6, <1>7
  <1>9. Layered(past2)
    <2>1. Layered(past)
      BY DEF Unwinds
    <2>2. OneMore(past[n - 1], past[n])
      BY <1>8, AroundOneMore
    <2> QED
      BY <1>2, <2>1, <2>2, LayeredFront
  <1>10. past[n - 1] \in Stacks /\ past[n] \in Stacks
    BY <1>1, <1>2
  <1>11. \A i \in 1 .. n :
          /\ Situated(past[i], scopes[i])
          /\ Range(past[i].class) \subseteq known /\ Range(past[i].singleton) \subseteq known
    BY <1>1 DEF Unwinds
  <1> HIDE DEF past2, scopes2, open2, n
  <1>12. \A i \in DOMAIN past2 :
          /\ Situated(past2[i], scopes2[i])
          /\ Range(past2[i].class) \subseteq known /\ Range(past2[i].singleton) \subseteq known
    BY <1>1, <1>3, <1>4, <1>11
  <1>13. ASSUME NEW i \in DOMAIN open2
         PROVE  /\ open2[i].kind = scopes2[i + 1].kind
                /\ scopes2[i].kind \in {"class", "singleton"}
                /\ Around(past2[i], past2[i + 1], open2[i])
    <2>1. i \in 1 .. n - 2 /\ i \in 1 .. n - 1 /\ i + 1 \in 1 .. n - 1
      BY <1>1, <1>5
    <2> QED
      BY <1>3, <1>4, <1>5, <1>6, <2>1
  <1>14. Unwinds(past2, scopes2, open2, known)
    BY <1>1, <1>3, <1>4, <1>5, <1>9, <1>12, <1>13 DEF Unwinds
  <1> QED
    BY <1>3, <1>4, <1>5, <1>7, <1>8, <1>10, <1>14 DEF past2, scopes2, open2, n

-----------------------------------------------------------------------------
(* What the statements leave alone. *)

\* Where defs go and what is known is the same in both worlds.
WorldKept(w, v) ==
    /\ DOMAIN v = WorldFields
    /\ v.scopes = w.scopes /\ v.superclasses = w.superclasses /\ v.declared = w.declared

TablesKept(t, u) ==
    /\ DOMAIN u = TableFields /\ Known(u) = Known(t)
    /\ u.definitions = t.definitions /\ u.kinds = t.kinds /\ DOMAIN t.methods \subseteq DOMAIN u.methods

LEMMA WorldKeptTwice == \A w, v, u : WorldKept(w, v) /\ WorldKept(v, u) => WorldKept(w, u)
BY DEF WorldKept

LEMMA WorldOperators ==
    ASSUME NEW w, DOMAIN w = WorldFields
    PROVE  /\ WorldKept(w, w) /\ WorldKept(w, Detached(w))
           /\ \A x : WorldKept(w, [w EXCEPT !.sigs = x]) /\ WorldKept(w, [w EXCEPT !.comments = x])
           /\ \A x : WorldKept(w, [w EXCEPT !.methods = x]) /\ WorldKept(w, [w EXCEPT !.contracts = x])
           /\ \A x : WorldKept(w, [w EXCEPT !.mixins = x]) /\ WorldKept(w, [w EXCEPT !.structs = x])
           /\ \A x : WorldKept(w, [w EXCEPT !.members = x])
  <1>1. \A x : WorldKept(w, [w EXCEPT !.sigs = x]) /\ WorldKept(w, [w EXCEPT !.comments = x])
    BY DEF WorldKept, WorldFields
  <1>2. \A x : WorldKept(w, [w EXCEPT !.methods = x]) /\ WorldKept(w, [w EXCEPT !.contracts = x])
    BY DEF WorldKept, WorldFields
  <1>3. \A x : WorldKept(w, [w EXCEPT !.mixins = x]) /\ WorldKept(w, [w EXCEPT !.structs = x])
    BY DEF WorldKept, WorldFields
  <1>4. \A x : WorldKept(w, [w EXCEPT !.members = x])
    BY DEF WorldKept, WorldFields
  <1>5. WorldKept(w, w) /\ WorldKept(w, Detached(w))
    BY DEF WorldKept, WorldFields, Detached
  <1> QED
    BY <1>1, <1>2, <1>3, <1>4, <1>5

LEMMA WorldMethods ==
    ASSUME NEW w, DOMAIN w = WorldFields
    PROVE  /\ \A key, body, visibility : WorldKept(w, Define(w, key, body, visibility))
           /\ \A keys, body, visibility : WorldKept(w, DefineAll(w, keys, body, visibility))
           /\ \A key, visibility : WorldKept(w, SetVisibility(w, key, visibility))
           /\ \A key, kind : WorldKept(w, Sign(w, key, kind))
           /\ \A key : WorldKept(w, Attr(w, key))
           /\ \A new, old : WorldKept(w, Alias(w, new, old))
           /\ \A key : WorldKept(w, Function(w, key))
           /\ \A key, at, onSelf, modifier : WorldKept(w, Def(w, key, at, onSelf, modifier))
  <1>1. \A v : DOMAIN v = WorldFields => \A key, body, visibility : WorldKept(v, Define(v, key, body, visibility))
    BY WorldOperators DEF Define
  <1>2. \A v : DOMAIN v = WorldFields => \A key, visibility : WorldKept(v, SetVisibility(v, key, visibility))
    BY WorldOperators DEF SetVisibility
  <1>3. \A keys, body, visibility : WorldKept(w, DefineAll(w, keys, body, visibility))
    BY WorldOperators DEF DefineAll
  <1>4. \A key, kind : WorldKept(w, Sign(w, key, kind))
    BY WorldOperators DEF Sign
  <1>5. \A key : WorldKept(w, Attr(w, key))
    BY <1>1 DEF Attr
  <1>6. \A new, old : WorldKept(w, Alias(w, new, old))
    BY <1>1 DEF Alias
  <1>7. \A key : WorldKept(w, Function(w, key))
    <2> SUFFICES ASSUME NEW key PROVE WorldKept(w, Function(w, key))
      OBVIOUS
    <2> DEFINE v == Define(w, [key EXCEPT !.singleton = TRUE], w.methods[key].body, "public")
    <2>1. WorldKept(w, v)
      BY <1>1
    <2>2. WorldKept(v, SetVisibility(v, key, "private"))
      BY <1>2, <2>1 DEF WorldKept
    <2>3. Function(w, key) = SetVisibility(v, key, "private")
      BY DEF Function
    <2> HIDE DEF v
    <2> QED
      BY <2>1, <2>2, <2>3, WorldKeptTwice
  <1>8. \A key, at, onSelf, modifier : WorldKept(w, Def(w, key, at, onSelf, modifier))
    <2> SUFFICES ASSUME NEW key, NEW at, NEW onSelf, NEW modifier PROVE WorldKept(w, Def(w, key, at, onSelf, modifier))
      OBVIOUS
    <2> DEFINE body == << "def", at >>
               visibility ==
                  CASE modifier \in {"private_class_method", "module_function"} -> "private"
                    [] modifier = "none" /\ ~onSelf -> Inner(w).visibility
                    [] OTHER -> "public"
               v == Define(w, key, body, visibility)
               u == Define(v, [key EXCEPT !.singleton = TRUE], body, "public")
    <2>1. Def(w, key, at, onSelf, modifier) = IF modifier # "module_function" THEN v ELSE u
      BY DEF Def
    <2> HIDE DEF body, visibility
    <2>2. WorldKept(w, v)
      BY <1>1
    <2>3. WorldKept(v, u)
      BY <1>1, <2>2 DEF WorldKept
    <2> HIDE DEF v, u
    <2> QED
      BY <2>1, <2>2, <2>3, WorldKeptTwice
  <1> QED
    BY <1>1, <1>2, <1>3, <1>4, <1>5, <1>6, <1>7, <1>8

LEMMA WorldMixins ==
    ASSUME NEW w, DOMAIN w = WorldFields
    PROVE  /\ \A class, singleton, kind, module : WorldKept(w, Mix(w, class, singleton, kind, module))
           /\ \A class, field : WorldKept(w, AddField(w, class, field))
           /\ \A class, name : WorldKept(w, Member(w, class, name))
  <1>1. \A class, singleton, kind, module : WorldKept(w, Mix(w, class, singleton, kind, module))
    BY WorldOperators DEF Mix
  <1>2. \A class, field : WorldKept(w, AddField(w, class, field))
    BY WorldOperators DEF AddField
  <1>3. \A class, name : WorldKept(w, Member(w, class, name))
    BY WorldOperators DEF Member
  <1> QED
    BY <1>1, <1>2, <1>3

LEMMA TablesKeptTwice == \A t, u, v : TablesKept(t, u) /\ TablesKept(u, v) => TablesKept(t, v)
BY DEF TablesKept

LEMMA TableOperators ==
    ASSUME NEW t, DOMAIN t = TableFields
    PROVE  /\ TablesKept(t, t)
           /\ \A x : DOMAIN t.methods \subseteq DOMAIN x => TablesKept(t, [t EXCEPT !.methods = x])
           /\ \A x : TablesKept(t, [t EXCEPT !.aliases = x]) /\ TablesKept(t, [t EXCEPT !.structFields = x])
           /\ \A x : TablesKept(t, [t EXCEPT !.accessors = x])
           /\ \A x : DOMAIN x = Known(t) => TablesKept(t, [t EXCEPT !.classes = x])
  <1>1. TablesKept(t, t)
    BY DEF TablesKept
  <1>2. \A x : DOMAIN t.methods \subseteq DOMAIN x => TablesKept(t, [t EXCEPT !.methods = x])
    BY DEF TablesKept, TableFields, Known
  <1>3. \A x : TablesKept(t, [t EXCEPT !.aliases = x]) /\ TablesKept(t, [t EXCEPT !.structFields = x])
    BY DEF TablesKept, TableFields, Known
  <1>4. \A x : TablesKept(t, [t EXCEPT !.accessors = x])
    BY DEF TablesKept, TableFields, Known
  <1>5. \A x : DOMAIN x = Known(t) => TablesKept(t, [t EXCEPT !.classes = x])
    BY DEF TablesKept, TableFields, Known
  <1> QED
    BY <1>1, <1>2, <1>3, <1>4, <1>5

-----------------------------------------------------------------------------
(* The steps that open and close nothing. *)

RegistrarKept(r, q) ==
    /\ DOMAIN q = RegistrarFields
    /\ q.classStack = r.classStack /\ q.singletonStack = r.singletonStack /\ q.dynamicStack = r.dynamicStack
    /\ q.open = r.open
    /\ q.visibilityStack \in Seq(MethodVisibilities) /\ Len(q.visibilityStack) = Len(r.visibilityStack)

ScopesKept(s, later) ==
    /\ later \in Seq(Scopes) /\ Len(later) = Len(s)
    /\ \A i \in DOMAIN s : /\ later[i].kind = s[i].kind /\ later[i].cref = s[i].cref
                           /\ later[i].owner = s[i].owner /\ later[i].singleton = s[i].singleton

LEMMA Frame ==
    ASSUME Inv, Types', RegistrarKept(registrar, registrar'), ScopesKept(world.scopes, world'.scopes),
           Known(tables') = DOMAIN world'.superclasses, Known(tables) \subseteq Known(tables'),
           DefinitionsRecorded'
    PROVE  Inv'
  <1>1. PICK past \in Seq(Stacks) : /\ Unwinds(past, world.scopes, registrar.open, Known(tables))
                                    /\ past[Len(past)] = Now(registrar)
    BY DEF Inv, BodiesNest
  <1>2. world.scopes \in Seq(Scopes) /\ registrar.open \in Seq(Nodes)
    BY DEF Inv, Types
  <1>3. Unwinds(past, world'.scopes, registrar.open, Known(tables'))
    <2> DEFINE scopes == world.scopes
               later == world'.scopes
               open == registrar.open
               known == Known(tables)
               more == Known(tables')
    <2>1. /\ scopes \in Seq(Scopes) /\ open \in Seq(Nodes) /\ later \in Seq(Scopes) /\ Len(later) = Len(scopes)
          /\ \A i \in DOMAIN scopes : /\ later[i].kind = scopes[i].kind /\ later[i].cref = scopes[i].cref
                                      /\ later[i].owner = scopes[i].owner
                                      /\ later[i].singleton = scopes[i].singleton
          /\ known \subseteq more /\ Unwinds(past, scopes, open, known)
      BY <1>1, <1>2 DEF ScopesKept
    <2> HIDE DEF scopes, later, open, known, more
    <2>2. Unwinds(past, later, open, more)
      BY <2>1, UnwindsStay
    <2> QED
      BY <2>2 DEF later, open, more
  <1>4. registrar'.open = registrar.open /\ Now(registrar') = Now(registrar)
    BY DEF RegistrarKept, Now
  <1>5. BodiesNest'
    BY <1>1, <1>3, <1>4 DEF BodiesNest
  <1>6. Len(registrar'.visibilityStack) = Len(registrar'.open) - Len(registrar'.dynamicStack)
    BY DEF Inv, RegistrarKept
  <1> QED
    BY <1>5, <1>6 DEF Inv

LEMMA SameRegistrar ==
    ASSUME Inv PROVE RegistrarKept(registrar, registrar)
BY DEF Inv, Types, RegistrarKept

LEMMA SameScopes ==
    ASSUME Inv PROVE ScopesKept(world.scopes, world.scopes)
BY DEF Inv, Types, ScopesKept

LEMMA Quiet ==
    ASSUME Inv, registrar' = registrar, TablesKept(tables, tables'), WorldKept(world, world'), theme' = theme,
           left' \in 0 .. Themes[theme].length, file' \in Themes[theme].files, registered' \in BOOLEAN
    PROVE  Inv'
  <1>1. Types'
    BY DEF Inv, Types, TablesKept, WorldKept
  <1>2. DefinitionsRecorded'
    <2>1. /\ tables'.definitions = tables.definitions /\ tables'.kinds = tables.kinds
          /\ world'.declared = world.declared /\ DOMAIN tables.methods \subseteq DOMAIN tables'.methods
      BY DEF TablesKept, WorldKept
    <2>2. DefinitionsRecorded
      BY DEF Inv
    <2> QED
      BY <2>1, <2>2 DEF DefinitionsRecorded
  <1>3. Known(tables') = DOMAIN world'.superclasses /\ Known(tables) \subseteq Known(tables')
    BY DEF Inv, TablesKept, WorldKept
  <1>4. ScopesKept(world.scopes, world'.scopes)
    BY SameScopes DEF WorldKept
  <1>5. RegistrarKept(registrar, registrar')
    BY SameRegistrar
  <1> QED
    BY <1>1, <1>2, <1>3, <1>4, <1>5, Frame

LEMMA StepTypes ==
    ASSUME Inv, ThemesAssumption, NEW r, NEW t, NEW p, NEW w, Step(r, t, p, w)
    PROVE  /\ theme' = theme /\ left' \in 0 .. Themes[theme].length
           /\ file' \in Themes[theme].files /\ registered' \in BOOLEAN
           /\ registrar' = r /\ tables' = t /\ world' = w
  <1>1. left \in 0 .. Themes[theme].length /\ Themes[theme].length \in Nat /\ left > 0
    BY DEF Inv, Types, ThemesAssumption, Step
  <1>2. left' = left - 1
    BY DEF Step
  <1>3. left' \in 0 .. Themes[theme].length
    <2> DEFINE length == Themes[theme].length
    <2>1. left \in 0 .. length /\ length \in Nat /\ left > 0
      BY <1>1
    <2> HIDE DEF length
    <2>2. left - 1 \in 0 .. length
      BY <2>1
    <2> QED
      BY <1>2, <2>2 DEF length
  <1> QED
    BY <1>3 DEF Inv, Types, Step

LEMMA QuietStep ==
    ASSUME Inv, ThemesAssumption, NEW t, NEW p, NEW w, Step(registrar, t, p, w),
           TablesKept(tables, t), WorldKept(world, w)
    PROVE  Inv'
BY StepTypes, Quiet

LEMMA QuietStatement ==
    ASSUME Inv, ThemesAssumption, NEW t, NEW w, Statement(registrar, t, w),
           TablesKept(tables, t), WorldKept(world, w)
    PROVE  Inv'
  <1>1. Step(registrar, t, NothingPending, Detached(w))
    BY DEF Statement
  <1>2. WorldKept(w, Detached(w))
    BY WorldOperators DEF WorldKept
  <1>3. WorldKept(world, Detached(w))
    BY <1>2, WorldKeptTwice
  <1> QED
    BY <1>1, <1>3, QuietStep

\* The entries the statements add take no method and no class away.
LEMMA TableEdits ==
    ASSUME NEW t, DOMAIN t = TableFields
    PROVE  /\ \A keys, signatures : TablesKept(t, AddAccessors(t, keys, signatures))
           /\ \A keys : TablesKept(t, GeneratedPredicates(t, keys))
           /\ \A owner, name : TablesKept(t, DslMethod(t, owner, name))
           /\ \A class, info : class \in Known(t) => TablesKept(t, SetInfo(t, class, info))
  <1>1. ASSUME NEW keys, NEW signatures PROVE TablesKept(t, AddAccessors(t, keys, signatures))
    <2> DEFINE methods == Over(t.methods, [key \in keys |-> IF signatures = << >> THEN AccessorState ELSE Explicit(signatures)])
               u == AddAccessors(t, keys, signatures)
    <2>1. DOMAIN t.methods \subseteq DOMAIN methods
      BY DEF Over
    <2>2. u = [t EXCEPT !.accessors = @ \union keys, !.methods = methods]
      BY DEF AddAccessors
    <2> HIDE DEF methods, u
    <2>3. DOMAIN u = TableFields
      BY <2>2
    <2>4. u.methods = methods
      BY <2>2 DEF TableFields
    <2>5. u.definitions = t.definitions /\ u.kinds = t.kinds /\ u.classes = t.classes
      BY <2>2 DEF TableFields
    <2>6. TablesKept(t, u)
      BY <2>1, <2>3, <2>4, <2>5 DEF TablesKept, Known
    <2> QED
      BY <2>6 DEF u
  <1>2. ASSUME NEW keys PROVE TablesKept(t, GeneratedPredicates(t, keys))
    <2>1. DOMAIN t.methods \subseteq DOMAIN Over(t.methods, [key \in keys |-> PredicateState])
      BY DEF Over
    <2> QED
      BY <2>1, TableOperators DEF GeneratedPredicates
  <1>3. ASSUME NEW owner, NEW name PROVE TablesKept(t, DslMethod(t, owner, name))
    <2>1. DOMAIN t.methods \subseteq DOMAIN OrInsert(t.methods, Key(owner, name, TRUE), Explicit(<< offset >>))
      BY DEF OrInsert
    <2> QED
      BY <2>1, TableOperators DEF DslMethod
  <1>4. ASSUME NEW class, NEW info, class \in Known(t) PROVE TablesKept(t, SetInfo(t, class, info))
    <2>1. DOMAIN Insert(t.classes, class, info) = Known(t)
      BY <1>4 DEF Known, Insert
    <2> QED
      BY <2>1, TableOperators DEF SetInfo
  <1> QED
    BY <1>1, <1>2, <1>3, <1>4

LEMMA TablesAre == ASSUME Inv PROVE DOMAIN tables = TableFields /\ DOMAIN world = WorldFields
BY DEF Inv, Types

LEMMA SignaturesQuiet == ASSUME Inv, ThemesAssumption, VisitSig \/ VisitComment PROVE Inv'
  <1>1. TablesKept(tables, tables)
    BY TablesAre, TableOperators
  <1>2. CASE VisitSig
    <2>1. Step(registrar, tables, AfterSig(pending, offset), [world EXCEPT !.sigs = Append(@, offset)])
      BY <1>2 DEF VisitSig
    <2>2. WorldKept(world, [world EXCEPT !.sigs = Append(@, offset)])
      BY TablesAre, WorldOperators
    <2> QED
      BY <1>1, <2>1, <2>2, QuietStep
  <1>3. CASE VisitComment
    <2>1. Step(registrar, tables, AfterComment(pending, offset), [world EXCEPT !.comments = Append(@, offset)])
      BY <1>3 DEF VisitComment
    <2>2. WorldKept(world, [world EXCEPT !.comments = Append(@, offset)])
      BY TablesAre, WorldOperators
    <2> QED
      BY <1>1, <2>1, <2>2, QuietStep
  <1> QED
    BY <1>2, <1>3

LEMMA VisibilityQuiet == ASSUME Inv, ThemesAssumption, SetVisibilityForMethodNames PROVE Inv'
  <1>1. PICK t \in Of("visibility") :
          LET key == Key(CurrentOwner(registrar), t.name, t.classMethod \/ CurrentSingleton(registrar))
              rubyKey == Key(Inner(world).owner, t.name, t.classMethod \/ Inner(world).singleton)
          IN  Statement(registrar,
                  IF key \in DOMAIN tables.methods
                  THEN [tables EXCEPT !.methods = [@ EXCEPT ![key] = [tables.methods[key] EXCEPT !.visibility = t.visibility]]]
                  ELSE tables,
                  SetVisibility(world, rubyKey, t.visibility))
    BY DEF SetVisibilityForMethodNames
  <1> DEFINE key == Key(CurrentOwner(registrar), t.name, t.classMethod \/ CurrentSingleton(registrar))
             rubyKey == Key(Inner(world).owner, t.name, t.classMethod \/ Inner(world).singleton)
             u == IF key \in DOMAIN tables.methods
                  THEN [tables EXCEPT !.methods = [@ EXCEPT ![key] = [tables.methods[key] EXCEPT !.visibility = t.visibility]]]
                  ELSE tables
             w == SetVisibility(world, rubyKey, t.visibility)
  <1>2. Statement(registrar, u, w)
    BY <1>1
  <1>3. TablesKept(tables, u)
    BY TablesAre, TableOperators
  <1>4. WorldKept(world, w)
    BY TablesAre, WorldMethods
  <1> HIDE DEF u, w
  <1> QED
    BY <1>2, <1>3, <1>4, QuietStatement

LEMMA AliasesQuiet == ASSUME Inv, ThemesAssumption, VisitAlias \/ VisitModuleFunction PROVE Inv'
  <1>1. CASE VisitAlias
    <2>1. \E a, new, old : Statement(registrar, [tables EXCEPT !.aliases = a], Alias(world, new, old))
      BY <1>1 DEF VisitAlias
    <2> QED
      BY <2>1, TablesAre, TableOperators, WorldMethods, QuietStatement
  <1>2. CASE VisitModuleFunction
    <2>1. \E a, key : Statement(registrar, [tables EXCEPT !.aliases = a], Function(world, key))
      BY <1>2 DEF VisitModuleFunction
    <2> QED
      BY <2>1, TablesAre, TableOperators, WorldMethods, QuietStatement
  <1> QED
    BY <1>1, <1>2

LEMMA AttrQuiet == ASSUME Inv, ThemesAssumption, VisitAttr PROVE Inv'
  <1>1. PICK keys, signatures, key :
          LET signed == Sign(world, key, file)
          IN Statement(registrar, AddAccessors(tables, keys, signatures),
                       IF file = SourceFile THEN Attr(signed, key) ELSE signed)
    BY DEF VisitAttr
  <1> DEFINE u == AddAccessors(tables, keys, signatures)
             signed == Sign(world, key, file)
             w == IF file = SourceFile THEN Attr(signed, key) ELSE signed
  <1>2. Statement(registrar, u, w)
    BY <1>1
  <1>3. TablesKept(tables, u)
    BY TablesAre, TableEdits
  <1>4. WorldKept(world, signed)
    BY TablesAre, WorldMethods
  <1>5. WorldKept(signed, Attr(signed, key))
    BY <1>4, WorldMethods DEF WorldKept
  <1> HIDE DEF u, signed
  <1>6. WorldKept(world, w)
    BY <1>4, <1>5, WorldKeptTwice
  <1> HIDE DEF w
  <1> QED
    BY <1>2, <1>3, <1>6, QuietStatement

\* The class a statement is about, in a body or by its name, is one that is known.
LEMMA OwnerKnown ==
    ASSUME Inv, InClass(registrar)
    PROVE  CurrentOwner(registrar) \in Known(tables) /\ Last(registrar.classStack) \in Known(tables)
  <1>1. PICK past \in Seq(Stacks) : /\ Unwinds(past, world.scopes, registrar.open, Known(tables))
                                    /\ past[Len(past)] = Now(registrar)
    BY DEF Inv, BodiesNest
  <1> DEFINE s == past[Len(past)]
  <1>2. /\ Len(past) \in DOMAIN past /\ s \in Stacks
        /\ Range(s.class) \subseteq Known(tables) /\ Range(s.singleton) \subseteq Known(tables)
    <2>1. world.scopes \in Seq(Scopes) /\ registrar.open \in Seq(Nodes)
      BY DEF Inv, Types
    <2>2. Len(past) \in Nat /\ Len(past) >= 1 /\ DOMAIN past = 1 .. Len(past) /\ s \in Stacks
      BY <1>1, <2>1, UnwindsSizes
    <2>3. Len(past) \in DOMAIN past
      BY <2>2
    <2> QED
      BY <1>1, <2>2, <2>3 DEF Unwinds
  <1>3. s.class = registrar.classStack /\ s.singleton = registrar.singletonStack
    BY <1>1 DEF Now
  <1>4. registrar.classStack \in Seq(Path) /\ registrar.singletonStack \in Seq(Path)
    BY <1>2, <1>3 DEF Stacks
  <1>5. \A stack \in Seq(Path) : stack # << >> => Last(stack) \in Range(stack)
    BY DEF Last, Range
  <1>6. Last(registrar.classStack) \in Known(tables)
    BY <1>2, <1>3, <1>4, <1>5 DEF InClass
  <1>7. registrar.singletonStack # << >> => Last(registrar.singletonStack) \in Known(tables)
    BY <1>2, <1>3, <1>4, <1>5
  <1> QED
    BY <1>6, <1>7 DEF CurrentOwner, LastOr, InClass

LEMMA NamedKnown ==
    ASSUME Inv, NEW reference \in Reference, Single(reference), Inner(world).kind \in {"class", "singleton"}
    PROVE  ScopeReference(registrar.classStack, reference, Known(tables)).path = Lookup(world, reference)
  <1>1. PICK past \in Seq(Stacks) : /\ Unwinds(past, world.scopes, registrar.open, Known(tables))
                                    /\ past[Len(past)] = Now(registrar)
    BY DEF Inv, BodiesNest
  <1> DEFINE open == registrar.open
  <1>2. world.scopes \in Seq(Scopes) /\ open \in Seq(Nodes) /\ Known(tables) = DOMAIN world.superclasses
    BY DEF Inv, Types
  <1>3. Unwinds(past, world.scopes, open, DOMAIN world.superclasses)
    BY <1>1, <1>2
  <1>4. past[Len(past)].class = registrar.classStack
    BY <1>1 DEF Now
  <1> HIDE DEF open
  <1>5. ScopeReference(past[Len(past)].class, reference, DOMAIN world.superclasses).path = Lookup(world, reference)
    BY <1>2, <1>3, ReferenceAgrees
  <1> QED
    BY <1>2, <1>4, <1>5

\* What is written is Regular.
WrittenRegular == \A w, kind, t : Written(w, kind, t) => Regular(w, t)

LEMMA MixinQuiet == ASSUME Inv, ThemesAssumption, WrittenRegular, VisitMixin PROVE Inv'
  <1>1. PICK t, info, class :
          /\ t \in Of("mixin")
          /\ LET owner == IF t.on = << >> THEN CurrentOwner(registrar)
                          ELSE ScopeReference(registrar.classStack, t.on[1], Known(tables)).path
             IN  /\ t.on = << >> => InClass(registrar)
                 /\ t.on # << >> => Defined(world, t.on[1])
                 /\ Statement(registrar, SetInfo(tables, owner, info),
                       Mix(world, class, t.on = << >> /\ Inner(world).singleton, t.kind, Lookup(world, t.module)))
    BY DEF VisitMixin
  <1>0. t \in Of("mixin")
    BY <1>1
  <1> USE <1>0
  <1> DEFINE owner == IF t.on = << >> THEN CurrentOwner(registrar)
                      ELSE ScopeReference(registrar.classStack, t.on[1], Known(tables)).path
             w == Mix(world, class, t.on = << >> /\ Inner(world).singleton, t.kind, Lookup(world, t.module))
  <1>2. /\ t.on = << >> => InClass(registrar)
        /\ t.on # << >> => Defined(world, t.on[1])
        /\ Statement(registrar, SetInfo(tables, owner, info), w)
    BY <1>1
  <1>3. owner \in Known(tables)
    <2>1. CASE t.on = << >>
      BY <1>2, <2>1, OwnerKnown
    <2>2. CASE t.on # << >>
      <3>1. t \in Themes[theme].statements /\ t.op = "mixin" /\ Written(world, file, t)
        BY DEF Of
      <3>2. t.on[1] \in Reference
        BY <2>2, <3>1 DEF ThemesAssumption, Inv, Types
      <3>3. Inner(world).kind \in {"class", "singleton"} /\ Single(t.on[1])
        BY <2>2, <3>1 DEF WrittenRegular, Regular
      <3>4. Lookup(world, t.on[1]) \in Known(tables)
        BY <1>2, <2>2 DEF Defined, Inv
      <3> QED
        BY <2>2, <3>2, <3>3, <3>4, NamedKnown
    <2> QED
      BY <2>1, <2>2
  <1>4. TablesKept(tables, SetInfo(tables, owner, info))
    BY <1>3, TablesAre, TableEdits
  <1>5. WorldKept(world, w)
    BY TablesAre, WorldMixins
  <1> HIDE DEF owner, w
  <1> QED
    BY <1>2, <1>4, <1>5, QuietStatement

LEMMA ClassCallsQuiet ==
    ASSUME Inv, ThemesAssumption, ExtendSelf \/ RegisterMember \/ RegisterAttachedClass \/ RegisterClassDslMethod
    PROVE  Inv'
  <1>1. CASE ExtendSelf
    <2>1. PICK info, class, singleton :
            /\ InClass(registrar)
            /\ Statement(registrar, SetInfo(tables, CurrentOwner(registrar), info),
                         Mix(world, class, singleton, "extend", class))
      BY <1>1 DEF ExtendSelf
    <2>2. TablesKept(tables, SetInfo(tables, CurrentOwner(registrar), info))
      BY <2>1, OwnerKnown, TablesAre, TableEdits
    <2>3. WorldKept(world, Mix(world, class, singleton, "extend", class))
      BY TablesAre, WorldMixins
    <2> QED
      BY <2>1, <2>2, <2>3, QuietStatement
  <1>2. CASE RegisterMember
    <2>1. PICK info, class, name :
            /\ InClass(registrar)
            /\ Statement(registrar, SetInfo(tables, Last(registrar.classStack), info), Member(world, class, name))
      BY <1>2 DEF RegisterMember
    <2>2. TablesKept(tables, SetInfo(tables, Last(registrar.classStack), info))
      BY <2>1, OwnerKnown, TablesAre, TableEdits
    <2>3. WorldKept(world, Member(world, class, name))
      BY TablesAre, WorldMixins
    <2> QED
      BY <2>1, <2>2, <2>3, QuietStatement
  <1>3. CASE RegisterAttachedClass
    <2>1. PICK info, class, name :
            /\ InClass(registrar)
            /\ Statement(registrar, SetInfo(tables, CurrentOwner(registrar), info), Member(world, class, name))
      BY <1>3 DEF RegisterAttachedClass
    <2>2. TablesKept(tables, SetInfo(tables, CurrentOwner(registrar), info))
      BY <2>1, OwnerKnown, TablesAre, TableEdits
    <2>3. WorldKept(world, Member(world, class, name))
      BY TablesAre, WorldMixins
    <2> QED
      BY <2>1, <2>2, <2>3, QuietStatement
  <1>4. CASE RegisterClassDslMethod
    <2>1. PICK owner, name : Statement(registrar, DslMethod(tables, owner, name), world)
      BY <1>4 DEF RegisterClassDslMethod
    <2>2. TablesKept(tables, DslMethod(tables, owner, name)) /\ WorldKept(world, world)
      BY TablesAre, TableEdits, WorldOperators
    <2> QED
      BY <2>1, <2>2, QuietStatement
  <1> QED
    BY <1>1, <1>2, <1>3, <1>4

LEMMA GeneratedQuiet ==
    ASSUME Inv, ThemesAssumption, RegisterStructProperty \/ RegisterClassAttribute \/ RegisterDelegateMethods
    PROVE  Inv'
  <1>1. CASE RegisterStructProperty
    <2>1. PICK t \in Of("prop") :
            LET owner == CurrentOwner(registrar)
                fields == IF owner \in DOMAIN tables.structFields THEN tables.structFields[owner] ELSE << >>
                keys == {Key(owner, t.name, FALSE)} \union (IF t.immutable THEN {} ELSE {Key(owner, t.writer, FALSE)})
                class == Inner(world).owner
            IN  Statement(registrar,
                    IF ~ExtendsTStruct(tables, owner) THEN tables
                    ELSE DslMethod(
                            [AddAccessors(tables, keys, << offset >>) EXCEPT !.structFields =
                                Insert(@, owner, IF t.name \in ToSet(fields) THEN fields ELSE Append(fields, t.name))],
                            owner, IF t.immutable THEN "const" ELSE "prop"),
                    AddField(world, class, t.name))
      BY <1>1 DEF RegisterStructProperty
    <2> DEFINE owner == CurrentOwner(registrar)
               fields == IF owner \in DOMAIN tables.structFields THEN tables.structFields[owner] ELSE << >>
               keys == {Key(owner, t.name, FALSE)} \union (IF t.immutable THEN {} ELSE {Key(owner, t.writer, FALSE)})
               class == Inner(world).owner
               name == t.name
               added == AddAccessors(tables, keys, << offset >>)
               more == Insert(added.structFields, owner, IF name \in ToSet(fields) THEN fields ELSE Append(fields, name))
               filled == [added EXCEPT !.structFields = more]
               u == DslMethod(filled, owner, IF t.immutable THEN "const" ELSE "prop")
               v == IF ~ExtendsTStruct(tables, owner) THEN tables ELSE u
    <2>2. TablesKept(tables, added)
      BY TablesAre, TableEdits
    <2> HIDE DEF more
    <2>3. TablesKept(added, filled)
      <3>1. DOMAIN added = TableFields
        BY <2>2 DEF TablesKept
      <3> HIDE DEF added
      <3> QED
        BY <3>1, TableOperators
    <2>4. TablesKept(filled, u)
      <3>1. DOMAIN filled = TableFields
        BY <2>3 DEF TablesKept
      <3> HIDE DEF filled
      <3> QED
        BY <3>1, TableEdits
    <2>5. Statement(registrar, v, AddField(world, class, name))
      BY <2>1 DEF more
    <2> HIDE DEF added, filled, u
    <2>6. TablesKept(tables, v)
      BY <2>2, <2>3, <2>4, TablesKeptTwice, TablesAre, TableOperators
    <2>7. WorldKept(world, AddField(world, class, name))
      BY TablesAre, WorldMixins
    <2> HIDE DEF v
    <2> QED
      BY <2>5, <2>6, <2>7, QuietStatement
  <1>2. CASE RegisterClassAttribute
    <2>1. PICK readers, predicates, keys, others, visibility :
            Statement(registrar, GeneratedPredicates(GeneratedAccessors(tables, readers), predicates),
                DefineAll(DefineAll(world, keys, << "accessor" >>, visibility), others, << "predicate" >>, "public"))
      BY <1>2 DEF RegisterClassAttribute
    <2> DEFINE added == GeneratedAccessors(tables, readers)
               u == GeneratedPredicates(added, predicates)
               defined == DefineAll(world, keys, << "accessor" >>, visibility)
               w == DefineAll(defined, others, << "predicate" >>, "public")
    <2>2. TablesKept(tables, added)
      BY TablesAre, TableEdits DEF GeneratedAccessors
    <2>3. TablesKept(added, u)
      BY <2>2, TableEdits DEF TablesKept
    <2>4. WorldKept(world, defined)
      BY TablesAre, WorldMethods
    <2>5. WorldKept(defined, w)
      BY <2>4, WorldMethods DEF WorldKept
    <2>6. Statement(registrar, u, w)
      BY <2>1
    <2> HIDE DEF added, u, defined, w
    <2> QED
      BY <2>2, <2>3, <2>4, <2>5, <2>6, TablesKeptTwice, WorldKeptTwice, QuietStatement
  <1>3. CASE RegisterDelegateMethods
    <2>1. PICK name, state, key, visibility :
            Statement(registrar, [tables EXCEPT !.methods = OrInsert(@, name, state)],
                      Define(world, key, Anything, visibility))
      BY <1>3 DEF RegisterDelegateMethods
    <2>2. DOMAIN tables.methods \subseteq DOMAIN OrInsert(tables.methods, name, state)
      BY DEF OrInsert
    <2>3. TablesKept(tables, [tables EXCEPT !.methods = OrInsert(@, name, state)])
      BY <2>2, TablesAre, TableOperators
    <2>4. WorldKept(world, Define(world, key, Anything, visibility))
      BY TablesAre, WorldMethods
    <2> QED
      BY <2>1, <2>3, <2>4, QuietStatement
  <1> QED
    BY <1>1, <1>2, <1>3


LEMMA FilesQuiet == ASSUME Inv, ThemesAssumption, NextFile PROVE Inv'
  <1>1. TablesKept(tables, tables') /\ WorldKept(world, world')
    BY TablesAre, TableOperators, WorldOperators DEF NextFile
  <1>2. left' \in 0 .. Themes[theme].length
    <2> DEFINE length == Themes[theme].length
    <2>1. left \in 0 .. length /\ length \in Nat /\ left > 0 /\ left' = left - 1
      BY DEF Inv, Types, ThemesAssumption, NextFile
    <2> HIDE DEF length
    <2>2. left - 1 \in 0 .. length
      BY <2>1
    <2> QED
      BY <2>1, <2>2 DEF length
  <1>3. theme' = theme /\ file' \in Themes[theme].files /\ registered' \in BOOLEAN /\ registrar' = registrar
    BY DEF Inv, Types, NextFile
  <1> QED
    BY <1>1, <1>2, <1>3, Quiet

LEMMA NormalizedKept == ASSUME NEW t, DOMAIN t = TableFields PROVE TablesKept(t, NormalizeClassGraph(t))
  <1>1. DOMAIN NormalizeClassGraph(t) = TableFields
    BY DEF NormalizeClassGraph
  <1>2. /\ NormalizeClassGraph(t).definitions = t.definitions /\ NormalizeClassGraph(t).kinds = t.kinds
        /\ NormalizeClassGraph(t).methods = t.methods
    BY DEF NormalizeClassGraph, TableFields
  <1>3. DOMAIN NormalizeClassGraph(t).classes = DOMAIN t.classes
    BY DEF NormalizeClassGraph, TableFields, Known
  <1> QED
    BY <1>1, <1>2, <1>3 DEF TablesKept, Known

LEMMA StructsKept == ASSUME NEW t, DOMAIN t = TableFields PROVE TablesKept(t, GenerateStructMethods(t))
  <1> DEFINE u == GenerateStructMethods(t)
  <1>1. DOMAIN u = TableFields
    BY DEF GenerateStructMethods
  <1>2. u.definitions = t.definitions /\ u.kinds = t.kinds /\ u.classes = t.classes
    BY DEF GenerateStructMethods, TableFields
  <1>3. DOMAIN t.methods \subseteq DOMAIN u.methods
    BY DEF GenerateStructMethods, TableFields, Over
  <1> HIDE DEF u
  <1>4. TablesKept(t, u)
    BY <1>1, <1>2, <1>3 DEF TablesKept, Known
  <1> QED
    BY <1>4 DEF u

LEMMA RegisterQuiet == ASSUME Inv, RegisterMethods PROVE Inv'
  <1> DEFINE normalized == NormalizeClassGraph(tables)
             t == GenerateStructMethods(normalized)
             methods == [key \in DOMAIN t.methods |-> Reconciled(t, key)]
  <1>1. tables' = [t EXCEPT !.methods = methods]
    BY DEF RegisterMethods
  <1>2. TablesKept(tables, normalized)
    BY TablesAre, NormalizedKept
  <1>3. TablesKept(normalized, t)
    <2>1. DOMAIN normalized = TableFields
      BY <1>2 DEF TablesKept
    <2> HIDE DEF normalized
    <2> QED
      BY <2>1, StructsKept
  <1>4. DOMAIN t = TableFields
    BY <1>3 DEF TablesKept
  <1>5. DOMAIN t.methods = DOMAIN methods
    OBVIOUS
  <1> HIDE DEF normalized, t, methods
  <1>6. TablesKept(t, tables')
    BY <1>1, <1>4, <1>5, TableOperators
  <1>7. TablesKept(tables, tables')
    BY <1>2, <1>3, <1>6, TablesKeptTwice
  <1>8. WorldKept(world, world')
    BY TablesAre, WorldOperators DEF RegisterMethods
  <1>9. /\ theme' = theme /\ left' \in 0 .. Themes[theme].length /\ file' \in Themes[theme].files
        /\ registered' \in BOOLEAN /\ registrar' = registrar
    BY DEF Inv, Types, RegisterMethods
  <1> QED
    BY <1>7, <1>8, <1>9, Quiet

\* The open bodies and what Inv says of the innermost.
LEMMA InnermostBody ==
    ASSUME Inv, NEW past \in Seq(Stacks), Unwinds(past, world.scopes, registrar.open, Known(tables)),
           past[Len(past)] = Now(registrar)
    PROVE  /\ Len(past) \in Nat /\ Len(past) >= 1 /\ Len(world.scopes) = Len(past)
           /\ Len(registrar.open) = Len(past) - 1
           /\ DOMAIN past = 1 .. Len(past) /\ past # << >>
           /\ world.scopes # << >> /\ Inner(world) = world.scopes[Len(past)] /\ Inner(world) \in Scopes
           /\ Now(registrar) \in Stacks /\ Situated(Now(registrar), Inner(world))
           /\ registrar.classStack \in Seq(Path) /\ registrar.singletonStack \in Seq(Path)
           /\ registrar.dynamicStack \in Seq(Targets)
           /\ Range(registrar.classStack) \subseteq Known(tables)
           /\ Range(registrar.singletonStack) \subseteq Known(tables)
  <1>1. world.scopes \in Seq(Scopes) /\ registrar.open \in Seq(Nodes)
    BY DEF Inv, Types
  <1>2. /\ Len(past) \in Nat /\ Len(past) >= 1 /\ Len(world.scopes) = Len(past)
        /\ Len(registrar.open) = Len(past) - 1 /\ DOMAIN past = 1 .. Len(past) /\ past # << >>
        /\ world.scopes # << >> /\ Last(world.scopes) = world.scopes[Len(past)]
        /\ past[Len(past)] \in Stacks /\ world.scopes[Len(past)] \in Scopes
    BY <1>1, UnwindsSizes
  <1>3. Len(past) \in DOMAIN past
    <2>1. Len(past) \in Nat /\ Len(past) >= 1 /\ DOMAIN past = 1 .. Len(past)
      BY <1>2
    <2> QED
      BY <2>1
  <1>4. /\ Situated(past[Len(past)], world.scopes[Len(past)])
        /\ Range(past[Len(past)].class) \subseteq Known(tables)
        /\ Range(past[Len(past)].singleton) \subseteq Known(tables)
    BY <1>3 DEF Unwinds
  <1>5. /\ past[Len(past)].class = registrar.classStack /\ past[Len(past)].singleton = registrar.singletonStack
        /\ past[Len(past)].dynamic = registrar.dynamicStack
    BY DEF Now
  <1>6. /\ registrar.classStack \in Seq(Path) /\ registrar.singletonStack \in Seq(Path)
        /\ registrar.dynamicStack \in Seq(Targets)
    BY <1>2, <1>5 DEF Stacks
  <1> QED
    BY <1>2, <1>4, <1>5, <1>6 DEF Inner

\* In a class there is a body to have a default visibility.
LEMMA VisibilityOpen == ASSUME Inv, InClass(registrar) PROVE registrar.visibilityStack # << >>
  <1>1. PICK past \in Seq(Stacks) : /\ Unwinds(past, world.scopes, registrar.open, Known(tables))
                                    /\ past[Len(past)] = Now(registrar)
    BY DEF Inv, BodiesNest
  <1> DEFINE n == Len(past)
             dynamic == registrar.dynamicStack
  <1>2. /\ n \in Nat /\ n >= 1 /\ Len(registrar.open) = n - 1 /\ DOMAIN past = 1 .. n
        /\ Inner(world) = world.scopes[n] /\ Inner(world) \in Scopes /\ Situated(Now(registrar), Inner(world))
    BY <1>1, InnermostBody
  <1>3. past[1].class = << >> /\ past[n].class # << >>
    BY <1>1 DEF Unwinds, Layered, Now, InClass
  <1>4. n # 1
    BY <1>3
  <1>5. Len(registrar.visibilityStack) = (n - 1) - Len(dynamic)
    BY <1>2 DEF Inv
  <1>6. Len(<< >>) = 0
    OBVIOUS
  <1>7. CASE Inner(world).kind # "block"
    <2>1. dynamic = << >>
      BY <1>2, <1>7 DEF Situated, Now, Scopes
    <2>2. Len(dynamic) = 0
      BY <2>1
    <2> HIDE DEF n, dynamic
    <2>3. Len(registrar.visibilityStack) # 0
      BY <1>2, <1>4, <1>5, <2>2
    <2> QED
      BY <1>6, <2>3
  <1>8. CASE Inner(world).kind = "block"
    <2>1. Len(dynamic) = 1
      <3>1. \E target : dynamic = << target >>
        BY <1>2, <1>8 DEF Situated, Now
      <3> QED
        BY <3>1
    <2>2. n - 1 \in 1 .. Len(registrar.open) /\ (n - 1) + 1 = n
      <3>1. \A m \in Nat : m >= 1 /\ m # 1 => m - 1 \in 1 .. m - 1 /\ (m - 1) + 1 = m
        OBVIOUS
      <3> HIDE DEF n
      <3> QED
        BY <1>2, <1>4, <3>1
    <2>3. DOMAIN registrar.open = 1 .. Len(registrar.open)
      BY DEF Inv, Types
    <2>4. registrar.open[n - 1].kind = "block" /\ Around(past[n - 1], past[n], registrar.open[n - 1])
      BY <1>1, <1>2, <1>8, <2>2, <2>3 DEF Unwinds
    <2>5. past[n - 1].class = past[n].class
      BY <2>4 DEF Around
    <2>6. n - 1 # 1
      BY <1>3, <2>5
    <2> HIDE DEF n, dynamic
    <2>7. Len(registrar.visibilityStack) # 0
      BY <1>2, <1>4, <1>5, <2>1, <2>6
    <2> QED
      BY <1>6, <2>7
  <1> QED
    BY <1>7, <1>8

\* A bare private changes a visibility and no stack of owners.
LEMMA DefaultQuiet == ASSUME Inv, ThemesAssumption, SetDefaultVisibility PROVE Inv'
  <1>1. PICK t \in Of("default") :
          /\ InClass(registrar)
          /\ Step([registrar EXCEPT !.visibilityStack = Append(Front(@), t.visibility)], tables,
                  AfterModifier(pending), [SetDefault(world, t.visibility) EXCEPT !.comments = << >>])
    BY DEF SetDefaultVisibility
  <1> DEFINE v == t.visibility
             stack == registrar.visibilityStack
             r == [registrar EXCEPT !.visibilityStack = Append(Front(stack), v)]
             w == [SetDefault(world, v) EXCEPT !.comments = << >>]
             scopes == world.scopes
             later == [scopes EXCEPT ![Len(scopes)] = [@ EXCEPT !.visibility = v]]
  <1>2. v \in MethodVisibilities
    BY DEF Of, ThemesAssumption, Inv, Types
  <1>3. Step(r, tables, AfterModifier(pending), w)
    BY <1>1
  <1>4. stack \in Seq(MethodVisibilities) /\ DOMAIN registrar = RegistrarFields /\ scopes \in Seq(Scopes) /\ DOMAIN world = WorldFields
    BY DEF Inv, Types
  <1>5. stack # << >>
    BY <1>1, VisibilityOpen
  <1>6. Front(stack) \in Seq(MethodVisibilities) /\ Append(Front(stack), v) \in Seq(MethodVisibilities)
        /\ Len(Append(Front(stack), v)) = Len(stack)
    <2>1. Front(stack) \in Seq(MethodVisibilities) /\ Len(Front(stack)) = Len(stack) - 1 /\ Len(stack) \in Nat
      BY <1>4, <1>5, FrontFacts
    <2> HIDE DEF v, stack
    <2> QED
      BY <1>2, <2>1, AppendFacts
  <1> DEFINE changed == Append(Front(stack), v)
  <1>7. RegistrarKept(registrar, r)
    <2>1. r = [registrar EXCEPT !.visibilityStack = changed]
      OBVIOUS
    <2> HIDE DEF changed
    <2>2. DOMAIN r = RegistrarFields
      BY <1>4
    <2>3. /\ r.classStack = registrar.classStack /\ r.singletonStack = registrar.singletonStack
          /\ r.dynamicStack = registrar.dynamicStack /\ r.open = registrar.open /\ r.visibilityStack = changed
      BY <1>4, <2>1 DEF RegistrarFields
    <2> HIDE DEF r
    <2> QED
      BY <1>6, <2>2, <2>3 DEF RegistrarKept, changed
  <1>8. ScopesKept(scopes, later)
    <2>1. Len(later) = Len(scopes) /\ DOMAIN later = DOMAIN scopes /\ DOMAIN scopes = 1 .. Len(scopes)
      BY <1>4
    <2>2. \A i \in DOMAIN scopes : scopes[i] \in Scopes
      BY <1>4
    <2>3. ASSUME NEW i \in DOMAIN scopes
          PROVE  /\ later[i] \in Scopes /\ later[i].kind = scopes[i].kind /\ later[i].cref = scopes[i].cref
                 /\ later[i].owner = scopes[i].owner /\ later[i].singleton = scopes[i].singleton
      <3>1. later[i] = IF i = Len(scopes) THEN [scopes[i] EXCEPT !.visibility = v] ELSE scopes[i]
        BY <1>4
      <3>2. scopes[i] \in Scopes
        BY <2>2
      <3> HIDE DEF later, scopes, v
      <3> QED
        BY <1>2, <3>1, <3>2 DEF Scopes
    <2>4. later \in Seq(Scopes)
      <3>1. later = [i \in 1 .. Len(scopes) |-> later[i]]
        <4>1. later = [i \in DOMAIN scopes |-> later[i]]
          OBVIOUS
        <4> HIDE DEF later, scopes
        <4> QED
          BY <2>1, <4>1
      <3>2. Len(scopes) \in Nat
        BY <1>4
      <3> HIDE DEF later, scopes
      <3> QED
        BY <2>1, <2>3, <3>1, <3>2
    <2> HIDE DEF later, scopes
    <2> QED
      BY <2>1, <2>3, <2>4 DEF ScopesKept
  <1>9. w.scopes = later /\ DOMAIN w = WorldFields /\ w.superclasses = world.superclasses /\ w.declared = world.declared
    <2>1. SetDefault(world, v) = [world EXCEPT !.scopes = later]
      BY DEF SetDefault, Inner, Last
    <2> HIDE DEF later, v
    <2>2. w = [[world EXCEPT !.scopes = later] EXCEPT !.comments = << >>]
      BY <2>1
    <2> HIDE DEF w
    <2> QED
      BY <1>4, <2>2 DEF WorldFields
  <1>10. /\ theme' = theme /\ left' \in 0 .. Themes[theme].length /\ file' \in Themes[theme].files
         /\ registered' \in BOOLEAN /\ registrar' = r /\ tables' = tables /\ world' = w
    <2> HIDE DEF r, w
    <2> QED
      BY <1>3, StepTypes
  <1> HIDE DEF r, w, later, scopes, stack
  <1>11. world'.scopes = later /\ ScopesKept(world.scopes, world'.scopes) /\ RegistrarKept(registrar, registrar')
    BY <1>7, <1>8, <1>9, <1>10 DEF scopes
  <1>12. Types'
    BY <1>9, <1>10, <1>11 DEF Inv, Types, RegistrarKept, ScopesKept
  <1>13. DefinitionsRecorded'
    BY <1>9, <1>10 DEF Inv, DefinitionsRecorded
  <1>14. Known(tables') = DOMAIN world'.superclasses /\ Known(tables) \subseteq Known(tables')
    BY <1>9, <1>10 DEF Inv
  <1> QED
    BY <1>11, <1>12, <1>13, <1>14, Frame


-----------------------------------------------------------------------------
(* A def. *)

\* The class the stacks give a def is the one Ruby's scope gives it.
LEMMA KeyAgrees ==
    ASSUME Inv, ThemesAssumption, WrittenRegular, NEW t \in Of("def")
    PROVE  DefinitionKey(registrar, t) = Key(Inner(world).owner, t.name, t.onSelf \/ Inner(world).singleton)
  <1>1. t \in Themes[theme].statements /\ t.op = "def" /\ Written(world, file, t)
    BY DEF Of
  <1>2. t.onSelf \in BOOLEAN
    BY <1>1 DEF ThemesAssumption, Inv, Types
  <1>3. t.onSelf => Inner(world).kind \in {"class", "struct"}
    BY <1>1 DEF WrittenRegular, Regular
  <1>4. PICK past \in Seq(Stacks) : /\ Unwinds(past, world.scopes, registrar.open, Known(tables))
                                    /\ past[Len(past)] = Now(registrar)
    BY DEF Inv, BodiesNest
  <1> DEFINE scope == Inner(world)
             class == registrar.classStack
             singletons == registrar.singletonStack
             dynamic == registrar.dynamicStack
  <1>5. scope \in Scopes /\ Situated(Now(registrar), scope)
    BY <1>4, InnermostBody
  <1>6. scope.singleton \in BOOLEAN /\ scope.kind \in {"class", "struct", "singleton", "block"}
    BY <1>5 DEF Scopes
  <1>7. Now(registrar).class = class /\ Now(registrar).singleton = singletons /\ Now(registrar).dynamic = dynamic
    BY DEF Now
  <1>8. DefinitionKey(registrar, t) =
          IF ~t.onSelf /\ dynamic # << >> THEN Key(Last(dynamic).owner, t.name, Last(dynamic).singleton)
          ELSE IF t.onSelf THEN Key(LastOr(class, TopLevel), t.name, TRUE)
          ELSE Key(LastOr(singletons, LastOr(class, TopLevel)), t.name, singletons # << >>)
    BY DEF DefinitionKey, CurrentKey, CurrentOwner, CurrentSingleton
  <1> HIDE DEF scope, class, singletons, dynamic
  <1>9. CASE scope.kind \in {"class", "struct"}
    <2>1. singletons = << >> /\ dynamic = << >> /\ ~scope.singleton /\ LastOr(class, TopLevel) = scope.owner
      BY <1>5, <1>7, <1>9 DEF Situated, LastOr
    <2>2. LastOr(singletons, LastOr(class, TopLevel)) = scope.owner
      BY <2>1 DEF LastOr
    <2>3. CASE t.onSelf
      <3>1. DefinitionKey(registrar, t) = Key(scope.owner, t.name, TRUE)
        BY <1>8, <2>1, <2>3
      <3>2. (t.onSelf \/ scope.singleton) = TRUE
        BY <2>3
      <3> QED
        BY <3>1, <3>2 DEF scope
    <2>4. CASE ~t.onSelf
      <3>1. DefinitionKey(registrar, t) = Key(scope.owner, t.name, FALSE)
        BY <1>8, <2>1, <2>2, <2>4
      <3>2. (t.onSelf \/ scope.singleton) = FALSE
        BY <2>1, <2>4
      <3> QED
        BY <3>1, <3>2 DEF scope
    <2> QED
      BY <2>3, <2>4
  <1>10. CASE scope.kind = "singleton"
    <2>1. singletons = << scope.owner >> /\ dynamic = << >> /\ scope.singleton
      BY <1>5, <1>7, <1>10 DEF Situated
    <2>2. ~t.onSelf
      BY <1>3, <1>10 DEF scope
    <2>3. LastOr(singletons, LastOr(class, TopLevel)) = scope.owner /\ (singletons # << >>) = TRUE
      BY <2>1 DEF LastOr, Last
    <2>4. DefinitionKey(registrar, t) = Key(scope.owner, t.name, TRUE)
      BY <1>8, <2>1, <2>2, <2>3
    <2>5. (t.onSelf \/ scope.singleton) = TRUE
      BY <2>1
    <2> QED
      BY <2>4, <2>5 DEF scope
  <1>11. CASE scope.kind = "block"
    <2>1. dynamic = << [owner |-> scope.owner, singleton |-> scope.singleton] >>
      BY <1>5, <1>7, <1>11 DEF Situated
    <2>2. ~t.onSelf
      BY <1>3, <1>11 DEF scope
    <2>3. dynamic # << >> /\ Last(dynamic).owner = scope.owner /\ Last(dynamic).singleton = scope.singleton
      BY <2>1 DEF Last
    <2>4. DefinitionKey(registrar, t) = Key(scope.owner, t.name, scope.singleton)
      BY <1>8, <2>2, <2>3
    <2>5. (t.onSelf \/ scope.singleton) = scope.singleton
      BY <1>6, <2>2, Zenon
    <2> QED
      BY <2>4, <2>5 DEF scope
  <1> QED
    BY <1>6, <1>9, <1>10, <1>11

LEMMA DefStep == ASSUME Inv, ThemesAssumption, WrittenRegular, VisitDef PROVE Inv'
  <1>1. PICK t, overrides, state, annotations, states, aliases :
          /\ t \in Of("def")
          /\ LET key == DefinitionKey(registrar, t)
                 rubyKey == Key(Inner(world).owner, t.name, t.onSelf \/ Inner(world).singleton)
                 declared == [Sign(world, rubyKey, file) EXCEPT !.declared = Insert(@, offset, rubyKey)]
             IN Statement([registrar EXCEPT !.overrides = overrides],
                   [tables EXCEPT
                       !.definitions = Insert(@, offset, key), !.states = states,
                       !.methods = OrInsert(@, key, state), !.kinds = Insert(@, offset, file),
                       !.annotations = annotations, !.aliases = aliases],
                   IF file = SourceFile THEN Def(declared, rubyKey, offset, t.onSelf, t.modifier) ELSE declared)
    BY DEF VisitDef
  <1>0. t \in Of("def")
    BY <1>1
  <1> USE <1>0
  <1> DEFINE key == DefinitionKey(registrar, t)
             signed == Sign(world, key, file)
             declared == [signed EXCEPT !.declared = Insert(@, offset, key)]
             defined == Def(declared, key, offset, t.onSelf, t.modifier)
             w == IF file = SourceFile THEN defined ELSE declared
             definitions == Insert(tables.definitions, offset, key)
             methods == OrInsert(tables.methods, key, state)
             kinds == Insert(tables.kinds, offset, file)
             u == [tables EXCEPT !.definitions = definitions, !.states = states, !.methods = methods,
                                 !.kinds = kinds, !.annotations = annotations, !.aliases = aliases]
             r == [registrar EXCEPT !.overrides = overrides]
  <1>2. Statement(r, u, w)
    BY <1>1, KeyAgrees
  <1>3. WorldKept(world, signed)
    BY TablesAre, WorldMethods
  <1> HIDE DEF key, signed, definitions, methods, kinds
  <1>4. /\ DOMAIN declared = WorldFields /\ declared.scopes = world.scopes
        /\ declared.superclasses = world.superclasses /\ declared.declared = Insert(world.declared, offset, key)
    BY <1>3 DEF WorldKept, WorldFields
  <1>5. WorldKept(declared, w)
    <2> HIDE DEF declared
    <2>1. WorldKept(declared, declared) /\ WorldKept(declared, defined)
      BY <1>4, WorldOperators, WorldMethods
    <2> QED
      BY <2>1
  <1>6. WorldKept(declared, Detached(w))
    <2> HIDE DEF declared, w
    <2>1. WorldKept(w, Detached(w))
      BY <1>5, WorldOperators DEF WorldKept
    <2> QED
      BY <1>5, <2>1, WorldKeptTwice
  <1>7. /\ DOMAIN u = TableFields /\ u.definitions = definitions /\ u.methods = methods /\ u.kinds = kinds
        /\ u.classes = tables.classes
    BY TablesAre DEF TableFields
  <1>8. RegistrarKept(registrar, r)
    BY SameRegistrar DEF RegistrarKept, RegistrarFields
  <1> HIDE DEF r, u, w, declared
  <1>9. /\ theme' = theme /\ left' \in 0 .. Themes[theme].length /\ file' \in Themes[theme].files
        /\ registered' \in BOOLEAN /\ registrar' = r /\ tables' = u /\ world' = Detached(w)
    <2>1. Step(r, u, NothingPending, Detached(w))
      BY <1>2 DEF Statement
    <2> QED
      BY <2>1, StepTypes
  <1>10. /\ world'.scopes = world.scopes /\ world'.superclasses = world.superclasses
         /\ world'.declared = Insert(world.declared, offset, key) /\ DOMAIN world' = WorldFields
    BY <1>4, <1>6, <1>9 DEF WorldKept
  <1>11. RegistrarKept(registrar, registrar') /\ ScopesKept(world.scopes, world'.scopes)
    BY <1>8, <1>9, <1>10, SameScopes
  <1>12. Types'
    BY <1>7, <1>9, <1>10, <1>11 DEF Inv, Types, RegistrarKept, ScopesKept
  <1>13. DefinitionsRecorded'
    <2>1. tables'.definitions = definitions /\ tables'.methods = methods /\ tables'.kinds = kinds
      BY <1>7, <1>9
    <2>2. /\ tables.definitions = world.declared /\ DOMAIN tables.definitions = DOMAIN tables.kinds
          /\ \A o \in DOMAIN tables.definitions : tables.definitions[o] \in DOMAIN tables.methods
      BY DEF Inv, DefinitionsRecorded
    <2>3. definitions = Insert(world.declared, offset, key)
      BY <2>2 DEF definitions
    <2>4. DOMAIN definitions = DOMAIN kinds
      BY <2>2 DEF definitions, kinds, Insert
    <2>5. \A o \in DOMAIN definitions : definitions[o] \in DOMAIN methods
      BY <2>2 DEF definitions, methods, Insert, OrInsert
    <2> QED
      BY <1>10, <2>1, <2>3, <2>4, <2>5 DEF DefinitionsRecorded
  <1>14. Known(tables') = DOMAIN world'.superclasses /\ Known(tables) \subseteq Known(tables')
    BY <1>7, <1>9, <1>10 DEF Inv, Known
  <1> QED
    BY <1>11, <1>12, <1>13, <1>14, Frame


-----------------------------------------------------------------------------
(* The steps that open a body. *)

LEMMA RangeAppend == ASSUME NEW S, NEW s \in Seq(S), NEW e \in S PROVE Range(Append(s, e)) \subseteq Range(s) \union {e}
  <1>1. /\ Len(s) \in Nat /\ Len(Append(s, e)) = Len(s) + 1 /\ DOMAIN Append(s, e) = 1 .. Len(s) + 1
        /\ DOMAIN s = 1 .. Len(s) /\ Append(s, e)[Len(s) + 1] = e
        /\ \A i \in 1 .. Len(s) : Append(s, e)[i] = s[i]
    BY AppendFacts
  <1>2. ASSUME NEW i \in DOMAIN Append(s, e) PROVE Append(s, e)[i] \in Range(s) \union {e}
    <2>1. CASE i = Len(s) + 1
      BY <1>1, <2>1
    <2>2. CASE i # Len(s) + 1
      <3>1. i \in 1 .. Len(s)
        BY <1>1, <2>2
      <3> QED
        BY <1>1, <3>1 DEF Range
    <2> QED
      BY <2>1, <2>2
  <1> QED
    BY <1>2 DEF Range

LEMMA Opens ==
    ASSUME Inv, Types', Inner(world).kind \in {"class", "singleton"},
           NEW scope \in Scopes, NEW node \in Nodes, node.kind = scope.kind,
           world'.scopes = Append(world.scopes, scope), registrar'.open = Append(registrar.open, node),
           Now(registrar') \in Stacks, Situated(Now(registrar'), scope),
           Around(Now(registrar), Now(registrar'), node),
           Range(registrar'.classStack) \subseteq Known(tables'),
           Range(registrar'.singletonStack) \subseteq Known(tables'),
           Known(tables') = DOMAIN world'.superclasses, Known(tables) \subseteq Known(tables'),
           DefinitionsRecorded',
           Len(registrar'.visibilityStack) - Len(registrar.visibilityStack) =
              1 - (Len(registrar'.dynamicStack) - Len(registrar.dynamicStack)),
           Len(registrar'.visibilityStack) \in Nat, Len(registrar.visibilityStack) \in Nat,
           Len(registrar'.dynamicStack) \in Nat, Len(registrar.dynamicStack) \in Nat
    PROVE  Inv'
  <1>1. PICK past \in Seq(Stacks) : /\ Unwinds(past, world.scopes, registrar.open, Known(tables))
                                    /\ past[Len(past)] = Now(registrar)
    BY DEF Inv, BodiesNest
  <1> DEFINE scopes == world.scopes
             open == registrar.open
             s == Now(registrar')
             known == Known(tables)
             more == Known(tables')
  <1>2. scopes \in Seq(Scopes) /\ open \in Seq(Nodes)
    BY DEF Inv, Types
  <1>3. Last(scopes).kind \in {"class", "singleton"}
    BY DEF Inner
  <1>4. Unwinds(past, scopes, open, known)
    BY <1>1
  <1>5. s \in Stacks /\ Situated(s, scope) /\ Around(past[Len(past)], s, node)
    BY <1>1
  <1>6. Range(s.class) \subseteq more /\ Range(s.singleton) \subseteq more /\ known \subseteq more
    BY DEF Now
  <1>7. Unwinds(Append(past, s), Append(scopes, scope), Append(open, node), more)
    <2> HIDE DEF scopes, open, s, known, more
    <2>1. Unwinds(past, scopes, open, more)
      BY <1>2, <1>4, <1>6, UnwindsStay
    <2> QED
      BY <1>2, <1>3, <1>5, <1>6, <2>1, UnwindsOpen
  <1>8. Append(past, s) \in Seq(Stacks) /\ Append(past, s)[Len(Append(past, s))] = s
    <2> HIDE DEF s
    <2>1. /\ Append(past, s) \in Seq(Stacks) /\ Len(Append(past, s)) = Len(past) + 1
          /\ Append(past, s)[Len(past) + 1] = s
      BY <1>5, AppendFacts
    <2> QED
      BY <2>1
  <1>9. BodiesNest'
    <2>1. world'.scopes = Append(scopes, scope) /\ registrar'.open = Append(open, node)
      OBVIOUS
    <2> QED
      BY <1>7, <1>8, <2>1 DEF BodiesNest
  <1>10. Len(registrar'.visibilityStack) = Len(registrar'.open) - Len(registrar'.dynamicStack)
    <2>1. Len(registrar'.open) = Len(open) + 1 /\ Len(open) \in Nat
      BY <1>2, AppendFacts
    <2>2. Len(registrar.visibilityStack) = Len(open) - Len(registrar.dynamicStack)
      BY DEF Inv
    <2> DEFINE a == Len(registrar.visibilityStack)
               b == Len(registrar'.visibilityStack)
               c == Len(registrar.dynamicStack)
               d == Len(registrar'.dynamicStack)
               o == Len(open)
    <2>3. a \in Nat /\ b \in Nat /\ c \in Nat /\ d \in Nat /\ o \in Nat /\ b - a = 1 - (d - c) /\ a = o - c
      BY <2>1, <2>2
    <2> HIDE DEF a, b, c, d, o
    <2>4. b = (o + 1) - d
      BY <2>3
    <2> QED
      BY <2>1, <2>4 DEF b, d, o
  <1> QED
    BY <1>9, <1>10 DEF Inv

\* A body that may open others.
LEMMA OuterBody ==
    ASSUME Inv, Inner(world).kind \in {"class", "singleton"}
    PROVE  /\ registrar.dynamicStack = << >> /\ world.scopes # << >>
           /\ LastOr(registrar.classStack, TopLevel) = Inner(world).cref
           /\ Inner(world).cref \in Path /\ Inner(world).owner \in Path
           /\ registrar.classStack \in Seq(Path) /\ registrar.singletonStack \in Seq(Path)
           /\ Range(registrar.classStack) \subseteq Known(tables)
           /\ Range(registrar.singletonStack) \subseteq Known(tables)
           /\ Inner(world).kind = "class" => registrar.singletonStack = << >> /\ Inner(world).owner = Inner(world).cref
           /\ Inner(world).kind = "class" /\ Len(world.scopes) > 1 => registrar.classStack # << >>
  <1>1. PICK past \in Seq(Stacks) : /\ Unwinds(past, world.scopes, registrar.open, Known(tables))
                                    /\ past[Len(past)] = Now(registrar)
    BY DEF Inv, BodiesNest
  <1> DEFINE n == Len(past)
  <1>2. /\ n \in Nat /\ n >= 1 /\ Len(world.scopes) = n /\ Len(registrar.open) = n - 1
        /\ world.scopes # << >> /\ Inner(world) = world.scopes[n] /\ Inner(world) \in Scopes
        /\ Situated(Now(registrar), Inner(world))
        /\ registrar.classStack \in Seq(Path) /\ registrar.singletonStack \in Seq(Path)
        /\ Range(registrar.classStack) \subseteq Known(tables)
        /\ Range(registrar.singletonStack) \subseteq Known(tables)
    BY <1>1, InnermostBody
  <1>3. /\ Now(registrar).class = registrar.classStack /\ Now(registrar).singleton = registrar.singletonStack
        /\ Now(registrar).dynamic = registrar.dynamicStack
    BY DEF Now
  <1>4. registrar.dynamicStack = << >> /\ LastOr(registrar.classStack, TopLevel) = Inner(world).cref
    BY <1>2, <1>3 DEF Situated, LastOr
  <1>5. Inner(world).kind = "class" => registrar.singletonStack = << >> /\ Inner(world).owner = Inner(world).cref
    BY <1>2, <1>3 DEF Situated
  <1>6. Inner(world).cref \in Path /\ Inner(world).owner \in Path
    BY <1>2 DEF Scopes
  <1>7. ASSUME Inner(world).kind = "class", Len(world.scopes) > 1 PROVE registrar.classStack # << >>
    <2>1. n - 1 \in 1 .. Len(registrar.open) /\ (n - 1) + 1 = n
      <3>1. \A m \in Nat : m > 1 => m - 1 \in 1 .. m - 1 /\ (m - 1) + 1 = m
        OBVIOUS
      <3> HIDE DEF n
      <3> QED
        BY <1>2, <1>7, <3>1
    <2>2. DOMAIN registrar.open = 1 .. Len(registrar.open)
      BY DEF Inv, Types
    <2>3. registrar.open[n - 1].kind = "class" /\ Around(past[n - 1], past[n], registrar.open[n - 1])
      BY <1>1, <1>2, <1>7, <2>1, <2>2 DEF Unwinds
    <2>4. past[n].class # << >>
      BY <2>3 DEF Around
    <2> QED
      BY <1>1, <1>3, <2>4
  <1> QED
    BY <1>2, <1>4, <1>5, <1>6, <1>7


\* The full name of a class that is opened.
LEMMA ScopeNamePath ==
    ASSUME NEW stack \in Seq(Path), NEW reference \in Reference, NEW known
    PROVE  ScopeName(stack, reference, known) \in Path
  <1>1. reference.path \in NamePaths /\ reference.path \in Path
    BY DEF Reference, NamePaths
  <1>2. stack # << >> => Last(stack) \in Path
    BY FrontFacts
  <1>3. stack # << >> => Last(stack) \o reference.path \in NamePaths
    BY <1>1, <1>2, Extended
  <1>4. stack # << >> => Last(stack) \o reference.path \in Path
    BY <1>3 DEF NamePaths
  <1> QED
    BY <1>1, <1>4 DEF ScopeName

\* The step with the tables and the world it ends in.
LEMMA StatementTypes ==
    ASSUME Inv, ThemesAssumption, NEW r, NEW t, NEW w, Statement(r, t, w), DOMAIN w = WorldFields
    PROVE  /\ theme' = theme /\ left' \in 0 .. Themes[theme].length /\ file' \in Themes[theme].files
           /\ registered' \in BOOLEAN /\ registrar' = r /\ tables' = t
           /\ DOMAIN world' = WorldFields /\ world'.scopes = w.scopes
           /\ world'.superclasses = w.superclasses /\ world'.declared = w.declared
  <1>1. Step(r, t, NothingPending, Detached(w))
    BY DEF Statement
  <1>2. WorldKept(w, Detached(w))
    BY WorldOperators
  <1>3. /\ theme' = theme /\ left' \in 0 .. Themes[theme].length /\ file' \in Themes[theme].files
        /\ registered' \in BOOLEAN /\ registrar' = r /\ tables' = t /\ world' = Detached(w)
    BY <1>1, StepTypes
  <1> QED
    BY <1>2, <1>3 DEF WorldKept

\* A statement that opens a body.
LEMMA BodyStep ==
    ASSUME Inv, ThemesAssumption, NEW r, NEW u, NEW w, Statement(r, u, w),
           Inner(world).kind \in {"class", "singleton"},
           NEW scope \in Scopes, NEW node \in Nodes, node.kind = scope.kind,
           DOMAIN r = RegistrarFields, Now(r) \in Stacks, Situated(Now(r), scope), Around(Now(registrar), Now(r), node),
           r.open = Append(registrar.open, node),
           \/ /\ r.visibilityStack = Append(registrar.visibilityStack, "public")
              /\ r.dynamicStack = registrar.dynamicStack
           \/ /\ r.visibilityStack = registrar.visibilityStack
              /\ \E target : r.dynamicStack = << target >>,
           DOMAIN u = TableFields, u.definitions = tables.definitions, u.kinds = tables.kinds,
           u.methods = tables.methods,
           DOMAIN w = WorldFields, w.scopes = Append(world.scopes, scope), w.declared = world.declared,
           Known(u) = DOMAIN w.superclasses, Known(tables) \subseteq Known(u),
           Range(r.classStack) \subseteq Known(u), Range(r.singletonStack) \subseteq Known(u)
    PROVE  Inv'
  <1>1. /\ DOMAIN registrar = RegistrarFields /\ registrar.visibilityStack \in Seq(MethodVisibilities)
        /\ registrar.open \in Seq(Nodes) /\ world.scopes \in Seq(Scopes) /\ theme \in DOMAIN Themes
    BY DEF Inv, Types
  <1>2. registrar.dynamicStack = << >>
    BY OuterBody
  <1>3. /\ theme' = theme /\ left' \in 0 .. Themes[theme].length /\ file' \in Themes[theme].files
        /\ registered' \in BOOLEAN /\ registrar' = r /\ tables' = u
        /\ DOMAIN world' = WorldFields /\ world'.scopes = Append(world.scopes, scope)
        /\ world'.superclasses = w.superclasses /\ world'.declared = world.declared
    BY StatementTypes
  <1>4. /\ registrar'.visibilityStack \in Seq(MethodVisibilities) /\ registrar'.open \in Seq(Nodes)
        /\ world'.scopes \in Seq(Scopes)
    <2>1. Append(registrar.visibilityStack, "public") \in Seq(MethodVisibilities)
      BY <1>1, AppendFacts DEF MethodVisibilities
    <2>2. Append(registrar.open, node) \in Seq(Nodes)
      BY <1>1, AppendFacts
    <2>3. Append(world.scopes, scope) \in Seq(Scopes)
      BY <1>1, AppendFacts
    <2> QED
      BY <1>1, <1>3, <2>1, <2>2, <2>3
  <1>5. Types'
    BY <1>1, <1>3, <1>4 DEF Types
  <1>6. Known(tables') = DOMAIN world'.superclasses /\ Known(tables) \subseteq Known(tables')
    BY <1>3
  <1>7. DefinitionsRecorded'
    BY <1>3 DEF Inv, DefinitionsRecorded
  <1>8. /\ Len(registrar'.visibilityStack) - Len(registrar.visibilityStack) =
              1 - (Len(registrar'.dynamicStack) - Len(registrar.dynamicStack))
        /\ Len(registrar'.visibilityStack) \in Nat /\ Len(registrar.visibilityStack) \in Nat
        /\ Len(registrar'.dynamicStack) \in Nat /\ Len(registrar.dynamicStack) \in Nat
    <2>1. Len(registrar.visibilityStack) \in Nat /\ Len(registrar.dynamicStack) = 0
      BY <1>1, <1>2
    <2>2. CASE /\ r.visibilityStack = Append(registrar.visibilityStack, "public")
               /\ r.dynamicStack = registrar.dynamicStack
      <3>1. Len(registrar'.visibilityStack) = Len(registrar.visibilityStack) + 1
        BY <1>1, <1>3, <2>2, AppendFacts DEF MethodVisibilities
      <3>2. Len(registrar'.dynamicStack) = 0
        BY <1>3, <2>1, <2>2
      <3> QED
        BY <2>1, <3>1, <3>2
    <2>3. CASE r.visibilityStack = registrar.visibilityStack /\ \E target : r.dynamicStack = << target >>
      <3>1. Len(registrar'.visibilityStack) = Len(registrar.visibilityStack)
        BY <1>3, <2>3
      <3>2. Len(registrar'.dynamicStack) = 1
        BY <1>3, <2>3
      <3> QED
        BY <2>1, <3>1, <3>2
    <2> QED
      BY <2>2, <2>3
  <1>9. world'.scopes = Append(world.scopes, scope) /\ registrar'.open = Append(registrar.open, node)
    BY <1>3
  <1>10. Now(registrar') \in Stacks /\ Situated(Now(registrar'), scope) /\ Around(Now(registrar), Now(registrar'), node)
    BY <1>3
  <1>11. /\ Range(registrar'.classStack) \subseteq Known(tables')
         /\ Range(registrar'.singletonStack) \subseteq Known(tables')
    BY <1>3
  <1> QED
    BY <1>5, <1>6, <1>7, <1>8, <1>9, <1>10, <1>11, Opens

LEMMA ClassStep == ASSUME Inv, ThemesAssumption, WrittenRegular, VisitClass PROVE Inv'
  <1>1. PICK t, info, parent, structs :
          /\ t \in Of("class")
          /\ LET path == ScopeName(registrar.classStack, t.name, Known(tables))
                 opened == Opened(world, t.name)
             IN  Statement(OpenBody(registrar, path), SetInfo(tables, path, info),
                    LET entered == OpenClass(world, opened, parent)
                    IN IF t.fields = << >> THEN entered ELSE [entered EXCEPT !.structs = structs])
    BY DEF VisitClass
  <1>0. t \in Of("class")
    BY <1>1
  <1> USE <1>0
  <1> DEFINE path == ScopeName(registrar.classStack, t.name, Known(tables))
             r == OpenBody(registrar, path)
             u == SetInfo(tables, path, info)
             entered == OpenClass(world, path, parent)
             w == IF t.fields = << >> THEN entered ELSE [entered EXCEPT !.structs = structs]
             scope == Scope("class", path, path, FALSE)
             node == [kind |-> "class", singletonStack |-> registrar.singletonStack]
  <1>2. t.name \in Reference /\ Inner(world).kind \in {"class", "singleton"} /\ FoundInnermost(world, t.name)
    <2>1. t \in Themes[theme].statements /\ t.op = "class" /\ Written(world, file, t)
      BY DEF Of
    <2> QED
      BY <2>1 DEF ThemesAssumption, Inv, Types, WrittenRegular, Regular
  <1>3. path = Opened(world, t.name) /\ path \in Path
    BY <1>2, OuterBody, ScopeNameAgrees, ScopeNamePath DEF Inv, Types
  <1>4. Statement(r, u, w)
    BY <1>1, <1>3
  <1> HIDE DEF path
  <1>5. /\ DOMAIN registrar = RegistrarFields /\ DOMAIN tables = TableFields /\ DOMAIN world = WorldFields
        /\ registrar.visibilityStack \in Seq(MethodVisibilities) /\ registrar.open \in Seq(Nodes)
        /\ world.scopes \in Seq(Scopes) /\ theme \in DOMAIN Themes
    BY DEF Inv, Types
  <1>6. /\ registrar.dynamicStack = << >> /\ registrar.classStack \in Seq(Path)
        /\ registrar.singletonStack \in Seq(Path) /\ Range(registrar.classStack) \subseteq Known(tables)
    BY <1>2, OuterBody
  <1>7. /\ DOMAIN r = RegistrarFields /\ r.classStack = Append(registrar.classStack, path)
        /\ r.singletonStack = << >> /\ r.dynamicStack = << >>
        /\ r.visibilityStack = Append(registrar.visibilityStack, "public") /\ r.open = Append(registrar.open, node)
    BY <1>5, <1>6 DEF OpenBody, RegistrarFields
  <1>8. /\ DOMAIN u = TableFields /\ Known(u) = Known(tables) \union {path}
        /\ u.definitions = tables.definitions /\ u.kinds = tables.kinds /\ u.methods = tables.methods
    BY <1>5 DEF SetInfo, TableFields, Known, Insert
  <1>9. /\ DOMAIN w = WorldFields /\ w.scopes = Append(world.scopes, scope)
        /\ DOMAIN w.superclasses = DOMAIN world.superclasses \union {path} /\ w.declared = world.declared
    BY <1>5 DEF OpenClass, Enter, WorldFields, OrInsert
  <1> HIDE DEF r, u, w
  <1>10. /\ scope \in Scopes /\ node \in Nodes /\ node.kind = scope.kind
         /\ scope.kind = "class" /\ scope.owner = path /\ scope.cref = path /\ ~scope.singleton
         /\ node.kind = "class" /\ node.singletonStack = registrar.singletonStack
    <2>1. /\ scope \in Scopes /\ scope.kind = "class" /\ scope.owner = path /\ scope.cref = path
          /\ scope.singleton = FALSE
      <3>1. /\ DOMAIN scope = {"kind", "cref", "owner", "singleton", "visibility"} /\ scope.kind = "class"
            /\ scope.cref = path /\ scope.owner = path /\ scope.singleton = FALSE /\ scope.visibility = "public"
        BY DEF Scope
      <3> QED
        BY <1>3, <3>1 DEF Scope, Scopes, MethodVisibilities
    <2>2. node \in Nodes
      BY <1>6 DEF Nodes
    <2> HIDE DEF scope
    <2> QED
      BY <2>1, <2>2
  <1> HIDE DEF scope, node
  <1>11. /\ Append(registrar.classStack, path) \in Seq(Path) /\ Append(registrar.classStack, path) # << >>
         /\ Last(Append(registrar.classStack, path)) = path
         /\ Front(Append(registrar.classStack, path)) = registrar.classStack
    BY <1>3, <1>6, AppendFacts
  <1>12. /\ Now(r) = [class |-> Append(registrar.classStack, path), singleton |-> << >>, dynamic |-> << >>]
         /\ Now(registrar) = [class |-> registrar.classStack, singleton |-> registrar.singletonStack,
                              dynamic |-> << >>]
    BY <1>6, <1>7 DEF Now
  <1>13. Now(r) \in Stacks
    <2>1. << >> \in Seq(Path) /\ << >> \in Seq(Targets)
      OBVIOUS
    <2> QED
      BY <1>11, <1>12, <2>1 DEF Stacks
  <1>14. Situated(Now(r), scope)
    BY <1>10, <1>11, <1>12 DEF Situated, LastOr
  <1>15. Around(Now(registrar), Now(r), node)
    BY <1>10, <1>11, <1>12 DEF Around
  <1>16. Range(r.classStack) \subseteq Known(u) /\ Range(r.singletonStack) \subseteq Known(u)
    <2>1. Range(Append(registrar.classStack, path)) \subseteq Range(registrar.classStack) \union {path}
      BY <1>3, <1>6, RangeAppend
    <2>2. Range(<< >>) = {}
      BY RangeEmpty
    <2> QED
      BY <1>6, <1>7, <1>8, <2>1, <2>2
  <1>17. Known(u) = DOMAIN w.superclasses /\ Known(tables) \subseteq Known(u)
    BY <1>8, <1>9 DEF Inv
  <1> QED
    BY <1>2, <1>4, <1>6, <1>7, <1>8, <1>9, <1>10, <1>13, <1>14, <1>15, <1>16, <1>17, BodyStep


LEMMA StructStep == ASSUME Inv, ThemesAssumption, WrittenRegular, VisitStruct PROVE Inv'
  <1>1. PICK t, info, fields :
          /\ t \in Of("struct")
          /\ LET path == ConstantAssignmentName(registrar.classStack, t.name)
                 opened == Opened(world, t.name)
             IN  Statement(OpenStructBody(registrar, path), SetInfo(tables, path, info),
                           OpenStruct(world, opened, fields))
    BY DEF VisitStruct
  <1>0. t \in Of("struct")
    BY <1>1
  <1> USE <1>0
  <1> DEFINE path == ConstantAssignmentName(registrar.classStack, t.name)
             r == OpenStructBody(registrar, path)
             u == SetInfo(tables, path, info)
             w == OpenStruct(world, path, fields)
             cref == Inner(world).cref
             scope == Scope("struct", cref, path, FALSE)
             node == [kind |-> "struct"]
  <1>2. t.name \in Reference /\ Inner(world).kind = "class" /\ Single(t.name)
    <2>1. t \in Themes[theme].statements /\ t.op = "struct" /\ Written(world, file, t)
      BY DEF Of
    <2> QED
      BY <2>1 DEF ThemesAssumption, Inv, Types, WrittenRegular, Regular
  <1>3. /\ registrar.dynamicStack = << >> /\ registrar.classStack \in Seq(Path)
        /\ registrar.singletonStack = << >> /\ Range(registrar.classStack) \subseteq Known(tables)
        /\ LastOr(registrar.classStack, TopLevel) = cref /\ cref \in Path
    BY <1>2, OuterBody
  <1>4. path = Opened(world, t.name) /\ path \in Path
    <2>1. t.name.path \in NamePaths /\ << >> \o t.name.path = t.name.path
      BY <1>2, Absorbed DEF Reference
    <2>2. t.name.path \in Path /\ cref \o t.name.path \in NamePaths /\ cref \o t.name.path \in Path
      BY <1>3, <2>1, Extended DEF NamePaths
    <2>3. registrar.classStack # << >> => Last(registrar.classStack) = cref
      BY <1>3 DEF LastOr
    <2>4. registrar.classStack = << >> => cref = << >>
      BY <1>3 DEF LastOr, TopLevel
    <2>5. CASE t.name.absolute
      BY <2>2, <2>5 DEF ConstantAssignmentName, Opened
    <2>6. CASE ~t.name.absolute
      <3>1. Len(t.name.path) = 1 /\ ~(Len(t.name.path) > 1)
        <4>1. Len(t.name.path) = 1
          BY <1>2, <2>6 DEF Single
        <4> QED
          BY <4>1
      <3>2. Opened(world, t.name) = cref \o t.name.path
        BY <2>6, <3>1 DEF Opened
      <3>3. path = IF registrar.classStack = << >> THEN t.name.path ELSE Last(registrar.classStack) \o t.name.path
        BY <2>6, <3>1 DEF ConstantAssignmentName
      <3> QED
        BY <2>1, <2>2, <2>3, <2>4, <3>2, <3>3
    <2> QED
      BY <2>5, <2>6
  <1>5. Statement(r, u, w)
    BY <1>1, <1>4
  <1> HIDE DEF path, cref
  <1>6. DOMAIN registrar = RegistrarFields /\ DOMAIN tables = TableFields /\ DOMAIN world = WorldFields
    BY DEF Inv, Types
  <1>7. /\ DOMAIN r = RegistrarFields /\ r.classStack = Append(registrar.classStack, path)
        /\ r.singletonStack = << >> /\ r.dynamicStack = << >>
        /\ r.visibilityStack = Append(registrar.visibilityStack, "public") /\ r.open = Append(registrar.open, node)
    BY <1>3, <1>6 DEF OpenStructBody, RegistrarFields
  <1>8. /\ DOMAIN u = TableFields /\ Known(u) = Known(tables) \union {path}
        /\ u.definitions = tables.definitions /\ u.kinds = tables.kinds /\ u.methods = tables.methods
    BY <1>6 DEF SetInfo, TableFields, Known, Insert
  <1>9. /\ DOMAIN w = WorldFields /\ w.scopes = Append(world.scopes, scope)
        /\ DOMAIN w.superclasses = DOMAIN world.superclasses \union {path} /\ w.declared = world.declared
    BY <1>6 DEF OpenStruct, Enter, WorldFields, OrInsert, cref
  <1> HIDE DEF r, u, w
  <1>10. /\ scope \in Scopes /\ node \in Nodes /\ node.kind = scope.kind /\ node.kind = "struct"
         /\ scope.kind = "struct" /\ scope.owner = path /\ scope.cref = cref /\ ~scope.singleton
    <2>1. /\ scope \in Scopes /\ scope.kind = "struct" /\ scope.owner = path /\ scope.cref = cref
          /\ scope.singleton = FALSE
      <3>1. /\ DOMAIN scope = {"kind", "cref", "owner", "singleton", "visibility"} /\ scope.kind = "struct"
            /\ scope.cref = cref /\ scope.owner = path /\ scope.singleton = FALSE /\ scope.visibility = "public"
        BY DEF Scope
      <3> QED
        BY <1>3, <1>4, <3>1 DEF Scope, Scopes, MethodVisibilities
    <2>2. node \in Nodes
      BY DEF Nodes
    <2> HIDE DEF scope
    <2> QED
      BY <2>1, <2>2
  <1> HIDE DEF scope, node
  <1>11. /\ Append(registrar.classStack, path) \in Seq(Path) /\ Append(registrar.classStack, path) # << >>
         /\ Last(Append(registrar.classStack, path)) = path
         /\ Front(Append(registrar.classStack, path)) = registrar.classStack
    BY <1>3, <1>4, AppendFacts
  <1>12. /\ Now(r) = [class |-> Append(registrar.classStack, path), singleton |-> << >>, dynamic |-> << >>]
         /\ Now(registrar) = [class |-> registrar.classStack, singleton |-> << >>, dynamic |-> << >>]
    BY <1>3, <1>7 DEF Now
  <1>13. Now(r) \in Stacks
    <2>1. << >> \in Seq(Path) /\ << >> \in Seq(Targets)
      OBVIOUS
    <2> QED
      BY <1>11, <1>12, <2>1 DEF Stacks
  <1>14. Situated(Now(r), scope)
    BY <1>10, <1>11, <1>12 DEF Situated
  <1>15. Around(Now(registrar), Now(r), node)
    BY <1>10, <1>11, <1>12 DEF Around
  <1>16. Range(r.classStack) \subseteq Known(u) /\ Range(r.singletonStack) \subseteq Known(u)
    <2>1. Range(Append(registrar.classStack, path)) \subseteq Range(registrar.classStack) \union {path}
      BY <1>3, <1>4, RangeAppend
    <2>2. Range(<< >>) = {}
      BY RangeEmpty
    <2> QED
      BY <1>3, <1>7, <1>8, <2>1, <2>2
  <1>17. Known(u) = DOMAIN w.superclasses /\ Known(tables) \subseteq Known(u)
    BY <1>8, <1>9 DEF Inv
  <1> QED
    BY <1>2, <1>3, <1>5, <1>7, <1>8, <1>9, <1>10, <1>13, <1>14, <1>15, <1>16, <1>17, BodyStep


LEMMA SingletonStep == ASSUME Inv, ThemesAssumption, WrittenRegular, VisitSingletonClass PROVE Inv'
  <1>1. PICK t \in Of("singleton") :
          /\ Len(world.scopes) > 1
          /\ Statement(OpenSingletonBody(registrar), tables, OpenSingleton(world))
    BY DEF VisitSingletonClass
  <1> DEFINE owner == Inner(world).owner
             cref == Inner(world).cref
             r == OpenSingletonBody(registrar)
             w == OpenSingleton(world)
             scope == Scope("singleton", cref, owner, TRUE)
             node == [kind |-> "singleton"]
  <1>2. Inner(world).kind = "class"
    <2>1. t.op = "singleton" /\ Written(world, file, t)
      BY DEF Of
    <2> QED
      BY <2>1 DEF WrittenRegular, Regular
  <1>3. /\ registrar.dynamicStack = << >> /\ registrar.classStack \in Seq(Path) /\ registrar.classStack # << >>
        /\ registrar.singletonStack = << >> /\ Range(registrar.classStack) \subseteq Known(tables)
        /\ LastOr(registrar.classStack, TopLevel) = cref /\ owner = cref /\ owner \in Path /\ cref \in Path
    BY <1>1, <1>2, OuterBody
  <1>4. Last(registrar.classStack) = owner /\ owner \in Known(tables)
    <2>1. Last(registrar.classStack) = owner
      BY <1>3 DEF LastOr
    <2>2. Last(registrar.classStack) \in Range(registrar.classStack)
      BY <1>3 DEF Last, Range
    <2> QED
      BY <1>3, <2>1, <2>2
  <1>5. LastOr(registrar.classStack, Object) = owner /\ Append(<< >>, owner) = << owner >>
    BY <1>3, <1>4 DEF LastOr
  <1> HIDE DEF owner, cref
  <1>6. DOMAIN registrar = RegistrarFields /\ DOMAIN tables = TableFields /\ DOMAIN world = WorldFields
    BY DEF Inv, Types
  <1>7. /\ DOMAIN r = RegistrarFields /\ r.classStack = registrar.classStack
        /\ r.singletonStack = << owner >> /\ r.dynamicStack = << >>
        /\ r.visibilityStack = Append(registrar.visibilityStack, "public") /\ r.open = Append(registrar.open, node)
    BY <1>3, <1>5, <1>6 DEF OpenSingletonBody, RegistrarFields
  <1>8. /\ DOMAIN w = WorldFields /\ w.scopes = Append(world.scopes, scope)
        /\ w.superclasses = world.superclasses /\ w.declared = world.declared
    BY <1>6 DEF OpenSingleton, Enter, WorldFields, owner, cref
  <1>9. Statement(r, tables, w)
    BY <1>1
  <1> HIDE DEF r, w
  <1>10. /\ scope \in Scopes /\ node \in Nodes /\ node.kind = scope.kind /\ node.kind = "singleton"
         /\ scope.kind = "singleton" /\ scope.owner = owner /\ scope.cref = cref /\ scope.singleton
    <2>1. /\ scope \in Scopes /\ scope.kind = "singleton" /\ scope.owner = owner /\ scope.cref = cref
          /\ scope.singleton = TRUE
      <3>1. /\ DOMAIN scope = {"kind", "cref", "owner", "singleton", "visibility"} /\ scope.kind = "singleton"
            /\ scope.cref = cref /\ scope.owner = owner /\ scope.singleton = TRUE /\ scope.visibility = "public"
        BY DEF Scope
      <3> QED
        BY <1>3, <3>1 DEF Scope, Scopes, MethodVisibilities
    <2>2. node \in Nodes
      BY DEF Nodes
    <2> HIDE DEF scope
    <2> QED
      BY <2>1, <2>2
  <1> HIDE DEF scope, node
  <1>11. << owner >> \in Seq(Path) /\ << >> \in Seq(Targets) /\ << owner >> # << >>
    BY <1>3
  <1>12. Front(<< owner >>) = << >>
    BY <1>3 DEF Front
  <1>13. /\ Now(r) = [class |-> registrar.classStack, singleton |-> << owner >>, dynamic |-> << >>]
         /\ Now(registrar) = [class |-> registrar.classStack, singleton |-> << >>, dynamic |-> << >>]
    BY <1>3, <1>7 DEF Now
  <1>14. Now(r) \in Stacks
    BY <1>3, <1>11, <1>13 DEF Stacks
  <1>15. Situated(Now(r), scope)
    BY <1>3, <1>4, <1>10, <1>13 DEF Situated
  <1>16. Around(Now(registrar), Now(r), node)
    BY <1>10, <1>11, <1>12, <1>13 DEF Around
  <1>17. Range(r.classStack) \subseteq Known(tables) /\ Range(r.singletonStack) \subseteq Known(tables)
    <2>1. Range(<< owner >>) = {owner}
      BY DEF Range
    <2> QED
      BY <1>3, <1>4, <1>7, <2>1
  <1>18. Known(tables) = DOMAIN w.superclasses
    BY <1>8 DEF Inv
  <1> QED
    BY <1>2, <1>3, <1>6, <1>7, <1>8, <1>9, <1>10, <1>14, <1>15, <1>16, <1>17, <1>18, BodyStep

LEMMA BlockStep == ASSUME Inv, ThemesAssumption, WrittenRegular, VisitBlock PROVE Inv'
  <1>1. PICK t \in Of("eval") :
          /\ Defined(world, t.class)
          /\ Statement(
                OpenBlock(registrar, NameText(ScopeReference(registrar.classStack, t.class, Known(tables))), t.singleton),
                tables, OpenBlockOf(world, Lookup(world, t.class), t.singleton))
    BY DEF VisitBlock
  <1> DEFINE owner == Lookup(world, t.class)
             singleton == t.singleton
             target == [owner |-> owner, singleton |-> singleton]
             cref == Inner(world).cref
             r == OpenBlock(registrar, owner, singleton)
             w == OpenBlockOf(world, owner, singleton)
             scope == Scope("block", cref, owner, singleton)
             node == [kind |-> "block"]
  <1>2. /\ t.class \in Reference /\ singleton \in BOOLEAN
        /\ Inner(world).kind \in {"class", "singleton"} /\ Single(t.class) /\ ~t.class.absolute
    <2>1. t \in Themes[theme].statements /\ t.op = "eval" /\ Written(world, file, t)
      BY DEF Of
    <2> QED
      BY <2>1 DEF ThemesAssumption, Inv, Types, WrittenRegular, Regular
  <1>3. /\ registrar.dynamicStack = << >> /\ registrar.classStack \in Seq(Path) /\ world.scopes # << >>
        /\ registrar.singletonStack \in Seq(Path) /\ Range(registrar.classStack) \subseteq Known(tables)
        /\ Range(registrar.singletonStack) \subseteq Known(tables) /\ cref \in Path
    BY <1>2, OuterBody
  <1>4. NameText(ScopeReference(registrar.classStack, t.class, Known(tables))) = owner
    <2>1. ScopeReference(registrar.classStack, t.class, Known(tables)).path = owner
      BY <1>2, NamedKnown
    <2>2. ~ScopeReference(registrar.classStack, t.class, Known(tables)).absolute
      BY <1>2 DEF ScopeReference, Relative
    <2> QED
      BY <2>1, <2>2 DEF NameText
  <1>5. owner \in Path
    <2>1. t.class.path \in NamePaths /\ t.class.path \in Path
      BY <1>2 DEF Reference, NamePaths
    <2>2. world.scopes \in Seq(Scopes)
      BY DEF Inv, Types
    <2>3. Base(world, Head(t.class.path)) \in Path /\ owner = Base(world, Head(t.class.path)) \o t.class.path
      BY <1>2, <1>3, <2>2, LookupBase
    <2>4. owner \in NamePaths
      BY <2>1, <2>3, Extended
    <2> QED
      BY <2>4 DEF NamePaths
  <1>6. Statement(r, tables, w)
    BY <1>1, <1>4
  <1> HIDE DEF owner, cref, singleton
  <1>7. DOMAIN registrar = RegistrarFields /\ DOMAIN tables = TableFields /\ DOMAIN world = WorldFields
    BY DEF Inv, Types
  <1>8. Append(<< >>, target) = << target >>
    OBVIOUS
  <1>9. /\ DOMAIN r = RegistrarFields /\ r.classStack = registrar.classStack
        /\ r.singletonStack = registrar.singletonStack /\ r.dynamicStack = << target >>
        /\ r.visibilityStack = registrar.visibilityStack /\ r.open = Append(registrar.open, node)
    BY <1>3, <1>7, <1>8 DEF OpenBlock, RegistrarFields
  <1>10. /\ DOMAIN w = WorldFields /\ w.scopes = Append(world.scopes, scope)
         /\ w.superclasses = world.superclasses /\ w.declared = world.declared
    BY <1>7 DEF OpenBlockOf, Enter, WorldFields, cref
  <1> HIDE DEF r, w
  <1>11. /\ scope \in Scopes /\ node \in Nodes /\ node.kind = scope.kind /\ node.kind = "block"
         /\ scope.kind = "block" /\ target = [owner |-> scope.owner, singleton |-> scope.singleton]
    <2>1. /\ scope \in Scopes /\ scope.kind = "block" /\ scope.owner = owner /\ scope.cref = cref
          /\ scope.singleton = singleton
      <3>1. /\ DOMAIN scope = {"kind", "cref", "owner", "singleton", "visibility"} /\ scope.kind = "block"
            /\ scope.cref = cref /\ scope.owner = owner /\ scope.singleton = singleton
            /\ scope.visibility = "public"
        BY DEF Scope
      <3> QED
        BY <1>2, <1>3, <1>5, <3>1 DEF Scope, Scopes, MethodVisibilities
    <2>2. node \in Nodes
      BY DEF Nodes
    <2> HIDE DEF scope
    <2> QED
      BY <2>1, <2>2
  <1>12. target \in Targets /\ << target >> \in Seq(Targets) /\ << target >> # << >>
    BY <1>2, <1>5 DEF Targets
  <1> HIDE DEF scope, node, target
  <1>13. Front(<< target >>) = << >>
    BY <1>12 DEF Front
  <1>14. /\ Now(r) = [class |-> registrar.classStack, singleton |-> registrar.singletonStack, dynamic |-> << target >>]
         /\ Now(registrar) = [class |-> registrar.classStack, singleton |-> registrar.singletonStack, dynamic |-> << >>]
    BY <1>3, <1>9 DEF Now
  <1>15. Now(r) \in Stacks
    BY <1>3, <1>12, <1>14 DEF Stacks
  <1>16. Situated(Now(r), scope)
    BY <1>11, <1>14 DEF Situated
  <1>17. Around(Now(registrar), Now(r), node)
    BY <1>11, <1>12, <1>13, <1>14 DEF Around
  <1>18. Range(r.classStack) \subseteq Known(tables) /\ Range(r.singletonStack) \subseteq Known(tables)
    BY <1>3, <1>9
  <1>19. Known(tables) = DOMAIN w.superclasses
    BY <1>10 DEF Inv
  <1> QED
    BY <1>2, <1>6, <1>7, <1>9, <1>10, <1>11, <1>15, <1>16, <1>17, <1>18, <1>19, BodyStep


-----------------------------------------------------------------------------
(* The end of a body. *)

LEMMA CloseStep == ASSUME Inv, ThemesAssumption, Close PROVE Inv'
  <1>1. registrar.open # << >> /\ Statement(CloseNode(registrar), tables, Leave(world))
    BY DEF Close
  <1>2. PICK past \in Seq(Stacks) : /\ Unwinds(past, world.scopes, registrar.open, Known(tables))
                                    /\ past[Len(past)] = Now(registrar)
    BY DEF Inv, BodiesNest
  <1> DEFINE scopes == world.scopes
             open == registrar.open
             known == Known(tables)
             n == Len(past)
             outer == past[Len(past) - 1]
             inner == Now(registrar)
             node == Last(open)
             r == CloseNode(registrar)
             w == Leave(world)
  <1>3. /\ DOMAIN registrar = RegistrarFields /\ registrar.visibilityStack \in Seq(MethodVisibilities)
        /\ open \in Seq(Nodes) /\ scopes \in Seq(Scopes) /\ DOMAIN tables = TableFields
        /\ DOMAIN world = WorldFields /\ theme \in DOMAIN Themes
    BY DEF Inv, Types
  <1>4. /\ Unwinds(Front(past), Front(scopes), Front(open), known)
        /\ Front(past) \in Seq(Stacks) /\ Front(scopes) \in Seq(Scopes) /\ Front(open) \in Seq(Nodes)
        /\ Len(Front(past)) = n - 1 /\ Front(past)[n - 1] = outer
        /\ Around(outer, past[n], node)
        /\ outer \in Stacks /\ node \in Nodes
    <2> HIDE DEF scopes, open, known
    <2>1. Unwinds(past, scopes, open, known) /\ open # << >>
      BY <1>1, <1>2 DEF scopes, open, known
    <2> QED
      BY <1>3, <2>1, UnwindsClose
  <1>5. Around(outer, inner, node)
    BY <1>2, <1>4
  <1>6. /\ n \in Nat /\ n >= 1 /\ Len(open) = n - 1 /\ Inner(world) = scopes[n]
        /\ Inner(world) \in Scopes /\ Situated(inner, Inner(world)) /\ inner \in Stacks
    BY <1>2, InnermostBody
  <1>7. Len(open) # 0 /\ Last(open) = open[Len(open)]
    BY <1>1, <1>3 DEF Last
  <1>8. node.kind = Inner(world).kind
    <2>1. n - 1 \in DOMAIN open /\ (n - 1) + 1 = n /\ node = open[n - 1]
      <3>1. DOMAIN open = 1 .. Len(open) /\ node = open[Len(open)]
        BY <1>3, <1>7
      <3> HIDE DEF node, open, n
      <3>2. n - 1 \in 1 .. Len(open) /\ (n - 1) + 1 = n
        BY <1>6, <1>7
      <3> QED
        BY <1>6, <3>1, <3>2
    <2>2. open[n - 1].kind = scopes[(n - 1) + 1].kind
      BY <1>2, <2>1 DEF Unwinds
    <2> QED
      BY <1>6, <2>1, <2>2
  <1>9. Now(r) = outer
    <2>1. outer = [class |-> outer.class, singleton |-> outer.singleton, dynamic |-> outer.dynamic]
      BY <1>4 DEF Stacks
    <2>2. /\ inner.class = registrar.classStack /\ inner.singleton = registrar.singletonStack
          /\ inner.dynamic = registrar.dynamicStack
      BY DEF Now
    <2>3. /\ r.classStack = outer.class /\ r.singletonStack = outer.singleton /\ r.dynamicStack = outer.dynamic
      <3> HIDE DEF outer, inner, node
      <3>1. CASE node.kind = "class"
        BY <1>3, <1>5, <2>2, <3>1 DEF CloseNode, RegistrarFields, Around, node, open
      <3>2. CASE node.kind = "struct"
        BY <1>3, <1>5, <2>2, <3>2 DEF CloseNode, RegistrarFields, Around, node, open
      <3>3. CASE node.kind = "singleton"
        BY <1>3, <1>5, <2>2, <3>3 DEF CloseNode, RegistrarFields, Around, node, open
      <3>4. CASE node.kind = "block"
        BY <1>3, <1>5, <2>2, <3>4 DEF CloseNode, RegistrarFields, Around, node, open
      <3> QED
        BY <1>4, <3>1, <3>2, <3>3, <3>4 DEF Nodes
    <2> HIDE DEF r, outer, inner
    <2> QED
      BY <2>1, <2>3 DEF Now
  <1>10. DOMAIN r = RegistrarFields /\ r.open = Front(open)
    <2> HIDE DEF node
    <2>1. CASE node.kind \in {"class", "struct"}
      BY <1>3, <2>1 DEF CloseNode, RegistrarFields, node
    <2>2. CASE node.kind = "singleton"
      BY <1>3, <2>2 DEF CloseNode, RegistrarFields, node
    <2>3. CASE node.kind = "block"
      BY <1>3, <2>3 DEF CloseNode, RegistrarFields, node
    <2> QED
      BY <1>4, <2>1, <2>2, <2>3 DEF Nodes
  <1>11. /\ r.visibilityStack \in Seq(MethodVisibilities)
         /\ Len(r.visibilityStack) = Len(Front(open)) - Len(r.dynamicStack)
    <2>1. /\ Len(registrar.visibilityStack) = Len(open) - Len(registrar.dynamicStack)
          /\ Len(open) \in Nat /\ Len(registrar.visibilityStack) \in Nat
      <3>1. Len(registrar.visibilityStack) = Len(open) - Len(registrar.dynamicStack)
        BY DEF Inv
      <3>2. Len(open) \in Nat /\ Len(registrar.visibilityStack) \in Nat
        BY <1>3
      <3> QED
        BY <3>1, <3>2
    <2>2. Len(Front(open)) = Len(open) - 1
      BY <1>1, <1>3, FrontFacts
    <2>3. inner.dynamic = registrar.dynamicStack
      BY DEF Now
    <2>4. CASE node.kind # "block"
      <3>1. registrar.dynamicStack = << >>
        BY <1>6, <1>8, <2>3, <2>4 DEF Situated, Scopes
      <3>2. r.visibilityStack = Front(registrar.visibilityStack) /\ r.dynamicStack = registrar.dynamicStack
        <4> HIDE DEF node
        <4>1. CASE node.kind \in {"class", "struct"}
          BY <1>3, <4>1 DEF CloseNode, RegistrarFields, node
        <4>2. CASE node.kind = "singleton"
          BY <1>3, <4>2 DEF CloseNode, RegistrarFields, node
        <4> QED
          BY <1>4, <2>4, <4>1, <4>2 DEF Nodes
      <3>3. Len(registrar.dynamicStack) = 0 /\ Len(<< >>) = 0
        BY <3>1
      <3>4. Len(registrar.visibilityStack) # 0
        <4> HIDE DEF open
        <4> QED
          BY <1>7, <2>1, <3>3
      <3>5. registrar.visibilityStack # << >>
        BY <3>3, <3>4
      <3>6. /\ Front(registrar.visibilityStack) \in Seq(MethodVisibilities)
            /\ Len(Front(registrar.visibilityStack)) = Len(registrar.visibilityStack) - 1
        BY <1>3, <3>5, FrontFacts
      <3> HIDE DEF open, r
      <3> QED
        BY <2>1, <2>2, <3>2, <3>3, <3>6
    <2>5. CASE node.kind = "block"
      <3>1. \E target : registrar.dynamicStack = << target >>
        BY <1>6, <1>8, <2>3, <2>5 DEF Situated
      <3>2. r.visibilityStack = registrar.visibilityStack /\ r.dynamicStack = Front(registrar.dynamicStack)
        <4> HIDE DEF node
        <4> QED
          BY <1>3, <2>5 DEF CloseNode, RegistrarFields, node
      <3>3. Len(registrar.dynamicStack) = 1 /\ Len(Front(registrar.dynamicStack)) = 0
        BY <3>1 DEF Front
      <3> HIDE DEF open, r
      <3> QED
        BY <1>3, <2>1, <2>2, <3>2, <3>3
    <2> QED
      BY <2>4, <2>5
  <1>12. /\ DOMAIN w = WorldFields /\ w.scopes = Front(scopes)
         /\ w.superclasses = world.superclasses /\ w.declared = world.declared
    BY <1>3 DEF Leave, WorldFields
  <1>13. Statement(r, tables, w)
    BY <1>1
  <1> HIDE DEF r, w
  <1>14. /\ theme' = theme /\ left' \in 0 .. Themes[theme].length /\ file' \in Themes[theme].files
         /\ registered' \in BOOLEAN /\ registrar' = r /\ tables' = tables
         /\ DOMAIN world' = WorldFields /\ world'.scopes = Front(scopes)
         /\ world'.superclasses = world.superclasses /\ world'.declared = world.declared
    BY <1>12, <1>13, StatementTypes
  <1>15. Types'
    BY <1>3, <1>4, <1>10, <1>11, <1>14 DEF Types
  <1>16. BodiesNest'
    <2>1. Now(registrar') = outer /\ registrar'.open = Front(open) /\ Known(tables') = known
      BY <1>9, <1>10, <1>14
    <2> HIDE DEF outer, known, open, scopes, n
    <2>2. Unwinds(Front(past), world'.scopes, registrar'.open, Known(tables'))
      BY <1>4, <1>14, <2>1
    <2>3. Front(past)[Len(Front(past))] = Now(registrar')
      BY <1>4, <2>1
    <2> QED
      BY <1>4, <2>2, <2>3 DEF BodiesNest
  <1>17. DefinitionsRecorded' /\ Known(tables') = DOMAIN world'.superclasses
    BY <1>14 DEF Inv, DefinitionsRecorded
  <1>18. Len(registrar'.visibilityStack) = Len(registrar'.open) - Len(registrar'.dynamicStack)
    BY <1>10, <1>11, <1>14
  <1> QED
    BY <1>15, <1>16, <1>17, <1>18 DEF Inv

-----------------------------------------------------------------------------
(* The theorems. *)

LEMMA Initial == ASSUME ThemesAssumption, Init PROVE Inv
  <1>1. /\ registrar = [classStack |-> << >>, singletonStack |-> << >>, dynamicStack |-> << >>,
                        visibilityStack |-> << >>, overrides |-> {}, open |-> << >>]
        /\ world = Main /\ registered = FALSE /\ theme \in DOMAIN Themes /\ file \in Themes[theme].files
        /\ left = Themes[theme].length
    BY DEF Init
  <1> DEFINE scope == Scope("class", TopLevel, TopLevel, FALSE)
  <1>2. /\ DOMAIN tables = TableFields /\ tables.definitions = Insert(<< >>, 0, ClassNew)
        /\ tables.kinds = Insert(<< >>, 0, "builtin")
        /\ tables.methods = Insert(<< >>, ClassNew, MethodState(<< "def", 0 >>, "public"))
        /\ Known(tables) = DOMAIN Main.superclasses
    BY DEF Init, TableFields, Known
  <1>3. /\ DOMAIN world = WorldFields /\ world.scopes = << scope >>
        /\ world.declared = Insert(<< >>, 0, ClassNew)
    BY <1>1 DEF Main, WorldFields
  <1>4. /\ scope.kind = "class" /\ scope.cref = << >> /\ scope.owner = << >> /\ scope.singleton = FALSE
        /\ scope \in Scopes
    <2>1. /\ DOMAIN scope = {"kind", "cref", "owner", "singleton", "visibility"} /\ scope.kind = "class"
          /\ scope.cref = << >> /\ scope.owner = << >> /\ scope.singleton = FALSE /\ scope.visibility = "public"
      BY DEF Scope, TopLevel
    <2>2. << >> \in Path
      BY DEF Path
    <2> QED
      BY <2>1, <2>2 DEF Scope, Scopes, MethodVisibilities
  <1> HIDE DEF scope
  <1>5. Types
    <2>1. left \in 0 .. Themes[theme].length
      BY <1>1 DEF ThemesAssumption
    <2>2. DOMAIN registrar = RegistrarFields
      BY <1>1 DEF RegistrarFields
    <2>3. << >> \in Seq(MethodVisibilities) /\ << >> \in Seq(Nodes) /\ << scope >> \in Seq(Scopes)
      BY <1>4
    <2> QED
      BY <1>1, <1>2, <1>3, <2>1, <2>2, <2>3 DEF Types
  <1>6. BodiesNest
    <2> DEFINE s == [class |-> << >>, singleton |-> << >>, dynamic |-> << >>]
               past == << s >>
    <2>1. s \in Stacks
      <3>1. << >> \in Seq(Path) /\ << >> \in Seq(Targets)
        OBVIOUS
      <3> QED
        BY <3>1 DEF Stacks
    <2>2. Now(registrar) = s
      BY <1>1 DEF Now
    <2>3. s.class = << >> /\ s.singleton = << >> /\ s.dynamic = << >>
      OBVIOUS
    <2>4. registrar.open = << >>
      BY <1>1
    <2> HIDE DEF s
    <2>5. /\ past \in Seq(Stacks) /\ Len(past) = 1 /\ past[1] = s /\ DOMAIN past = {1}
          /\ Len(<< scope >>) = 1 /\ << scope >>[1] = scope /\ Len(<< >>) = 0 /\ DOMAIN << >> = {}
      BY <2>1
    <2>6. Layered(past)
      BY <2>3, <2>5 DEF Layered
    <2>7. Situated(s, scope)
      BY <1>4, <2>3 DEF Situated, LastOr, TopLevel
    <2>8. Unwinds(past, world.scopes, registrar.open, Known(tables))
      BY <1>3, <2>3, <2>4, <2>5, <2>6, <2>7, RangeEmpty DEF Unwinds
    <2> QED
      BY <2>2, <2>5, <2>8 DEF BodiesNest
  <1>7. DefinitionsRecorded
    BY <1>2, <1>3 DEF DefinitionsRecorded, Insert
  <1>8. Known(tables) = DOMAIN world.superclasses
    BY <1>1, <1>2
  <1>9. Len(registrar.visibilityStack) = Len(registrar.open) - Len(registrar.dynamicStack)
    BY <1>1
  <1> QED
    BY <1>5, <1>6, <1>7, <1>8, <1>9 DEF Inv

LEMMA Stuttering == ASSUME Inv, UNCHANGED vars PROVE Inv'
BY DEF Inv, Types, BodiesNest, DefinitionsRecorded, vars

\* Statements that are Regular keep the invariant, whichever they are and in whatever order they come.
LEMMA Inductive == ASSUME Inv, ThemesAssumption, WrittenRegular, [Next]_vars PROVE Inv'
BY ClassStep, StructStep, SingletonStep, BlockStep, CloseStep, DefStep, SignaturesQuiet, AttrQuiet, DefaultQuiet,
   VisibilityQuiet, AliasesQuiet, MixinQuiet, ClassCallsQuiet, GeneratedQuiet, FilesQuiet, RegisterQuiet,
   Stuttering DEF Next

LEMMA Implied == ASSUME Inv PROVE DefinitionsOwned
  <1>1. Len(registrar.open) + 1 = Len(world.scopes)
    <2>1. PICK past \in Seq(Stacks) : /\ Unwinds(past, world.scopes, registrar.open, Known(tables))
                                      /\ past[Len(past)] = Now(registrar)
      BY DEF Inv, BodiesNest
    <2>2. /\ Len(past) \in Nat /\ Len(world.scopes) = Len(past) /\ Len(registrar.open) = Len(past) - 1
      BY <2>1, InnermostBody
    <2> QED
      BY <2>2
  <1> QED
    BY <1>1 DEF Inv, Types, DefinitionsRecorded, DefinitionsOwned, TypeOK

\* However deep bodies nest and in whatever order they close, MethodRegistrar's stacks of classes,
\* singleton classes and class_eval blocks (declarations.rs) unwind with Ruby's scopes: the end of a
\* body brings back what was open around it. The program is Regular: in particular the class whose
\* class_eval or instance_eval is called is named by one constant without the root marker, as
\* dynamic_definition_target (declarations.rs:1136) would keep the marker in the owner.
THEOREM StacksUnwind == ASSUME WrittenRegular PROVE Spec => []Inv
  <1>1. Init => Inv
    BY Initial, ThemesAssumption
  <1>2. Inv /\ [Next]_vars => Inv'
    BY Inductive, ThemesAssumption
  <1> QED
    BY <1>1, <1>2, PTL DEF Spec

\* Every def visit_def_node records has the owner Ruby gives it, in a program of any length over any
\* classes whose bodies nest and whose classes are named as Regular says: class_eval blocks only
\* of classes named by one constant without the root marker.
THEOREM OwnersSound == ASSUME WrittenRegular PROVE Spec => []DefinitionsOwned
  <1>1. Inv => DefinitionsOwned
    BY Implied
  <1> QED
    BY <1>1, StacksUnwind, PTL
=============================================================================
