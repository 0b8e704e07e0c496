---------------------------- MODULE Environment ----------------------------
(***************************************************************************)
(* The abstract state of one program point, infer/environment.rs, with the *)
(* shapes of hash literals of infer/hash_shape.rs: the types of the locals *)
(* and of the refined instance variables, and the facts known about them.  *)
(* An environment is a record of functions over Name; Absent stands for a  *)
(* key that is not in the code's map.                                      *)
(*                                                                         *)
(* The type algebra is a parameter: nothing here depends on which types    *)
(* there are.  self_type and the method keys, which no operation below     *)
(* touches, and block_parameters, a mark no narrowing reads, are left out. *)
(***************************************************************************)
EXTENDS FiniteSetsExt

CONSTANTS
    Name,           \* locals and refinement keys of instance variables
    Ivar,           \* the names that are refinement keys
    Key,            \* literal keys of hashes
    Type,
    Absent,
    AnyType, NeverType, NilType, BoolType,
    Literals,       \* the types True and False, of a literal boolean
    Join(_, _), Meet(_, _), Without(_, _), TruthyPart(_), FalsyPart(_),
    ArrayOf(_),     \* the type Array[t]
    ElementOf(_)    \* t of Array[t]; Absent for any other type

ASSUME AbsentAssumption == Absent \notin Type /\ Absent \notin BOOLEAN
ASSUME NameAssumption == Ivar \subseteq Name

Alias == [source : Name, negated : BOOLEAN, expected : Type \union {Absent}]
Shape == [entries : [Key -> Type \union {Absent}], unknown : Type \union {Absent}]
AliasOrAbsent == Alias \union {Absent}
ShapeOrAbsent == Shape \union {Absent}

Environment ==
    [ locals      : [Name -> Type \union {Absent}],
      inferred    : SUBSET Name,    \* type seen at call sites only
      provisional : SUBSET Name,    \* parameter nothing is known of yet
      openArray   : SUBSET Name,    \* bound to an empty array literal
      nonempty    : SUBSET Name,    \* proven to be a non-empty array
      responds    : SUBSET Name,    \* proven by respond_to?
      alias       : [Name -> AliasOrAbsent],
      truthiness  : [Name -> BOOLEAN \union {Absent}],
      shape       : [Name -> ShapeOrAbsent] ]

DefaultEnvironment ==
    [ locals |-> [n \in Name |-> Absent],
      inferred |-> {}, provisional |-> {}, openArray |-> {}, nonempty |-> {}, responds |-> {},
      alias |-> [n \in Name |-> Absent],
      truthiness |-> [n \in Name |-> Absent],
      shape |-> [n \in Name |-> Absent] ]

Contains(e, n) == e.locals[n] # Absent
Get(e, n) == IF Contains(e, n) THEN e.locals[n] ELSE AnyType

\* The fact that a method is there is kept under another key than the refinement of an
\* instance variable, and only the key of a local is ever cleared.
WithoutResponds(e, names) == e.responds \ (names \ Ivar)

\* Bind with one slip: the truthiness of the old value stays known.
BindKeepingTruthiness(e, n, t) ==
    [ locals |-> [e.locals EXCEPT ![n] = t],
      inferred |-> e.inferred \ {n}, provisional |-> e.provisional \ {n},
      openArray |-> e.openArray \ {n}, nonempty |-> e.nonempty \ {n},
      responds |-> WithoutResponds(e, {n}),
      alias |-> [e.alias EXCEPT ![n] = Absent], truthiness |-> e.truthiness,
      shape |-> [e.shape EXCEPT ![n] = Absent] ]

\* Every other fact about n goes, with one exception: an alias of ANOTHER name whose source is n.
Bind(e, n, t) ==
    [ locals |-> [e.locals EXCEPT ![n] = t],
      inferred |-> e.inferred \ {n}, provisional |-> e.provisional \ {n},
      openArray |-> e.openArray \ {n}, nonempty |-> e.nonempty \ {n},
      responds |-> WithoutResponds(e, {n}),
      alias |-> [e.alias EXCEPT ![n] = Absent], truthiness |-> [e.truthiness EXCEPT ![n] = Absent],
      shape |-> [e.shape EXCEPT ![n] = Absent] ]

MarkInferred(e, n) ==
    IF Contains(e, n)
    THEN [[e EXCEPT !.provisional = @ \ {n}] EXCEPT !.inferred = @ \union {n}] ELSE e

MarkProvisional(e, n) ==
    IF Contains(e, n) THEN [e EXCEPT !.inferred = @ \ {n}, !.provisional = @ \union {n}] ELSE e

IsInferred(e, n) == n \in e.inferred
IsOpen(e, n) == n \in e.inferred \union e.provisional

BindPredicateAlias(e, n, t, alias) == [Bind(e, n, t) EXCEPT !.alias[n] = alias]

\* The type alone: what is known of the value stays known.
Retype(e, n, t) == [e EXCEPT !.locals[n] = t]

SetKnownTruthiness(e, n, truthy) == [e EXCEPT !.truthiness[n] = truthy]
SetKnownNonempty(e, n, known) ==
    [e EXCEPT !.nonempty = IF known THEN @ \union {n} ELSE @ \ {n}]
SetKnownRespondTo(e, n) == [e EXCEPT !.responds = @ \union {n}]
SetHashShape(e, n, shape) == [e EXCEPT !.shape[n] = shape]

\* A block may run more than once: a literal boolean it overwrites is not stable in it.
WidenCapturedTruthiness(e, n) ==
    SetKnownTruthiness(Retype(e, n, IF e.locals[n] \in Literals THEN BoolType ELSE e.locals[n]),
                       n, Absent)

\* WidenOpenArray with one slip: the array itself is taken for its element.
WidenOpenArrayNested(e, n, t) ==
    IF n \in e.openArray /\ Contains(e, n)
    THEN Retype(e, n, ArrayOf(Join(e.locals[n], t))) ELSE e

\* An append to an array that began empty; Any is only the placeholder of its element type.
WidenOpenArray(e, n, t) ==
    LET element == ElementOf(Get(e, n))
        before == IF element = AnyType THEN NeverType ELSE element
    IN  IF n \in e.openArray /\ Contains(e, n) /\ element # Absent
        THEN Retype(e, n, ArrayOf(Join(before, t)))
        ELSE e

\* What respond_to? proved is compared under the bare name, where nothing is kept.
LocalFactsUnchanged(e, f, n) ==
    /\ Get(e, n) = Get(f, n)
    /\ n \in e.inferred <=> n \in f.inferred
    /\ n \in e.provisional <=> n \in f.provisional
    /\ n \in e.openArray <=> n \in f.openArray
    /\ n \in e.nonempty <=> n \in f.nonempty
    /\ e.alias[n] = f.alias[n] /\ e.truthiness[n] = f.truthiness[n] /\ e.shape[n] = f.shape[n]

-----------------------------------------------------------------------------
(* Hash shapes.                                                            *)

\* JoinEntry with one slip: the key that one side lacks keeps its type.
JoinEntryOneSided(s, t) ==
    IF s = Absent THEN t ELSE IF t = Absent THEN s ELSE Join(s, t)

\* A key only one side has may be missing: it reads as nil there.
JoinEntry(s, t) ==
    IF s = Absent THEN IF t = Absent THEN Absent ELSE Join(t, NilType)
    ELSE IF t = Absent THEN Join(s, NilType) ELSE Join(s, t)

JoinShape(s, t) ==
    [ entries |-> [k \in Key |-> JoinEntry(s.entries[k], t.entries[k])],
      unknown |-> JoinEntry(s.unknown, t.unknown) ]

ValueFor(shape, k) ==
    LET known == IF shape.entries[k] = Absent THEN NilType ELSE shape.entries[k]
    IN  IF shape.unknown = Absent THEN known ELSE Join(known, shape.unknown)

\* What a write to a key the shape has must fit.
ValueType(shape) ==
    FoldSet(Join, NeverType, ({shape.entries[k] : k \in Key} \union {shape.unknown}) \ {Absent})

WriteEntry(shape, k, t) == [shape EXCEPT !.entries[k] = t]

-----------------------------------------------------------------------------
(* The join of two paths.                                                  *)

\* Agreed with one slip: the first path's facts win.
AgreedFirst(f, g) == f

\* Common with one slip: a path that proved a fact is believed for both.
EitherPath(names, others) == names \union others

\* A fact survives a join only when both paths agree on it.
Agreed(f, g) == [n \in Name |-> IF f[n] = g[n] THEN f[n] ELSE Absent]

Common(names, others) == names \intersect others

\* A local that exists on one path only may be nil.
JoinLocal(s, t) == JoinEntry(s, t)

JoinEnvironment(e, f) ==
    [ locals      |-> [n \in Name |-> JoinLocal(e.locals[n], f.locals[n])],
      inferred    |-> e.inferred \union f.inferred,
      provisional |-> e.provisional \union f.provisional,
      openArray   |-> Common(e.openArray, f.openArray),
      nonempty    |-> Common(e.nonempty, f.nonempty),
      responds    |-> Common(e.responds, f.responds),
      alias       |-> Agreed(e.alias, f.alias),
      truthiness  |-> Agreed(e.truthiness, f.truthiness),
      shape       |-> [n \in Name |-> IF Absent \in {e.shape[n], f.shape[n]} THEN Absent
                                      ELSE JoinShape(e.shape[n], f.shape[n])] ]
==============================================================================
