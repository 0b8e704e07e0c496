------------------------- MODULE CallBinding_proofs -------------------------
EXTENDS CallBinding, SequenceTheorems, FiniteSetTheorems, WellFoundedInduction, TLAPS

-----------------------------------------------------------------------------
(* Numbers. *)

LEMMA LeastNumber ==
    ASSUME NEW S, S \subseteq Nat, S # {}
    PROVE  \E m \in S : \A n \in S : m <= n
  <1> DEFINE R == OpToRel(<, Nat)
  <1>1. IsWellFoundedOn(R, Nat)
    BY NatLessThanWellFounded
  <1>2. \E m \in S : \A n \in S : ~(<< n, m >> \in R)
    <2> HIDE DEF R
    <2> QED
      BY <1>1, WFMin
  <1>3. \A m, n \in S : m < n => << m, n >> \in R
    BY DEF OpToRel
  <1>4. \A m, n \in S : ~(n < m) => m <= n
    OBVIOUS
  <1> QED
    BY <1>2, <1>3, <1>4

LEMMA AtLeastZero == \A x \in Int : Max({0, x}) = IF x >= 0 THEN x ELSE 0
  <1> SUFFICES ASSUME NEW x \in Int PROVE Max({0, x}) = IF x >= 0 THEN x ELSE 0
    OBVIOUS
  <1>1. CASE x >= 0
    BY <1>1 DEF Max
  <1>2. CASE x < 0
    BY <1>2 DEF Max
  <1> QED
    BY <1>1, <1>2

-----------------------------------------------------------------------------
(* Sequences of sequences. *)

\* The function FlattenSeq reads its value from.
IsFlatten(f, pieces, n) ==
    f = [i \in 1 .. n |-> IF i = 1 THEN pieces[i] ELSE f[i - 1] \o pieces[i]]

LEMMA FlattenExists ==
    ASSUME NEW pieces, NEW n \in Nat
    PROVE  \E f : IsFlatten(f, pieces, n)
  <1> DEFINE Bad == {m \in Nat : ~\E f : IsFlatten(f, pieces, m)}
  <1>1. SUFFICES ASSUME Bad # {} PROVE FALSE
    OBVIOUS
  <1>2. PICK m \in Bad : \A k \in Bad : m <= k
    <2> HIDE DEF Bad
    <2>1. Bad \subseteq Nat
      BY DEF Bad
    <2> QED
      BY <1>1, <2>1, LeastNumber
  <1>3. CASE m = 0
    <2> DEFINE f == [i \in 1 .. 0 |-> 0]
    <2>1. f = [i \in 1 .. 0 |-> IF i = 1 THEN pieces[i] ELSE f[i - 1] \o pieces[i]]
      OBVIOUS
    <2> QED
      BY <1>3, <2>1 DEF IsFlatten
  <1>4. CASE m # 0
    <2>1. m \in Nat /\ m - 1 \in Nat /\ m - 1 \notin Bad
      BY <1>2, <1>4
    <2>2. PICK g : IsFlatten(g, pieces, m - 1)
      BY <2>1
    <2> DEFINE f == [i \in 1 .. m |-> IF i = m THEN IF i = 1 THEN pieces[i] ELSE g[i - 1] \o pieces[i]
                                      ELSE g[i]]
    <2>3. \A i \in 1 .. m - 1 : g[i] = IF i = 1 THEN pieces[i] ELSE g[i - 1] \o pieces[i]
      BY <2>2 DEF IsFlatten
    <2>4. ASSUME NEW i \in 1 .. m PROVE f[i] = IF i = 1 THEN pieces[i] ELSE f[i - 1] \o pieces[i]
      <3>1. CASE i = m
        <4>1. i # 1 => i - 1 \in 1 .. m /\ i - 1 # m
          BY <2>1, <3>1
        <4>2. i # 1 => f[i - 1] = g[i - 1]
          BY <4>1
        <4> QED
          BY <3>1, <4>2
      <3>2. CASE i # m
        <4>1. i \in 1 .. m - 1 /\ (i # 1 => i - 1 \in 1 .. m /\ i - 1 # m)
          BY <2>1, <3>2
        <4>2. f[i] = g[i] /\ (i # 1 => f[i - 1] = g[i - 1])
          BY <3>2, <4>1
        <4> QED
          BY <2>3, <4>1, <4>2
      <3> QED
        BY <3>1, <3>2
    <2>5. IsFlatten(f, pieces, m)
      <3>1. f = [i \in 1 .. m |-> f[i]]
        OBVIOUS
      <3> HIDE DEF f
      <3> QED
        BY <2>4, <3>1 DEF IsFlatten
    <2> QED
      BY <1>2, <2>5
  <1> QED
    BY <1>3, <1>4

\* Flat is the sequence of what comes before each piece.
IsPrefixes(flat, pieces) ==
    /\ flat[0] = << >>
    /\ \A i \in 1 .. Len(pieces) : flat[i] = flat[i - 1] \o pieces[i]
    /\ FlattenSeq(pieces) = flat[Len(pieces)]

LEMMA Flattened ==
    ASSUME NEW S, NEW pieces \in Seq(Seq(S))
    PROVE  \E flat \in [0 .. Len(pieces) -> Seq(S)] : IsPrefixes(flat, pieces)
  <1> DEFINE n == Len(pieces)
             f == CHOOSE f : IsFlatten(f, pieces, n)
             flat == [i \in 0 .. n |-> IF i = 0 THEN << >> ELSE f[i]]
  <1>1. n \in Nat /\ (n = 0 => pieces = << >>) /\ \A i \in 1 .. n : pieces[i] \in Seq(S)
    OBVIOUS
  <1>2. IsFlatten(f, pieces, n)
    BY <1>1, FlattenExists
  <1>3. n # 0 => FlattenSeq(pieces) = f[n]
    BY DEF FlattenSeq, IsFlatten
  <1>4. n = 0 => FlattenSeq(pieces) = << >>
    BY <1>1 DEF FlattenSeq
  <1>5. \A i \in 1 .. n : f[i] = IF i = 1 THEN pieces[i] ELSE f[i - 1] \o pieces[i]
    <2> HIDE DEF f
    <2> QED
      BY <1>2 DEF IsFlatten
  <1> HIDE DEF f
  <1>6. flat[0] = << >> /\ \A i \in 1 .. n : flat[i] = f[i]
    BY <1>1
  <1>7. \A s \in Seq(S) : << >> \o s = s
    OBVIOUS
  <1>8. \A i \in 1 .. n : flat[i] = flat[i - 1] \o pieces[i]
    <2> SUFFICES ASSUME NEW i \in 1 .. n PROVE flat[i] = flat[i - 1] \o pieces[i]
      OBVIOUS
    <2> HIDE DEF flat
    <2>1. CASE i = 1
      <3>1. flat[i - 1] = << >> /\ flat[i] = pieces[i] /\ pieces[i] \in Seq(S)
        BY <1>1, <1>5, <1>6, <2>1
      <3> QED
        BY <1>7, <3>1
    <2>2. CASE i # 1
      <3>1. i - 1 \in 1 .. n
        BY <1>1, <2>2
      <3> QED
        BY <1>5, <1>6, <2>2, <3>1
    <2> QED
      BY <2>1, <2>2
  <1>9. FlattenSeq(pieces) = flat[n]
    <2>1. CASE n = 0
      BY <1>4, <1>6, <2>1
    <2>2. CASE n # 0
      <3>1. n \in 1 .. n
        BY <1>1, <2>2
      <3> QED
        BY <1>3, <1>6, <2>2, <3>1
    <2> QED
      BY <2>1, <2>2
  <1>10. \A i \in 0 .. n : flat[i] \in Seq(S)
    <2> DEFINE Bad == {i \in 0 .. n : flat[i] \notin Seq(S)}
    <2> HIDE DEF flat
    <2>1. SUFFICES ASSUME Bad # {} PROVE FALSE
      OBVIOUS
    <2>2. PICK m \in Bad : \A k \in Bad : m <= k
      <3>1. Bad \subseteq Nat
        BY <1>1
      <3> HIDE DEF Bad
      <3> QED
        BY <2>1, <3>1, LeastNumber
    <2>3. m # 0 /\ m \in 0 .. n /\ flat[m] \notin Seq(S)
      <3>1. << >> \in Seq(S)
        OBVIOUS
      <3> QED
        BY <1>6, <2>2, <3>1
    <2>4. m - 1 \in 0 .. n /\ m - 1 \notin Bad /\ m \in 1 .. n
      BY <1>1, <2>2, <2>3
    <2>5. flat[m - 1] \in Seq(S) /\ pieces[m] \in Seq(S)
      BY <1>1, <2>4
    <2>6. flat[m - 1] \o pieces[m] \in Seq(S)
      BY <2>5
    <2> QED
      BY <1>8, <2>3, <2>4, <2>6
  <1>11. flat \in [0 .. n -> Seq(S)]
    BY <1>10
  <1> HIDE DEF flat, n
  <1>12. IsPrefixes(flat, pieces)
    BY <1>6, <1>8, <1>9 DEF IsPrefixes, n
  <1> QED
    BY <1>11, <1>12 DEF n

-----------------------------------------------------------------------------
(* The concrete calls of a call whose arguments are all written out. *)

Plain(call) ==
    /\ \A i \in DOMAIN call.args : call.args[i].kind \in {"value", "tuple"}
    /\ call.splat = {} /\ ~call.forwards

\* The function Positionals reads its value from.
IsUpto(u, args, n) ==
    u = [i \in 0 .. n |-> IF i = 0 THEN {<< >>} ELSE Continued(u[i - 1], ValuesOf(args[i]))]

LEMMA UptoExists ==
    ASSUME NEW args, NEW n \in Nat
    PROVE  \E u : IsUpto(u, args, n)
  <1> DEFINE Bad == {m \in Nat : ~\E u : IsUpto(u, args, m)}
  <1>1. SUFFICES ASSUME Bad # {} PROVE FALSE
    OBVIOUS
  <1>2. PICK m \in Bad : \A k \in Bad : m <= k
    <2> HIDE DEF Bad
    <2>1. Bad \subseteq Nat
      BY DEF Bad
    <2> QED
      BY <1>1, <2>1, LeastNumber
  <1>3. CASE m = 0
    <2> DEFINE u == [i \in 0 .. 0 |-> {<< >>}]
    <2>1. u = [i \in 0 .. 0 |-> IF i = 0 THEN {<< >>} ELSE Continued(u[i - 1], ValuesOf(args[i]))]
      OBVIOUS
    <2> QED
      BY <1>3, <2>1 DEF IsUpto
  <1>4. CASE m # 0
    <2>1. m \in Nat /\ m - 1 \in Nat /\ m - 1 \notin Bad
      BY <1>2, <1>4
    <2>2. PICK g : IsUpto(g, args, m - 1)
      BY <2>1
    <2> DEFINE u == [i \in 0 .. m |-> IF i = m THEN Continued(g[i - 1], ValuesOf(args[i])) ELSE g[i]]
    <2>3. \A i \in 0 .. m - 1 : g[i] = IF i = 0 THEN {<< >>} ELSE Continued(g[i - 1], ValuesOf(args[i]))
      BY <2>2 DEF IsUpto
    <2>4. ASSUME NEW i \in 0 .. m PROVE u[i] = IF i = 0 THEN {<< >>} ELSE Continued(u[i - 1], ValuesOf(args[i]))
      <3>1. CASE i = m
        <4>1. i # 0 /\ i - 1 \in 0 .. m /\ i - 1 # m
          BY <1>4, <2>1, <3>1
        <4>2. u[i - 1] = g[i - 1]
          BY <4>1
        <4> QED
          BY <3>1, <4>1, <4>2
      <3>2. CASE i # m
        <4>1. i \in 0 .. m - 1 /\ (i # 0 => i - 1 \in 0 .. m /\ i - 1 # m)
          BY <2>1, <3>2
        <4>2. u[i] = g[i] /\ (i # 0 => u[i - 1] = g[i - 1])
          BY <3>2, <4>1
        <4> QED
          BY <2>3, <4>1, <4>2
      <3> QED
        BY <3>1, <3>2
    <2>5. IsUpto(u, args, m)
      <3>1. u = [i \in 0 .. m |-> u[i]]
        OBVIOUS
      <3> HIDE DEF u
      <3>2. u = [i \in 0 .. m |-> IF i = 0 THEN {<< >>} ELSE Continued(u[i - 1], ValuesOf(args[i]))]
        BY <2>4, <3>1
      <3> QED
        BY <3>2 DEF IsUpto
    <2> QED
      BY <1>2, <2>5
  <1> QED
    BY <1>3, <1>4

LEMMA PositionalsUpto ==
    ASSUME NEW args, Len(args) \in Nat
    PROVE  \E u : /\ u[0] = {<< >>}
                  /\ \A i \in 1 .. Len(args) : u[i] = Continued(u[i - 1], ValuesOf(args[i]))
                  /\ Positionals(args) = u[Len(args)]
  <1> DEFINE n == Len(args)
             u == CHOOSE u : IsUpto(u, args, n)
  <1>1. IsUpto(u, args, n)
    BY UptoExists
  <1>2. Positionals(args) = u[n]
    BY DEF Positionals, IsUpto
  <1> HIDE DEF u
  <1>3. u[0] = {<< >>}
    BY <1>1 DEF IsUpto
  <1>4. \A i \in 1 .. n : u[i] = Continued(u[i - 1], ValuesOf(args[i]))
    <2> SUFFICES ASSUME NEW i \in 1 .. n PROVE u[i] = Continued(u[i - 1], ValuesOf(args[i]))
      OBVIOUS
    <2>1. i \in 0 .. n /\ i # 0
      OBVIOUS
    <2> QED
      BY <1>1, <2>1 DEF IsUpto
  <1> QED
    BY <1>2, <1>3, <1>4

\* What a transfer shows of an argument.
Shown == [type : ValueTypes, alias : STRING \union {NoAlias}]

\* The values may be those of the arguments.
Fits(arguments, values) ==
    /\ values \in Seq(Universe) /\ Len(values) = Len(arguments)
    /\ \A i \in 1 .. Len(arguments) : values[i] \in arguments[i].type

LEMMA FitsNothing == \A values : Fits(<< >>, values) <=> values = << >>
  <1> SUFFICES ASSUME NEW values PROVE Fits(<< >>, values) <=> values = << >>
    OBVIOUS
  <1>1. << >> \in Seq(Universe) /\ Len(<< >>) = 0
    OBVIOUS
  <1>2. values \in Seq(Universe) /\ Len(values) = 0 => values = << >>
    OBVIOUS
  <1>3. Fits(<< >>, values) <=> values \in Seq(Universe) /\ Len(values) = 0
    BY <1>1 DEF Fits
  <1> QED
    BY <1>1, <1>2, <1>3

\* The values may be those of the first arguments, and then of the others.
FitsBoth(a, b, values) == \E v, w : Fits(a, v) /\ Fits(b, w) /\ values = v \o w

LEMMA FitsConcat ==
    ASSUME NEW a \in Seq(Shown), NEW b \in Seq(Shown), NEW values
    PROVE  Fits(a \o b, values) <=> FitsBoth(a, b, values)
  <1> DEFINE m == Len(a)
             n == Len(b)
             c == a \o b
  <1>1. /\ m \in Nat /\ n \in Nat /\ c \in Seq(Shown) /\ Len(c) = m + n
        /\ \A i \in 1 .. m : c[i] = a[i]
        /\ \A i \in 1 .. n : c[m + i] = b[i]
    OBVIOUS
  <1> HIDE DEF c
  <1>2. ASSUME Fits(c, values) PROVE \E v, w : Fits(a, v) /\ Fits(b, w) /\ values = v \o w
    <2> DEFINE v == SubSeq(values, 1, m)
               w == SubSeq(values, m + 1, m + n)
    <2>1. values \in Seq(Universe) /\ Len(values) = m + n /\ \A i \in 1 .. m + n : values[i] \in c[i].type
      BY <1>1, <1>2 DEF Fits
    <2>2. v \in Seq(Universe) /\ Len(v) = m /\ \A i \in 1 .. m : v[i] = values[i]
      BY <1>1, <2>1
    <2>3. w \in Seq(Universe) /\ Len(w) = n /\ \A i \in 1 .. n : w[i] = values[m + i]
      BY <1>1, <2>1
    <2> HIDE DEF v, w
    <2>4. values = v \o w
      <3> DEFINE x == v \o w
      <3>1. /\ x \in Seq(Universe) /\ Len(x) = m + n
            /\ \A i \in 1 .. m : x[i] = v[i]
            /\ \A i \in 1 .. n : x[m + i] = w[i]
        <4>1. /\ x \in Seq(Universe) /\ Len(x) = Len(v) + Len(w)
              /\ \A i \in 1 .. Len(v) : x[i] = v[i]
              /\ \A i \in 1 .. Len(w) : x[Len(v) + i] = w[i]
          <5>1. v \in Seq(Universe) /\ w \in Seq(Universe)
            BY <2>2, <2>3
          <5> QED
            BY <5>1
        <4> HIDE DEF x
        <4> QED
          BY <2>2, <2>3, <4>1
      <3> HIDE DEF x
      <3>2. ASSUME NEW i \in 1 .. m + n PROVE x[i] = values[i]
        <4>1. CASE i <= m
          BY <1>1, <2>2, <3>1, <4>1
        <4>2. CASE i > m
          <5>1. i - m \in 1 .. n /\ m + (i - m) = i
            BY <1>1, <4>2
          <5> QED
            BY <2>3, <3>1, <5>1
        <4> QED
          BY <1>1, <4>1, <4>2
      <3>3. x = values
        BY <2>1, <3>1, <3>2, SeqEqual
      <3> QED
        BY <3>3 DEF x
    <2>5. Fits(a, v)
      BY <1>1, <2>1, <2>2 DEF Fits
    <2>6. \A i \in 1 .. n : w[i] \in b[i].type
      BY <1>1, <2>1, <2>3
    <2>7. Fits(b, w)
      BY <2>3, <2>6 DEF Fits
    <2> QED
      BY <2>4, <2>5, <2>7
  <1>3. ASSUME NEW v, NEW w, Fits(a, v), Fits(b, w), values = v \o w PROVE Fits(c, values)
    <2>1. /\ v \in Seq(Universe) /\ Len(v) = m /\ \A i \in 1 .. m : v[i] \in a[i].type
          /\ w \in Seq(Universe) /\ Len(w) = n /\ \A i \in 1 .. n : w[i] \in b[i].type
      BY <1>3 DEF Fits
    <2>2. /\ values \in Seq(Universe) /\ Len(values) = m + n
          /\ \A i \in 1 .. m : values[i] = v[i]
          /\ \A i \in 1 .. n : values[m + i] = w[i]
      <3>1. /\ v \o w \in Seq(Universe) /\ Len(v \o w) = Len(v) + Len(w)
            /\ \A i \in 1 .. Len(v) : (v \o w)[i] = v[i]
            /\ \A i \in 1 .. Len(w) : (v \o w)[Len(v) + i] = w[i]
        <4>1. v \in Seq(Universe) /\ w \in Seq(Universe)
          BY <2>1
        <4> QED
          BY <4>1
      <3> QED
        BY <1>3, <2>1, <3>1
    <2>3. ASSUME NEW i \in 1 .. m + n PROVE values[i] \in c[i].type
      <3>1. CASE i <= m
        BY <1>1, <2>1, <2>2, <3>1
      <3>2. CASE i > m
        <4>1. i - m \in 1 .. n /\ m + (i - m) = i
          BY <1>1, <3>2
        <4>2. values[i] = w[i - m] /\ c[i] = b[i - m]
          BY <1>1, <2>2, <4>1
        <4> QED
          BY <2>1, <4>1, <4>2
      <3> QED
        BY <1>1, <3>1, <3>2
    <2> QED
      BY <1>1, <2>2, <2>3 DEF Fits
  <1> QED
    BY <1>2, <1>3 DEF c, FitsBoth

LEMMA PieceFits ==
    ASSUME NEW arg \in ArgumentSet, arg.kind \in {"value", "tuple"}
    PROVE  /\ Elements(arg) \in Seq(Shown)
           /\ \A v : v \in ValuesOf(arg) <=> Fits(Elements(arg), v)
  <1>1. CASE arg.kind = "value"
    <2>1. arg.type \in ValueTypes /\ arg.alias \in STRING
      BY <1>1 DEF ArgumentSet, UnknownArgument
    <2>2. Elements(arg) = << [type |-> arg.type, alias |-> arg.alias] >>
      BY <1>1 DEF Elements, Argument
    <2>3. Elements(arg) \in Seq(Shown)
      BY <2>1, <2>2 DEF Shown
    <2>4. ValuesOf(arg) = {<< c >> : c \in arg.type}
      BY <1>1 DEF ValuesOf
    <2>5. arg.type \subseteq Universe
      BY <2>1 DEF ValueTypes
    <2>6. ASSUME NEW v PROVE v \in ValuesOf(arg) <=> Fits(Elements(arg), v)
      <3>1. Fits(Elements(arg), v) <=> v \in Seq(Universe) /\ Len(v) = 1 /\ v[1] \in arg.type
        BY <2>2 DEF Fits
      <3>2. v \in Seq(Universe) /\ Len(v) = 1 => v = << v[1] >>
        OBVIOUS
      <3>3. v \in ValuesOf(arg) <=> \E c \in arg.type : v = << c >>
        BY <2>4
      <3>4. \A c \in arg.type : << c >> \in Seq(Universe) /\ Len(<< c >>) = 1 /\ << c >>[1] = c
        BY <2>5
      <3> QED
        BY <3>1, <3>2, <3>3, <3>4
    <2> QED
      BY <2>3, <2>6
  <1>2. CASE arg.kind = "tuple"
    <2>1. arg.types \in Seq(ValueTypes)
      BY <1>2 DEF ArgumentSet, UnknownArgument
    <2> DEFINE n == Len(arg.types)
               e == [i \in 1 .. n |-> [type |-> arg.types[i], alias |-> NoAlias]]
    <2>2. n \in Nat /\ DOMAIN arg.types = 1 .. n /\ \A i \in 1 .. n : arg.types[i] \in ValueTypes
      BY <2>1
    <2>3. Elements(arg) = e
      BY <1>2, <2>2 DEF Elements, Argument
    <2>4. e \in Seq(Shown) /\ Len(e) = n /\ \A i \in 1 .. n : e[i].type = arg.types[i]
      BY <2>2 DEF Shown
    <2>5. ValuesOf(arg) = {v \in [1 .. n -> UNION {arg.types[i] : i \in 1 .. n}] : \A i \in 1 .. n : v[i] \in arg.types[i]}
      BY <1>2, <2>2 DEF ValuesOf
    <2>6. UNION {arg.types[i] : i \in 1 .. n} \subseteq Universe
      BY <2>2 DEF ValueTypes
    <2> HIDE DEF n, e
    <2>7. ASSUME NEW v PROVE v \in ValuesOf(arg) <=> Fits(e, v)
      <3>1. Fits(e, v) <=> v \in Seq(Universe) /\ Len(v) = n /\ \A i \in 1 .. n : v[i] \in arg.types[i]
        BY <2>4 DEF Fits
      <3>2. v \in [1 .. n -> UNION {arg.types[i] : i \in 1 .. n}] => v \in Seq(Universe) /\ Len(v) = n
        BY <2>2, <2>6
      <3>3. ASSUME v \in Seq(Universe), Len(v) = n, \A i \in 1 .. n : v[i] \in arg.types[i]
            PROVE  v \in [1 .. n -> UNION {arg.types[i] : i \in 1 .. n}]
        <4>1. v = [i \in 1 .. n |-> v[i]]
          BY <3>3
        <4>2. \A i \in 1 .. n : v[i] \in UNION {arg.types[j] : j \in 1 .. n}
          BY <3>3
        <4> QED
          BY <4>1, <4>2
      <3> QED
        BY <2>5, <3>1, <3>2, <3>3
    <2> QED
      BY <2>3, <2>4, <2>7
  <1> QED
    BY <1>1, <1>2

LEMMA ExplicitFits ==
    ASSUME NEW call \in CallSet, Plain(call)
    PROVE  /\ Explicit(call) \in Seq(Shown)
           /\ \A v : v \in Positionals(call.args) <=> Fits(Explicit(call), v)
  <1> DEFINE args == call.args
             n == Len(args)
             pieces == [i \in DOMAIN args |-> Elements(args[i])]
  <1>1. args \in Seq(ArgumentSet) /\ n \in Nat /\ DOMAIN args = 1 .. n
    BY DEF CallSet
  <1>2. \A i \in 1 .. n : args[i] \in ArgumentSet /\ args[i].kind \in {"value", "tuple"}
    BY <1>1 DEF Plain
  <1>3. \A i \in 1 .. n : Elements(args[i]) \in Seq(Shown) /\ \A v : v \in ValuesOf(args[i]) <=> Fits(Elements(args[i]), v)
    BY <1>2, PieceFits
  <1>4. pieces \in Seq(Seq(Shown)) /\ Len(pieces) = n /\ \A i \in 1 .. n : pieces[i] = Elements(args[i])
    BY <1>1, <1>3
  <1>5. Explicit(call) = FlattenSeq(pieces)
    BY DEF Explicit
  <1> HIDE DEF pieces
  <1>6. PICK flat \in [0 .. n -> Seq(Shown)] : IsPrefixes(flat, pieces)
    BY <1>4, Flattened
  <1>7. PICK u : /\ u[0] = {<< >>}
                 /\ \A i \in 1 .. n : u[i] = Continued(u[i - 1], ValuesOf(args[i]))
                 /\ Positionals(args) = u[n]
    BY <1>1, PositionalsUpto
  <1> DEFINE Same(i) == \A v : v \in u[i] <=> Fits(flat[i], v)
             Bad == {i \in 0 .. n : ~Same(i)}
  <1>8. Same(0)
    BY <1>6, <1>7, FitsNothing DEF IsPrefixes
  <1>9. ASSUME NEW i \in 1 .. n, Same(i - 1) PROVE Same(i)
    <2> DEFINE x == flat[i - 1]
               y == Elements(args[i])
    <2>1. flat[i] = x \o y /\ u[i] = Continued(u[i - 1], ValuesOf(args[i]))
      BY <1>4, <1>6, <1>7 DEF IsPrefixes
    <2>2. x \in Seq(Shown) /\ y \in Seq(Shown)
      <3>1. i - 1 \in 0 .. n
        BY <1>1
      <3> QED
        BY <1>3, <1>6, <3>1
    <2>3. (\A s : s \in u[i - 1] <=> Fits(x, s)) /\ \A w : w \in ValuesOf(args[i]) <=> Fits(y, w)
      BY <1>3, <1>9
    <2> HIDE DEF x, y
    <2>4. ASSUME NEW v PROVE v \in u[i] <=> Fits(flat[i], v)
      <3>1. v \in u[i] <=> \E s \in u[i - 1], w \in ValuesOf(args[i]) : v = s \o w
        BY <2>1 DEF Continued
      <3>2. Fits(x \o y, v) <=> FitsBoth(x, y, v)
        BY <2>2, FitsConcat
      <3> QED
        BY <2>1, <2>3, <3>1, <3>2 DEF FitsBoth
    <2> QED
      BY <2>4
  <1>10. \A i \in 0 .. n : Same(i)
    <2> HIDE DEF Same
    <2>1. SUFFICES ASSUME Bad # {} PROVE FALSE
      OBVIOUS
    <2>2. PICK i \in Bad : \A k \in Bad : i <= k
      <3>1. Bad \subseteq Nat
        BY <1>1
      <3> HIDE DEF Bad
      <3> QED
        BY <2>1, <3>1, LeastNumber
    <2>3. i \in 1 .. n /\ i - 1 \in 0 .. n /\ ~(i <= i - 1)
      BY <1>1, <1>8, <2>2
    <2>4. i - 1 \notin Bad
      BY <2>2, <2>3
    <2>5. Same(i - 1)
      BY <2>3, <2>4
    <2> QED
      BY <1>9, <2>2, <2>3, <2>5
  <1>11. Same(n) /\ n \in 0 .. n
    BY <1>1, <1>10
  <1>12. Explicit(call) = flat[n] /\ Positionals(args) = u[n]
    BY <1>4, <1>5, <1>6, <1>7 DEF IsPrefixes
  <1> QED
    BY <1>6, <1>11, <1>12

\* The values keywords may have.
Named(call, keywords) ==
    keywords \in [DOMAIN call.named -> Universe] /\ \A k \in DOMAIN call.named : keywords[k] \in call.named[k]

LEMMA NamedTypes ==
    ASSUME NEW call \in CallSet
    PROVE  /\ call.named \in [DOMAIN call.named -> ValueTypes]
           /\ DOMAIN call.named \subseteq Names
BY DEF CallSet, Keyed

LEMMA KeywordsNamed ==
    ASSUME NEW call \in CallSet, Plain(call), NEW keywords
    PROVE  keywords \in Keywords(call) <=> Named(call, keywords)
  <1> DEFINE given == DOMAIN call.named
             named == {f \in [given -> UNION {call.named[k] : k \in given}] : \A k \in given : f[k] \in call.named[k]}
             held == call.splat \union (IF call.forwards THEN Untyped ELSE {})
             splatted == UNION {[some -> held] : some \in SUBSET (Names \ given)}
             Merged(f, g) == [k \in DOMAIN f \union DOMAIN g |-> IF k \in DOMAIN f THEN f[k] ELSE g[k]]
  <1>1. Keywords(call) = {Merged(f, g) : f \in named, g \in splatted}
    BY DEF Keywords
  <1>2. held = {}
    BY DEF Plain
  <1>3. \A k \in given : call.named[k] \subseteq Universe
    BY NamedTypes DEF ValueTypes
  <1>4. ASSUME NEW g \in splatted PROVE DOMAIN g = {}
    <2>1. PICK some \in SUBSET (Names \ given) : g \in [some -> held]
      OBVIOUS
    <2>2. g \in [some -> {}]
      BY <1>2, <2>1
    <2> QED
      BY <2>2
  <1>5. \E g : g \in splatted
    <2>1. {} \in SUBSET (Names \ given)
      OBVIOUS
    <2>2. [k \in {} |-> 0] \in [{} -> held]
      OBVIOUS
    <2> QED
      BY <2>1, <2>2
  <1>6. ASSUME NEW f \in named, NEW g \in splatted PROVE Merged(f, g) = f
    <2>1. DOMAIN g = {} /\ DOMAIN f = given /\ f = [k \in given |-> f[k]]
      BY <1>4
    <2>2. DOMAIN f \union DOMAIN g = given
      BY <2>1
    <2> HIDE DEF named, splatted, given
    <2> QED
      BY <2>1, <2>2
  <1>7. keywords \in Keywords(call) <=> keywords \in named
    <2> HIDE DEF named, splatted, Merged
    <2> QED
      BY <1>1, <1>5, <1>6
  <1>8. keywords \in named => Named(call, keywords)
    BY <1>3 DEF Named
  <1>9. ASSUME Named(call, keywords) PROVE keywords \in named
    <2>1. \A k \in given : keywords[k] \in call.named[k]
      BY <1>9 DEF Named
    <2>2. keywords = [k \in given |-> keywords[k]]
      BY <1>9 DEF Named
    <2>3. \A k \in given : keywords[k] \in UNION {call.named[j] : j \in given}
      BY <2>1
    <2> QED
      BY <2>1, <2>2, <2>3
  <1> QED
    BY <1>7, <1>8, <1>9

LEMMA ConcreteIs ==
    ASSUME NEW call \in CallSet, Plain(call)
    PROVE  /\ \A v, w : Fits(Explicit(call), v) /\ Named(call, w) => [positional |-> v, keywords |-> w] \in Concrete(call)
           /\ \A g \in Concrete(call) :
                /\ g = [positional |-> g.positional, keywords |-> g.keywords]
                /\ Fits(Explicit(call), g.positional) /\ Named(call, g.keywords)
  <1>1. Concrete(call) = [positional : Positionals(call.args), keywords : Keywords(call)]
    BY DEF Concrete, Plain
  <1>2. \A v : v \in Positionals(call.args) <=> Fits(Explicit(call), v)
    BY ExplicitFits
  <1>3. \A w : w \in Keywords(call) <=> Named(call, w)
    BY KeywordsNamed
  <1>4. \A v \in Positionals(call.args), w \in Keywords(call) : [positional |-> v, keywords |-> w] \in Concrete(call)
    BY <1>1
  <1>5. \A g \in Concrete(call) :
           /\ g = [positional |-> g.positional, keywords |-> g.keywords]
           /\ g.positional \in Positionals(call.args) /\ g.keywords \in Keywords(call)
    BY <1>1
  <1> QED
    BY <1>2, <1>3, <1>4, <1>5

-----------------------------------------------------------------------------
(* What a transfer materializes of such a call, and what Ruby hands over. *)

KeywordHash == [type |-> {HashClass}, alias |-> NoAlias]

LEMMA HashShown == KeywordHash \in Shown
  <1>1. Unknown # HashClass
    BY DEF Unknown, HashClass
  <1>2. {HashClass} \in ValueTypes
    BY <1>1 DEF ValueTypes, Universe
  <1> QED
    BY <1>2 DEF KeywordHash, Shown

LEMMA ArgumentsAre ==
    ASSUME NEW call \in CallSet, Plain(call)
    PROVE  LET a == Arguments(call)
           IN  /\ a.positional = Explicit(call) /\ a.keywords = call.named
               /\ a.all = IF DOMAIN call.named = {} THEN Explicit(call) ELSE Append(Explicit(call), KeywordHash)
               /\ a.dynamic = {} /\ a.unknown = FALSE /\ a.dynamicKeys = FALSE /\ a.unknownKeys = FALSE
               /\ a.keywordSplat = FALSE /\ a.forwards = FALSE /\ a.forwardsAll = FALSE
               /\ ~Permissive(a)
  <1>1. call.splat = {} /\ ~call.forwards /\ call.forwards \in BOOLEAN
    BY DEF Plain, CallSet
  <1>2. Splats(call, "array") = {} /\ Splats(call, "unknown") = {}
    BY DEF Splats, ToSet, Plain
  <1>3. ~IsUntyped(call.splat)
    BY <1>1 DEF IsUntyped
  <1> DEFINE a == Arguments(call)
  <1>4. /\ a.positional = Explicit(call) /\ a.keywords = call.named
        /\ a.all = IF DOMAIN call.named = {} THEN Explicit(call) ELSE Append(Explicit(call), KeywordHash)
    BY <1>1 DEF Arguments, KeywordHash, Argument
  <1>5. /\ a.dynamic = {} /\ a.unknown = FALSE /\ a.dynamicKeys = FALSE /\ a.unknownKeys = FALSE
        /\ a.keywordSplat = FALSE /\ a.forwards = FALSE /\ a.forwardsAll = FALSE
    BY <1>1, <1>2, <1>3 DEF Arguments, ForwardsAll
  <1> HIDE DEF a
  <1>6. ~Permissive(a)
    BY <1>5 DEF Permissive
  <1> QED
    BY <1>4, <1>5, <1>6 DEF a

LEMMA AppendFits ==
    ASSUME NEW a \in Seq(Shown), NEW values
    PROVE  Fits(Append(a, KeywordHash), values) <=> \E v : Fits(a, v) /\ values = Append(v, HashClass)
  <1> DEFINE n == Len(a)
             c == Append(a, KeywordHash)
  <1>1. n \in Nat /\ Len(c) = n + 1 /\ (\A i \in 1 .. n : c[i] = a[i]) /\ c[n + 1].type = {HashClass}
    BY DEF KeywordHash
  <1>2. HashClass \in Universe
    BY DEF Universe
  <1> HIDE DEF c
  <1>3. ASSUME Fits(c, values) PROVE \E v : Fits(a, v) /\ values = Append(v, HashClass)
    <2> DEFINE v == SubSeq(values, 1, n)
    <2>1. values \in Seq(Universe) /\ Len(values) = n + 1 /\ \A i \in 1 .. n + 1 : values[i] \in c[i].type
      BY <1>1, <1>3 DEF Fits
    <2>2. v \in Seq(Universe) /\ Len(v) = n /\ \A i \in 1 .. n : v[i] = values[i]
      BY <1>1, <2>1
    <2> HIDE DEF v
    <2>3. values[n + 1] = HashClass
      BY <1>1, <2>1
    <2>4. values = Append(v, HashClass)
      <3> DEFINE x == Append(v, HashClass)
      <3>1. x \in Seq(Universe) /\ Len(x) = n + 1 /\ x[n + 1] = HashClass /\ \A i \in 1 .. n : x[i] = v[i]
        BY <1>2, <2>2
      <3> HIDE DEF x
      <3>2. \A i \in 1 .. n + 1 : values[i] = x[i]
        <4> SUFFICES ASSUME NEW i \in 1 .. n + 1 PROVE values[i] = x[i]
          OBVIOUS
        <4>1. i \in 1 .. n \/ i = n + 1
          BY <1>1
        <4> QED
          BY <2>2, <2>3, <3>1, <4>1
      <3>3. values = x
        BY <2>1, <3>1, <3>2, SeqEqual
      <3> QED
        BY <3>3 DEF x
    <2>5. Fits(a, v)
      <3>1. \A i \in 1 .. n : v[i] \in a[i].type
        BY <1>1, <2>1, <2>2
      <3> QED
        BY <2>2, <3>1 DEF Fits
    <2> QED
      BY <2>4, <2>5
  <1>4. ASSUME NEW v, Fits(a, v), values = Append(v, HashClass) PROVE Fits(c, values)
    <2>1. v \in Seq(Universe) /\ Len(v) = n /\ \A i \in 1 .. n : v[i] \in a[i].type
      BY <1>4 DEF Fits
    <2>2. values \in Seq(Universe) /\ Len(values) = n + 1 /\ values[n + 1] = HashClass /\ \A i \in 1 .. n : values[i] = v[i]
      BY <1>2, <1>4, <2>1
    <2>3. ASSUME NEW i \in 1 .. n + 1 PROVE values[i] \in c[i].type
      <3>1. i \in 1 .. n \/ i = n + 1
        BY <1>1
      <3> QED
        BY <1>1, <2>1, <2>2, <3>1
    <2> QED
      BY <1>1, <2>2, <2>3 DEF Fits
  <1> QED
    BY <1>3, <1>4 DEF c

\* The shape a signature or a summary has.
HasShape(signature, shape) ==
    /\ signature.rest = (IF shape.rest THEN shape.required + shape.optional + 1 ELSE 0)
    /\ signature.params \in Seq(Types) /\ Len(signature.params) = Size(shape)
    /\ signature.required = Least(shape) /\ signature.keyrest = shape.keyrest
    /\ DOMAIN signature.keys = DOMAIN shape.keys
    /\ \A k \in DOMAIN shape.keys : signature.keys[k].required = shape.keys[k]

LEMMA SameMode ==
    ASSUME NEW signature, NEW shape, HasShape(signature, shape)
    PROVE  KeywordMode(signature) <=> TakesKeywords(shape)
BY DEF HasShape, KeywordMode, TakesKeywords

LEMMA BindingIs ==
    ASSUME NEW call \in CallSet, Plain(call), NEW signature, NEW shape, HasShape(signature, shape)
    PROVE  /\ Explicit(call) \in Seq(Shown)
           /\ Binding(signature, Arguments(call)) \in Seq(Shown)
           /\ Binding(signature, Arguments(call)) =
                IF TakesKeywords(shape) \/ DOMAIN call.named = {} THEN Explicit(call)
                ELSE Append(Explicit(call), KeywordHash)
  <1>1. Explicit(call) \in Seq(Shown)
    BY ExplicitFits
  <1>2. Binding(signature, Arguments(call)) =
            IF TakesKeywords(shape) \/ DOMAIN call.named = {} THEN Explicit(call)
            ELSE Append(Explicit(call), KeywordHash)
    BY ArgumentsAre, SameMode DEF Binding
  <1> QED
    BY <1>1, <1>2, HashShown

\* Ruby hands over what was materialized.
LEMMA GivenFits ==
    ASSUME NEW call \in CallSet, Plain(call), NEW signature, NEW shape, HasShape(signature, shape),
           NEW g \in Concrete(call)
    PROVE  /\ Fits(Binding(signature, Arguments(call)), Given(shape, g).positional)
           /\ Named(call, g.keywords) /\ DOMAIN g.keywords = DOMAIN call.named
           /\ TakesKeywords(shape) => Given(shape, g).keywords = g.keywords
           /\ ~TakesKeywords(shape) => DOMAIN Given(shape, g).keywords = {}
  <1> DEFINE binding == Binding(signature, Arguments(call))
             e == Explicit(call)
  <1>1. e \in Seq(Shown) /\ binding = IF TakesKeywords(shape) \/ DOMAIN call.named = {} THEN e ELSE Append(e, KeywordHash)
    BY BindingIs
  <1> HIDE DEF binding
  <1>2. Fits(e, g.positional) /\ Named(call, g.keywords)
    BY ConcreteIs
  <1>3. DOMAIN g.keywords = DOMAIN call.named
    BY <1>2 DEF Named
  <1>4. CASE TakesKeywords(shape) \/ DOMAIN call.named = {}
    <2>1. Given(shape, g) = g
      BY <1>3, <1>4 DEF Given
    <2> QED
      BY <1>1, <1>2, <1>3, <1>4, <2>1 DEF binding
  <1>5. CASE ~(TakesKeywords(shape) \/ DOMAIN call.named = {})
    <2>1. Given(shape, g).positional = Append(g.positional, HashClass) /\ Given(shape, g).keywords = << >>
      BY <1>3, <1>5 DEF Given
    <2>2. Fits(binding, Append(g.positional, HashClass))
      BY <1>1, <1>2, <1>5, AppendFits
    <2>3. DOMAIN << >> = {}
      OBVIOUS
    <2> QED
      BY <1>2, <1>3, <1>5, <2>1, <2>2, <2>3 DEF binding
  <1> QED
    BY <1>4, <1>5

\* And it may hand over any of it.
LEMMA AllGiven ==
    ASSUME NEW call \in CallSet, Plain(call), NEW signature, NEW shape, HasShape(signature, shape),
           NEW v, NEW w, Fits(Binding(signature, Arguments(call)), v), Named(call, w)
    PROVE  \E g \in Concrete(call) : Given(shape, g).positional = v /\ g.keywords = w
  <1> DEFINE binding == Binding(signature, Arguments(call))
             e == Explicit(call)
  <1>1. e \in Seq(Shown) /\ binding = IF TakesKeywords(shape) \/ DOMAIN call.named = {} THEN e ELSE Append(e, KeywordHash)
    BY BindingIs
  <1>2. Fits(binding, v)
    OBVIOUS
  <1> HIDE DEF binding
  <1>3. DOMAIN w = DOMAIN call.named
    BY DEF Named
  <1>4. CASE TakesKeywords(shape) \/ DOMAIN call.named = {}
    <2> DEFINE g == [positional |-> v, keywords |-> w]
    <2>1. g \in Concrete(call)
      BY <1>1, <1>2, <1>4, ConcreteIs
    <2>2. Given(shape, g) = g
      BY <1>3, <1>4 DEF Given
    <2> QED
      BY <2>1, <2>2
  <1>5. CASE ~(TakesKeywords(shape) \/ DOMAIN call.named = {})
    <2>1. PICK u : Fits(e, u) /\ v = Append(u, HashClass)
      BY <1>1, <1>2, <1>5, AppendFits
    <2> DEFINE g == [positional |-> u, keywords |-> w]
    <2>2. g \in Concrete(call)
      BY <2>1, ConcreteIs
    <2>3. Given(shape, g).positional = v
      BY <1>3, <1>5, <2>1 DEF Given
    <2> QED
      BY <2>2, <2>3
  <1> QED
    BY <1>4, <1>5

LEMMA SomeValues ==
    ASSUME NEW arguments \in Seq(Shown)
    PROVE  /\ \E v : Fits(arguments, v)
           /\ \A i \in 1 .. Len(arguments) : \A class \in arguments[i].type :
                \E v : Fits(arguments, v) /\ v[i] = class
  <1> DEFINE n == Len(arguments)
             AnyOf(i) == CHOOSE class : class \in arguments[i].type
             With(i, class) == [j \in 1 .. n |-> IF j = i THEN class ELSE AnyOf(j)]
  <1>1. n \in Nat /\ \A i \in 1 .. n : arguments[i] \in Shown
    OBVIOUS
  <1>2. \A i \in 1 .. n : arguments[i].type \subseteq Universe /\ arguments[i].type # {}
    BY <1>1 DEF Shown, ValueTypes
  <1>3. \A i \in 1 .. n : AnyOf(i) \in arguments[i].type
    BY <1>2
  <1> HIDE DEF AnyOf
  <1>4. ASSUME NEW i, NEW class, i \in 1 .. n => class \in arguments[i].type
        PROVE  Fits(arguments, With(i, class)) /\ (i \in 1 .. n => With(i, class)[i] = class)
    <2> DEFINE v == With(i, class)
    <2>1. \A j \in 1 .. n : v[j] \in arguments[j].type
      BY <1>3, <1>4
    <2>2. v \in [1 .. n -> Universe]
      BY <1>2, <2>1
    <2>3. v \in Seq(Universe) /\ Len(v) = n
      BY <1>1, <2>2
    <2>4. i \in 1 .. n => v[i] = class
      OBVIOUS
    <2> HIDE DEF v
    <2>5. Fits(arguments, v)
      BY <2>1, <2>3 DEF Fits
    <2> QED
      BY <2>4, <2>5 DEF v
  <1>5. \E v : Fits(arguments, v)
    <2>1. 0 \notin 1 .. n
      BY <1>1
    <2> QED
      BY <1>4, <2>1
  <1> QED
    BY <1>4, <1>5

LEMMA SomeKeywords ==
    ASSUME NEW call \in CallSet
    PROVE  /\ \E w : Named(call, w)
           /\ \A k \in DOMAIN call.named : \A class \in call.named[k] : \E w : Named(call, w) /\ w[k] = class
  <1> DEFINE given == DOMAIN call.named
             AnyOf(k) == CHOOSE class : class \in call.named[k]
             With(k, class) == [j \in given |-> IF j = k THEN class ELSE AnyOf(j)]
  <1>1. \A k \in given : call.named[k] \subseteq Universe /\ call.named[k] # {}
    BY NamedTypes DEF ValueTypes
  <1>2. \A k \in given : AnyOf(k) \in call.named[k]
    BY <1>1
  <1> HIDE DEF AnyOf
  <1>3. Named(call, [j \in given |-> AnyOf(j)])
    BY <1>1, <1>2 DEF Named
  <1>4. ASSUME NEW k \in given, NEW class \in call.named[k]
        PROVE  Named(call, With(k, class)) /\ With(k, class)[k] = class
    BY <1>1, <1>2 DEF Named
  <1> QED
    BY <1>3, <1>4

\* Trailing parameters come with no optional ones.
OrderKept(shape) == shape.optional = 0 \/ shape.post = 0

LEMMA ShapeFacts ==
    ASSUME NEW shape \in ShapeSet
    PROVE  /\ shape.required \in Nat /\ shape.optional \in Nat /\ shape.post \in Nat /\ shape.rest \in BOOLEAN
           /\ shape.keyrest \in BOOLEAN /\ shape.keys \in [DOMAIN shape.keys -> BOOLEAN]
           /\ Least(shape) \in Nat /\ Fixed(shape) \in Nat /\ Size(shape) \in Nat
BY DEF ShapeSet, Keyed, Least, Fixed, Size

\* A signature finds the parameter Ruby binds an argument to.
LEMMA SlotIsParameter ==
    ASSUME NEW shape \in ShapeSet, NEW signature, HasShape(signature, shape), OrderKept(shape),
           NEW n \in Nat, Least(shape) <= n, shape.rest \/ n <= Fixed(shape), NEW i \in 1 .. n
    PROVE  /\ SlotOf(signature, n, i) = ParameterOf(shape, n, i)
           /\ SlotOf(signature, n, i) \in DOMAIN signature.params
  <1> DEFINE r == shape.required
             o == shape.optional
             p == shape.post
             rest == signature.rest
             size == Len(signature.params)
             posts == Max({0, size - rest})
  <1>1. r \in Nat /\ o \in Nat /\ p \in Nat /\ (o = 0 \/ p = 0) /\ i \in Nat /\ 1 <= i /\ i <= n
    BY ShapeFacts DEF OrderKept
  <1>2. r + p <= n /\ (shape.rest \/ n <= r + o + p)
    BY DEF Least, Fixed
  <1>3. size = Size(shape) /\ DOMAIN signature.params = 1 .. size
    BY DEF HasShape
  <1>4. CASE shape.rest
    <2>1. rest = r + o + 1 /\ size = r + o + p + 1 /\ Size(shape) = r + o + p + 1
      BY <1>3, <1>4 DEF HasShape, Size, Fixed
    <2>2. posts = p
      <3>1. size - rest = p
        BY <1>1, <2>1
      <3> QED
        BY <1>1, <3>1, AtLeastZero
    <2>3. SlotOf(signature, n, i) = IF i < rest THEN i
                                    ELSE IF n >= rest - 1 + p /\ i > n - p THEN rest + i - (n - p) ELSE rest
      <3>1. SlotOf(signature, n, i) =
                IF rest = 0 \/ i < rest THEN i
                ELSE IF n >= rest - 1 + posts /\ i > n - posts THEN rest + i - (n - posts) ELSE rest
        BY Zenon DEF SlotOf
      <3> HIDE DEF rest, size, posts, r, o, p
      <3>2. rest # 0
        BY <1>1, <2>1
      <3> QED
        BY <2>2, <3>1, <3>2, Zenon
    <2>4. ParameterOf(shape, n, i) = IF i <= r THEN i
                                     ELSE IF i > n - p THEN Size(shape) - (n - i)
                                     ELSE IF i <= r + o THEN i ELSE r + o + 1
      BY Zenon DEF ParameterOf
    <2> HIDE DEF rest, size, posts, r, o, p
    <2>5. CASE i <= r
      BY <1>1, <1>3, <2>1, <2>3, <2>4, <2>5
    <2>6. CASE i > r /\ i > n - p
      <3>1. CASE o = 0
        <4>1. n >= rest - 1 + p /\ i >= rest
          BY <1>1, <1>2, <2>1, <2>6, <3>1
        <4>2. SlotOf(signature, n, i) = rest + i - (n - p)
          BY <1>1, <2>1, <2>3, <2>6, <4>1
        <4>3. ParameterOf(shape, n, i) = r + o + p + 1 - (n - i)
          BY <1>1, <2>1, <2>4, <2>6
        <4> QED
          BY <1>1, <1>3, <2>1, <2>6, <4>1, <4>2, <4>3
      <3>2. CASE p = 0
        BY <1>1, <2>6, <3>2
      <3> QED
        BY <1>1, <3>1, <3>2
    <2>7. CASE i > r /\ ~(i > n - p)
      <3>1. SlotOf(signature, n, i) = IF i < rest THEN i ELSE rest
        BY <2>3, <2>7
      <3>2. ParameterOf(shape, n, i) = IF i <= r + o THEN i ELSE r + o + 1
        BY <1>1, <2>4, <2>7
      <3> QED
        BY <1>1, <1>3, <2>1, <3>1, <3>2
    <2> QED
      BY <1>1, <2>5, <2>6, <2>7
  <1>5. CASE ~shape.rest
    <2>1. rest = 0 /\ size = r + o + p /\ Size(shape) = r + o + p
      BY <1>3, <1>5, ShapeFacts DEF HasShape, Size, Fixed
    <2>2. SlotOf(signature, n, i) = i
      BY <2>1 DEF SlotOf
    <2>3. ParameterOf(shape, n, i) = IF i <= r THEN i
                                     ELSE IF i > n - p THEN r + o + p - (n - i)
                                     ELSE IF i <= r + o THEN i ELSE r + o + 1
      BY <1>1, <2>1 DEF ParameterOf
    <2> HIDE DEF rest, size, posts, r, o, p
    <2> QED
      BY <1>1, <1>2, <1>3, <1>5, <2>1, <2>2, <2>3
  <1> QED
    BY <1>4, <1>5

-----------------------------------------------------------------------------
(* Which calls a contract lets in. *)

\* Every parameter has a type, and what Ruby requires is what the signature counts.
Complete(contract) ==
    /\ Len(contract.types) = Size(contract.shape) /\ DOMAIN contract.keys = DOMAIN contract.shape.keys
    /\ contract.style = "sig" => contract.shape.post = 0
    /\ OrderKept(contract.shape)

LEMMA ContractFacts ==
    ASSUME NEW contract \in ContractSet
    PROVE  /\ contract.shape \in ShapeSet /\ contract.types \in Seq(ValueTypes)
           /\ contract.keys \in [DOMAIN contract.keys -> ValueTypes] /\ contract.style \in {"rbs", "sig"}
BY DEF ContractSet, Keyed

LEMMA ContractShape ==
    ASSUME NEW contract \in ContractSet, Complete(contract)
    PROVE  /\ HasShape(Signature(contract), contract.shape)
           /\ Signature(contract).params = contract.types
           /\ \A k \in DOMAIN contract.keys : Signature(contract).keys[k] = Key(contract.keys[k], contract.shape.keys[k])
  <1> DEFINE shape == contract.shape
             types == contract.types
             s == Signature(contract)
  <1>1. /\ shape.required \in Nat /\ shape.optional \in Nat /\ shape.post \in Nat /\ Size(shape) \in Nat
        /\ types \in Seq(Types) /\ Len(types) = Size(shape) /\ DOMAIN contract.keys = DOMAIN shape.keys
    BY ContractFacts, ShapeFacts DEF Complete, Types
  <1>2. CASE contract.style = "rbs"
    <2>1. s = RbsSignature(contract)
      BY <1>2 DEF Signature
    <2>2. /\ s.params = types /\ s.required = Least(shape) /\ s.keyrest = shape.keyrest
          /\ s.rest = IF shape.rest THEN shape.required + shape.optional + 1 ELSE 0
          /\ s.keys = [k \in DOMAIN shape.keys |-> Key(contract.keys[k], shape.keys[k])]
      BY <2>1 DEF RbsSignature
    <2> HIDE DEF s
    <2>3. HasShape(s, shape)
      BY <1>1, <2>2 DEF HasShape, Key
    <2> QED
      BY <1>1, <2>2, <2>3 DEF s
  <1>3. CASE contract.style = "sig"
    <2>1. s = ApplyParameterShape(contract) /\ shape.post = 0
      BY <1>3 DEF Signature, Complete
    <2>2. Min({shape.required, Len(types)}) = shape.required
      <3>1. shape.required <= Len(types) /\ Len(types) \in Nat
        BY <1>1 DEF Size, Fixed
      <3> QED
        BY <1>1, <3>1 DEF Min
    <2>3. Least(shape) = shape.required
      BY <1>1, <2>1 DEF Least
    <2>4. /\ s.params = types /\ s.required = Least(shape) /\ s.keyrest = shape.keyrest
          /\ s.rest = IF shape.rest THEN shape.required + shape.optional + 1 ELSE 0
          /\ s.keys = [k \in DOMAIN contract.keys |-> Key(contract.keys[k], shape.keys[k])]
      BY <2>1, <2>2, <2>3 DEF ApplyParameterShape
    <2> HIDE DEF s
    <2>5. HasShape(s, shape)
      BY <1>1, <2>4 DEF HasShape, Key
    <2> QED
      BY <1>1, <2>4, <2>5 DEF s
  <1> QED
    BY <1>2, <1>3, ContractFacts

LEMMA AssignableHolds ==
    ASSUME NEW actual \in ValueTypes, NEW expected
    PROVE  IsAssignable(actual, expected) <=> \A class \in actual : Holds(expected, class)
BY DEF IsAssignable, Holds, IsUntyped, ValueTypes, Untyped

\* Where the length is right, an argument is checked against the parameter Ruby binds it to.
LEMMA PositionsAgree ==
    ASSUME NEW shape \in ShapeSet, NEW signature, HasShape(signature, shape), OrderKept(shape),
           NEW n \in Nat, Least(shape) <= n, shape.rest \/ n <= Fixed(shape), NEW i \in 1 .. n
    PROVE  /\ HasPositionalType(signature, n, i)
           /\ ParameterOf(shape, n, i) \in DOMAIN signature.params
           /\ PositionalType(signature, n, i) = signature.params[ParameterOf(shape, n, i)]
BY SlotIsParameter DEF HasPositionalType, PositionalType

\* The length and the keywords are right for Ruby.
Shaped(shape, call, n) ==
    /\ Least(shape) <= n /\ (shape.rest \/ n <= Fixed(shape))
    /\ TakesKeywords(shape) =>
          /\ \A k \in DOMAIN shape.keys : shape.keys[k] => k \in DOMAIN call.named
          /\ shape.keyrest \/ DOMAIN call.named \subseteq DOMAIN shape.keys

LEMMA AcceptsShaped ==
    ASSUME NEW call \in CallSet, Plain(call), NEW signature, NEW shape \in ShapeSet, HasShape(signature, shape),
           NEW g \in Concrete(call)
    PROVE  Accepts(shape, g) <=> Shaped(shape, call, Len(Binding(signature, Arguments(call))))
  <1> DEFINE binding == Binding(signature, Arguments(call))
             n == Len(binding)
             given == Given(shape, g)
  <1>1. /\ Fits(binding, given.positional) /\ Named(call, g.keywords)
        /\ TakesKeywords(shape) => given.keywords = g.keywords
        /\ ~TakesKeywords(shape) => DOMAIN given.keywords = {}
    BY GivenFits
  <1>2. Len(given.positional) = n
    BY <1>1 DEF Fits
  <1>3. DOMAIN g.keywords = DOMAIN call.named
    BY GivenFits
  <1>4. ~TakesKeywords(shape) => DOMAIN shape.keys = {}
    BY DEF TakesKeywords
  <1>5. Accepts(shape, g) <=> /\ Least(shape) <= n /\ (shape.rest \/ n <= Fixed(shape))
                              /\ \A k \in DOMAIN shape.keys : shape.keys[k] => k \in DOMAIN given.keywords
                              /\ shape.keyrest \/ DOMAIN given.keywords \subseteq DOMAIN shape.keys
    BY <1>2 DEF Accepts
  <1> HIDE DEF n, given
  <1>6. CASE TakesKeywords(shape)
    BY <1>1, <1>3, <1>5, <1>6 DEF Shaped, n, binding
  <1>7. CASE ~TakesKeywords(shape)
    BY <1>1, <1>4, <1>5, <1>7 DEF Shaped, n, binding
  <1> QED
    BY <1>6, <1>7

LEMMA ShapeAccepted ==
    ASSUME NEW call \in CallSet, Plain(call), NEW signature, NEW shape \in ShapeSet, HasShape(signature, shape)
    PROVE  SignatureShapeAcceptsArguments(signature, Arguments(call))
              <=> Shaped(shape, call, Len(Binding(signature, Arguments(call))))
  <1> DEFINE a == Arguments(call)
             n == Len(Binding(signature, a))
  <1>1. ~Permissive(a) /\ a.keywords = call.named /\ a.keywordSplat = FALSE
    BY ArgumentsAre
  <1>2. n \in Nat
    <2>1. Binding(signature, a) \in Seq(Shown)
      BY BindingIs
    <2> QED
      BY <2>1
  <1>3. /\ signature.required = Least(shape) /\ Len(signature.params) = Size(shape)
        /\ signature.rest # 0 <=> shape.rest
        /\ signature.keyrest = shape.keyrest
        /\ DOMAIN signature.keys = DOMAIN shape.keys
        /\ \A k \in DOMAIN shape.keys : signature.keys[k].required = shape.keys[k]
    BY ShapeFacts DEF HasShape
  <1>4. ~shape.rest => Size(shape) = Fixed(shape)
    BY ShapeFacts DEF Size
  <1>5. KeywordMode(signature) <=> TakesKeywords(shape)
    BY SameMode
  <1>6. SignatureShapeAcceptsArguments(signature, a) <=>
           /\ signature.required <= n
           /\ signature.rest # 0 \/ n <= Len(signature.params)
           /\ KeywordMode(signature) =>
                /\ \A k \in DOMAIN signature.keys : signature.keys[k].required => k \in DOMAIN call.named
                /\ signature.keyrest \/ DOMAIN call.named \subseteq DOMAIN signature.keys
    BY <1>1 DEF SignatureShapeAcceptsArguments
  <1> HIDE DEF n, a
  <1>7. SignatureShapeAcceptsArguments(signature, a) <=> Shaped(shape, call, n)
    BY <1>3, <1>4, <1>5, <1>6 DEF Shaped
  <1> QED
    BY <1>7 DEF n, a

\* The arguments that have the type declared for them.
Positioned(signature, arguments) ==
    \A i \in DOMAIN Binding(signature, arguments) :
        /\ HasPositionalType(signature, Len(Binding(signature, arguments)), i)
        /\ IsAssignable(Binding(signature, arguments)[i].type,
                        PositionalType(signature, Len(Binding(signature, arguments)), i))

LEMMA AcceptedIs ==
    ASSUME NEW call \in CallSet, Plain(call), NEW signature
    PROVE  /\ SignatureAcceptsArguments(signature, Arguments(call)) <=>
                /\ SignatureShapeAcceptsArguments(signature, Arguments(call))
                /\ Positioned(signature, Arguments(call))
                /\ KeywordMode(signature) => \A k \in DOMAIN call.named :
                      signature.keyrest \/ /\ k \in DOMAIN signature.keys
                                           /\ IsAssignable(call.named[k], signature.keys[k].type)
           /\ KeywordError(signature, Arguments(call)) <=>
                /\ KeywordMode(signature)
                /\ \E k \in DOMAIN call.named \intersect DOMAIN signature.keys :
                      ~IsAssignable(call.named[k], signature.keys[k].type)
  <1> DEFINE a == Arguments(call)
  <1>1. ~Permissive(a) /\ a.keywords = call.named /\ a.keywordSplat = FALSE /\ a.forwards = FALSE /\ a.unknownKeys = FALSE
    BY ArgumentsAre
  <1> HIDE DEF a
  <1>2. SignatureAcceptsArguments(signature, a) <=>
                /\ SignatureShapeAcceptsArguments(signature, a)
                /\ Positioned(signature, a)
                /\ KeywordMode(signature) => \A k \in DOMAIN call.named :
                      signature.keyrest \/ /\ k \in DOMAIN signature.keys
                                           /\ IsAssignable(call.named[k], signature.keys[k].type)
    BY <1>1 DEF SignatureAcceptsArguments, Positioned
  <1>3. KeywordError(signature, a) <=>
                /\ KeywordMode(signature)
                /\ \E k \in DOMAIN call.named \intersect DOMAIN signature.keys :
                      ~IsAssignable(call.named[k], signature.keys[k].type)
    BY <1>1 DEF KeywordError
  <1> QED
    BY <1>2, <1>3 DEF a

LEMMA ContractFits ==
    ASSUME NEW call \in CallSet, Plain(call), NEW contract \in ContractSet, Complete(contract),
           SignatureAcceptsArguments(Signature(contract), Arguments(call)),
           ~KeywordError(Signature(contract), Arguments(call)), NEW g \in Concrete(call)
    PROVE  FitsContract(contract, g)
  <1> DEFINE s == Signature(contract)
             shape == contract.shape
             binding == Binding(s, Arguments(call))
             n == Len(binding)
             given == Given(shape, g)
  <1>1. shape \in ShapeSet /\ HasShape(s, shape) /\ s.params = contract.types /\ OrderKept(shape)
    BY ContractFacts, ContractShape DEF Complete
  <1>2. DOMAIN s.keys = DOMAIN contract.keys /\ \A k \in DOMAIN contract.keys : s.keys[k].type = contract.keys[k]
    <2>1. DOMAIN s.keys = DOMAIN contract.shape.keys
      BY ContractShape DEF HasShape
    <2>2. DOMAIN contract.keys = DOMAIN contract.shape.keys
      BY DEF Complete
    <2>3. \A k \in DOMAIN contract.keys : s.keys[k] = Key(contract.keys[k], contract.shape.keys[k])
      BY ContractShape
    <2>4. \A type, required : Key(type, required).type = type
      BY DEF Key
    <2> HIDE DEF s
    <2> QED
      BY <2>1, <2>2, <2>3, <2>4
  <1>3. binding \in Seq(Shown) /\ n \in Nat /\ DOMAIN binding = 1 .. n
    <2>1. binding \in Seq(Shown)
      BY <1>1, BindingIs
    <2> QED
      BY <2>1
  <1> HIDE DEF s, shape, binding, n, given
  <1>4. /\ Fits(binding, given.positional) /\ Named(call, g.keywords)
        /\ TakesKeywords(shape) => given.keywords = g.keywords
        /\ ~TakesKeywords(shape) => DOMAIN given.keywords = {}
    BY <1>1, GivenFits DEF binding, given
  <1>5. Shaped(shape, call, n) /\ Accepts(shape, g)
    BY <1>1, ShapeAccepted, AcceptsShaped, AcceptedIs DEF s, n, binding
  <1>6. Least(shape) <= n /\ (shape.rest \/ n <= Fixed(shape))
    BY <1>5 DEF Shaped
  <1>7. Len(given.positional) = n /\ DOMAIN given.positional = 1 .. n /\ \A i \in 1 .. n : given.positional[i] \in binding[i].type
    BY <1>4 DEF Fits, n
  <1>8. \A i \in 1 .. n : IsAssignable(binding[i].type, PositionalType(s, n, i))
    <2>1. Positioned(s, Arguments(call))
      BY AcceptedIs DEF s
    <2> QED
      BY <1>3, <2>1 DEF Positioned, binding, n
  <1>9. ASSUME NEW i \in 1 .. n, ParameterOf(shape, n, i) \in DOMAIN contract.types
        PROVE  Holds(contract.types[ParameterOf(shape, n, i)], given.positional[i])
    <2>1. PositionalType(s, n, i) = contract.types[ParameterOf(shape, n, i)]
      BY <1>1, <1>3, <1>6, PositionsAgree
    <2>2. binding[i].type \in ValueTypes
      <3>1. binding[i] \in Shown
        BY <1>3
      <3> QED
        BY <3>1 DEF Shown
    <2> QED
      BY <1>7, <1>8, <2>1, <2>2, AssignableHolds
  <1>10. \A p \in DOMAIN contract.types : \A class \in BoundTo(shape, g, p) : Holds(contract.types[p], class)
    BY <1>7, <1>9 DEF BoundTo, given
  <1>11. ASSUME NEW k \in DOMAIN given.keywords \intersect DOMAIN contract.keys
         PROVE  Holds(contract.keys[k], g.keywords[k])
    <2>1. TakesKeywords(shape) /\ given.keywords = g.keywords /\ KeywordMode(s)
      BY <1>1, <1>4, SameMode
    <2>2. k \in DOMAIN call.named /\ g.keywords[k] \in call.named[k] /\ call.named[k] \in ValueTypes
      BY <1>4, <2>1, NamedTypes DEF Named
    <2>3. IsAssignable(call.named[k], contract.keys[k])
      <3>1. ~\E j \in DOMAIN call.named \intersect DOMAIN s.keys : ~IsAssignable(call.named[j], s.keys[j].type)
        BY <2>1, AcceptedIs DEF s
      <3> QED
        BY <1>2, <2>2, <3>1
    <2> QED
      BY <2>2, <2>3, AssignableHolds
  <1> QED
    BY <1>5, <1>10, <1>11 DEF FitsContract, shape, given

LEMMA ContractRefuses ==
    ASSUME NEW call \in CallSet, Plain(call), NEW contract \in ContractSet, Complete(contract),
           \/ ~SignatureAcceptsArguments(Signature(contract), Arguments(call))
           \/ KeywordError(Signature(contract), Arguments(call))
    PROVE  \E g \in Concrete(call) : ~FitsContract(contract, g)
  <1> DEFINE s == Signature(contract)
             shape == contract.shape
             binding == Binding(s, Arguments(call))
             n == Len(binding)
  <1>1. shape \in ShapeSet /\ HasShape(s, shape) /\ s.params = contract.types /\ OrderKept(shape)
    BY ContractFacts, ContractShape DEF Complete
  <1>2. DOMAIN s.keys = DOMAIN contract.keys /\ \A k \in DOMAIN contract.keys : s.keys[k].type = contract.keys[k]
    <2>1. DOMAIN s.keys = DOMAIN contract.shape.keys
      BY ContractShape DEF HasShape
    <2>2. DOMAIN contract.keys = DOMAIN contract.shape.keys
      BY DEF Complete
    <2>3. \A k \in DOMAIN contract.keys : s.keys[k] = Key(contract.keys[k], contract.shape.keys[k])
      BY ContractShape
    <2>4. \A type, required : Key(type, required).type = type
      BY DEF Key
    <2> HIDE DEF s
    <2> QED
      BY <2>1, <2>2, <2>3, <2>4
  <1>3. binding \in Seq(Shown) /\ n \in Nat /\ DOMAIN binding = 1 .. n
    <2>1. binding \in Seq(Shown)
      BY <1>1, BindingIs
    <2> QED
      BY <2>1
  <1>4. PICK v, w : Fits(binding, v) /\ Named(call, w)
    BY <1>3, SomeValues, SomeKeywords
  <1> HIDE DEF s, shape, binding, n
  <1>5. ASSUME NEW v1, NEW w1, Fits(binding, v1), Named(call, w1)
        PROVE  \E g \in Concrete(call) : Given(shape, g).positional = v1 /\ g.keywords = w1
    BY <1>1, <1>5, AllGiven DEF binding
  <1>6. CASE ~Shaped(shape, call, n)
    <2>1. PICK g \in Concrete(call) : TRUE
      BY <1>4, <1>5
    <2>2. ~Accepts(shape, g)
      BY <1>1, <1>6, AcceptsShaped DEF n, binding
    <2> QED
      BY <2>2 DEF FitsContract, shape
  <1>7. CASE Shaped(shape, call, n) /\ ~Positioned(s, Arguments(call))
    <2>1. Least(shape) <= n /\ (shape.rest \/ n <= Fixed(shape))
      BY <1>7 DEF Shaped
    <2>2. PICK i \in 1 .. n : ~(HasPositionalType(s, n, i) /\ IsAssignable(binding[i].type, PositionalType(s, n, i)))
      BY <1>3, <1>7 DEF Positioned, binding, n
    <2> DEFINE p == ParameterOf(shape, n, i)
    <2>3. p \in DOMAIN contract.types /\ ~IsAssignable(binding[i].type, contract.types[p])
      BY <1>1, <1>3, <2>1, <2>2, PositionsAgree
    <2>4. PICK class \in binding[i].type : ~Holds(contract.types[p], class)
      <3>1. binding[i].type \in ValueTypes
        <4>1. binding[i] \in Shown
          BY <1>3
        <4> QED
          BY <4>1 DEF Shown
      <3> QED
        BY <2>3, <3>1, AssignableHolds
    <2>5. PICK v1 : Fits(binding, v1) /\ v1[i] = class
      <3>1. i \in 1 .. Len(binding)
        BY DEF n
      <3> QED
        BY <1>3, <3>1, SomeValues
    <2>6. PICK g \in Concrete(call) : Given(shape, g).positional = v1 /\ g.keywords = w
      BY <1>4, <1>5, <2>5
    <2>7. i \in DOMAIN v1 /\ Len(v1) = n
      BY <2>5 DEF Fits, n
    <2>8. class \in BoundTo(shape, g, p)
      BY <2>5, <2>6, <2>7 DEF BoundTo
    <2> QED
      BY <2>3, <2>4, <2>8 DEF FitsContract, shape
  <1>8. CASE Shaped(shape, call, n) /\ Positioned(s, Arguments(call))
    <2>1. KeywordMode(s) /\ \E k \in DOMAIN call.named \intersect DOMAIN s.keys : ~IsAssignable(call.named[k], s.keys[k].type)
      <3>1. SignatureShapeAcceptsArguments(s, Arguments(call))
        BY <1>1, <1>8, ShapeAccepted DEF n, binding
      <3>2. KeywordMode(s) => s.keyrest \/ DOMAIN call.named \subseteq DOMAIN s.keys
        BY <1>1, <1>8, SameMode DEF Shaped, HasShape
      <3>3. CASE KeywordError(s, Arguments(call))
        BY <3>3, AcceptedIs
      <3>4. CASE ~SignatureAcceptsArguments(s, Arguments(call))
        BY <1>8, <3>1, <3>2, <3>4, AcceptedIs
      <3> QED
        BY <3>3, <3>4 DEF s
    <2>2. PICK k \in DOMAIN call.named \intersect DOMAIN contract.keys : ~IsAssignable(call.named[k], contract.keys[k])
      BY <1>2, <2>1
    <2>3. PICK class \in call.named[k] : ~Holds(contract.keys[k], class)
      BY <2>2, NamedTypes, AssignableHolds
    <2>4. PICK w1 : Named(call, w1) /\ w1[k] = class
      BY SomeKeywords
    <2>5. PICK g \in Concrete(call) : Given(shape, g).positional = v /\ g.keywords = w1
      BY <1>4, <1>5, <2>4
    <2>6. Given(shape, g).keywords = g.keywords /\ DOMAIN g.keywords = DOMAIN call.named
      <3>1. TakesKeywords(shape)
        BY <1>1, <2>1, SameMode
      <3> QED
        BY <1>1, <3>1, GivenFits
    <2> QED
      BY <2>2, <2>3, <2>4, <2>5, <2>6 DEF FitsContract, shape
  <1> QED
    BY <1>6, <1>7, <1>8

-----------------------------------------------------------------------------
(* The overload that is chosen. *)

IsSignature(s) ==
    s = [params |-> s.params, required |-> s.required, rest |-> s.rest,
         keys |-> s.keys, keyrest |-> s.keyrest, block |-> s.block]

LEMMA SignatureIs == ASSUME NEW contract \in ContractSet PROVE IsSignature(Signature(contract))
BY DEF IsSignature, Signature, RbsSignature, ApplyParameterShape

LEMMA SelectsAccepting ==
    ASSUME NEW overloads, NEW arguments, DOMAIN overloads \subseteq Nat \ {0},
           \A i \in DOMAIN overloads : Len(overloads[i].params) \in Nat /\ Len(Binding(overloads[i], arguments)) \in Nat
    PROVE  LET chosen == SelectOverload(overloads, arguments)
           IN  /\ chosen = 0 => \A i \in DOMAIN overloads : ~SignatureAcceptsArguments(overloads[i], arguments)
               /\ chosen # 0 => chosen \in DOMAIN overloads /\ SignatureAcceptsArguments(overloads[chosen], arguments)
  <1> DEFINE accepting == {i \in DOMAIN overloads : SignatureAcceptsArguments(overloads[i], arguments)}
             Block(i) == IF arguments.block = overloads[i].block THEN 0 ELSE 1
             Spare(i) == Max({0, Len(overloads[i].params) - Len(Binding(overloads[i], arguments))})
             Rank(i) == << Block(i), Spare(i), i >>
             Before(a, b) == \/ a[1] < b[1]
                             \/ a[1] = b[1] /\ a[2] < b[2]
                             \/ a[1] = b[1] /\ a[2] = b[2] /\ a[3] <= b[3]
             First(i) == \A j \in accepting : Before(Rank(i), Rank(j))
  <1>1. SelectOverload(overloads, arguments) = IF accepting = {} THEN 0 ELSE CHOOSE i \in accepting : First(i)
    BY DEF SelectOverload
  <1>2. \A i \in accepting : i \in Nat \ {0} /\ Block(i) \in Nat /\ Spare(i) \in Nat
    <2> SUFFICES ASSUME NEW i \in accepting PROVE Spare(i) \in Nat
      OBVIOUS
    <2>1. Len(overloads[i].params) \in Nat /\ Len(Binding(overloads[i], arguments)) \in Nat
      OBVIOUS
    <2>2. Len(overloads[i].params) - Len(Binding(overloads[i], arguments)) \in Int
      BY <2>1
    <2> QED
      BY <2>2, AtLeastZero
  <1>3. ASSUME accepting # {} PROVE \E i \in accepting : First(i)
    <2> HIDE DEF accepting, Block, Spare
    <2> DEFINE blocks == {Block(i) : i \in accepting}
    <2>1. PICK b \in blocks : \A x \in blocks : b <= x
      <3>1. blocks \subseteq Nat /\ blocks # {}
        BY <1>2, <1>3
      <3> HIDE DEF blocks
      <3> QED
        BY <3>1, LeastNumber
    <2> DEFINE spares == {Spare(i) : i \in {j \in accepting : Block(j) = b}}
    <2>2. PICK s \in spares : \A x \in spares : s <= x
      <3>1. spares \subseteq Nat /\ spares # {}
        BY <1>2, <2>1
      <3> HIDE DEF spares
      <3> QED
        BY <3>1, LeastNumber
    <2> DEFINE last == {i \in accepting : Block(i) = b /\ Spare(i) = s}
    <2>3. PICK i \in last : \A x \in last : i <= x
      <3>1. last \subseteq Nat /\ last # {}
        BY <1>2, <2>2
      <3> HIDE DEF last
      <3> QED
        BY <3>1, LeastNumber
    <2>4. i \in accepting /\ Block(i) = b /\ Spare(i) = s
      BY <2>3
    <2>5. ASSUME NEW j \in accepting PROVE Before(Rank(i), Rank(j))
      <3>1. b <= Block(j) /\ b \in Nat /\ Block(j) \in Nat
        BY <1>2, <2>1, <2>4
      <3>2. Block(j) = b => s <= Spare(j) /\ s \in Nat /\ Spare(j) \in Nat
        BY <1>2, <2>2, <2>4
      <3>3. Block(j) = b /\ Spare(j) = s => i <= j
        BY <2>3
      <3>4. \/ Block(i) < Block(j)
            \/ Block(i) = Block(j) /\ Spare(i) < Spare(j)
            \/ Block(i) = Block(j) /\ Spare(i) = Spare(j) /\ i <= j
        BY <2>4, <3>1, <3>2, <3>3
      <3> QED
        BY <3>4
    <2> QED
      BY <2>4, <2>5
  <1> HIDE DEF First
  <1>4. accepting # {} => SelectOverload(overloads, arguments) \in accepting
    BY <1>1, <1>3
  <1>5. accepting = {} => SelectOverload(overloads, arguments) = 0
    BY <1>1
  <1>6. SelectOverload(overloads, arguments) = 0 => accepting = {}
    BY <1>2, <1>4
  <1>7. SelectOverload(overloads, arguments) # 0 => SelectOverload(overloads, arguments) \in accepting
    BY <1>4, <1>5
  <1> QED
    BY <1>6, <1>7

-----------------------------------------------------------------------------
(* The state of the method. *)

IsState(m) ==
    m = [params |-> m.params, required |-> m.required, rest |-> m.rest, keys |-> m.keys,
         keyrest |-> m.keyrest, block |-> m.block, aliases |-> m.aliases, explicit |-> m.explicit,
         overloads |-> m.overloads, inferable |-> m.inferable, inferableKeys |-> m.inferableKeys]

\* What no call changes.
SameFrame(m, n) ==
    /\ n.required = m.required /\ n.rest = m.rest /\ n.keyrest = m.keyrest /\ n.block = m.block
    /\ n.explicit = m.explicit /\ n.overloads = m.overloads
    /\ n.inferable = m.inferable /\ n.inferableKeys = m.inferableKeys
    /\ DOMAIN n.params = DOMAIN m.params /\ DOMAIN n.aliases = DOMAIN m.aliases /\ DOMAIN n.keys = DOMAIN m.keys

\* The arguments an observation is made of.
Observed(m, arguments) ==
    IF arguments.forwards THEN SubSeq(Binding(m, arguments), 1, arguments.explicit) ELSE Binding(m, arguments)

LEMMA ObserveIs ==
    ASSUME NEW m, NEW arguments, NEW own, IsState(m)
    PROVE  LET n == ObserveCall(m, arguments, own)
           IN  /\ IsState(n) /\ SameFrame(m, n)
               /\ ~Observes(m, arguments, own) => n = m
               /\ Observes(m, arguments, own) =>
                    /\ n.params = ObserveArguments(m, Observed(m, arguments))
                    /\ n.keys = ObserveKeywords(m, arguments.keywords)
                    /\ n.aliases = IF Len(arguments.all) = Len(Binding(m, arguments))
                                   THEN ObserveParameterAliases(m, Binding(m, arguments)) ELSE m.aliases
  <1> DEFINE n == ObserveCall(m, arguments, own)
             params == ObserveArguments(m, Observed(m, arguments))
             keys == ObserveKeywords(m, arguments.keywords)
             aliases == IF Len(arguments.all) = Len(Binding(m, arguments))
                        THEN ObserveParameterAliases(m, Binding(m, arguments)) ELSE m.aliases
  <1>1. CASE ~Observes(m, arguments, own)
    <2>1. n = m
      BY <1>1 DEF ObserveCall
    <2> QED
      BY <1>1, <2>1 DEF SameFrame
  <1>2. CASE Observes(m, arguments, own)
    <2>1. n = [m EXCEPT !.params = params, !.aliases = aliases, !.keys = keys]
      BY <1>2 DEF ObserveCall, Observed
    <2>2. DOMAIN params = DOMAIN m.params /\ DOMAIN keys = DOMAIN m.keys
      BY DEF ObserveArguments, ObserveKeywords
    <2>3. DOMAIN aliases = DOMAIN m.aliases
      BY DEF ObserveParameterAliases
    <2> HIDE DEF n, params, keys, aliases
    <2>4. n = [params |-> params, required |-> m.required, rest |-> m.rest, keys |-> keys,
               keyrest |-> m.keyrest, block |-> m.block, aliases |-> aliases, explicit |-> m.explicit,
               overloads |-> m.overloads, inferable |-> m.inferable, inferableKeys |-> m.inferableKeys]
      BY <2>1 DEF IsState
    <2>5. IsState(n) /\ SameFrame(m, n) /\ n.params = params /\ n.keys = keys /\ n.aliases = aliases
      BY <2>2, <2>3, <2>4 DEF IsState, SameFrame
    <2> QED
      BY <1>2, <2>5 DEF n, params, keys, aliases
  <1> QED
    BY <1>1, <1>2

LEMMA InitialIs ==
    ASSUME NEW s
    PROVE  LET m == InitialState(s)
           IN  /\ IsState(m)
               /\ m.explicit = (s.contracts # << >>)
               /\ m.overloads = IF s.contracts = << >> THEN << >>
                                ELSE [i \in DOMAIN s.contracts |-> Signature(s.contracts[i])]
  <1> DEFINE m == InitialState(s)
             signatures == [i \in DOMAIN s.contracts |-> Signature(s.contracts[i])]
  <1>1. CASE s.contracts = << >>
    <2>1. m = InferredState(s.shape)
      BY <1>1 DEF InitialState
    <2> HIDE DEF m
    <2>2. IsState(m) /\ m.explicit = FALSE /\ m.overloads = << >>
      BY <2>1 DEF InferredState, IsState
    <2> QED
      BY <1>1, <2>2 DEF m
  <1>2. CASE s.contracts # << >>
    <2>1. m = ExplicitOverloads(signatures, s.inferUntyped)
      BY <1>2 DEF InitialState
    <2> HIDE DEF m, signatures
    <2>2. IsState(m) /\ m.explicit = TRUE /\ m.overloads = signatures
      BY <2>1 DEF ExplicitOverloads, IsState
    <2> QED
      BY <1>2, <2>2 DEF m, signatures
  <1> QED
    BY <1>1, <1>2

LEMMA RefinedIs ==
    ASSUME NEW m, NEW selected, IsSignature(selected)
    PROVE  LET s == RefineSelectedSignature(m, selected)
           IN  /\ IsSignature(s)
               /\ s.required = selected.required /\ s.rest = selected.rest /\ s.keyrest = selected.keyrest
               /\ DOMAIN s.params = DOMAIN selected.params
               /\ \A i \in DOMAIN selected.params :
                    s.params[i] = RefineUntypedWith(selected.params[i], CallSignature(m).params[i])
               /\ DOMAIN s.keys = DOMAIN selected.keys
               /\ \A k \in DOMAIN selected.keys :
                    /\ s.keys[k].type = RefineUntypedWith(selected.keys[k].type, CallSignature(m).keys[k].type)
                    /\ s.keys[k].required = selected.keys[k].required
  <1> DEFINE s == RefineSelectedSignature(m, selected)
             summary == CallSignature(m)
             params == [i \in DOMAIN selected.params |-> RefineUntypedWith(selected.params[i], summary.params[i])]
             keys == [k \in DOMAIN selected.keys |->
                        Key(RefineUntypedWith(selected.keys[k].type, summary.keys[k].type), selected.keys[k].required)]
  <1>1. s = [selected EXCEPT !.params = params, !.keys = keys]
    BY DEF RefineSelectedSignature, IsSignature
  <1>2. \A k \in DOMAIN selected.keys :
           /\ keys[k].type = RefineUntypedWith(selected.keys[k].type, summary.keys[k].type)
           /\ keys[k].required = selected.keys[k].required
    BY DEF Key
  <1>3. DOMAIN keys = DOMAIN selected.keys
    OBVIOUS
  <1>4. /\ DOMAIN params = DOMAIN selected.params
        /\ \A i \in DOMAIN selected.params : params[i] = RefineUntypedWith(selected.params[i], summary.params[i])
    OBVIOUS
  <1> HIDE DEF s, params, keys, summary
  <1>5. s = [params |-> params, required |-> selected.required, rest |-> selected.rest,
             keys |-> keys, keyrest |-> selected.keyrest, block |-> selected.block]
    BY <1>1 DEF IsSignature
  <1>6. IsSignature(s) /\ s.required = selected.required /\ s.rest = selected.rest /\ s.keyrest = selected.keyrest
        /\ s.params = params /\ s.keys = keys
    BY <1>5 DEF IsSignature
  <1>7. \A k \in DOMAIN selected.keys :
           /\ s.keys[k].type = RefineUntypedWith(selected.keys[k].type, CallSignature(m).keys[k].type)
           /\ s.keys[k].required = selected.keys[k].required
    BY <1>2, <1>6 DEF summary
  <1>8. \A i \in DOMAIN selected.params : s.params[i] = RefineUntypedWith(selected.params[i], CallSignature(m).params[i])
    BY <1>4, <1>6 DEF summary
  <1> QED
    BY <1>3, <1>4, <1>6, <1>7, <1>8 DEF s

-----------------------------------------------------------------------------
(* A call that is given an overload and not reported fits it. *)

\* Methods whose calls are written out and whose contracts are complete.
WrittenOut ==
    \A s \in Sources : /\ \A c \in DOMAIN s.calls : Plain(s.calls[c])
                       /\ \A i \in DOMAIN s.contracts : Complete(s.contracts[i])

\* What no step changes.
Framed ==
    /\ source \in Sources /\ IsState(state)
    /\ state.explicit = (source.contracts # << >>)
    /\ state.overloads = [i \in DOMAIN source.contracts |-> Signature(source.contracts[i])]
    /\ left \subseteq DOMAIN source.calls
    /\ verdicts = [c \in DOMAIN source.calls |-> verdicts[c]]

\* The overload a call was given accepts it.
ChosenAccepts ==
    \A c \in DOMAIN source.calls : verdicts[c].chosen # 0 =>
        /\ verdicts[c].chosen \in DOMAIN state.overloads
        /\ SignatureAcceptsArguments(state.overloads[verdicts[c].chosen], Arguments(source.calls[c]))
        /\ ~verdicts[c].reported =>
              ~KeywordError(state.overloads[verdicts[c].chosen], Arguments(source.calls[c]))

LEMMA SourceFacts ==
    ASSUME Framed, SourcesAssumption
    PROVE  /\ source.contracts \in Seq(ContractSet) /\ source.calls \in Seq(CallSet) /\ source.shape \in ShapeSet
           /\ source.inferUntyped \in BOOLEAN
           /\ \A c \in DOMAIN source.calls : source.calls[c] \in CallSet
           /\ \A i \in DOMAIN source.contracts : source.contracts[i] \in ContractSet
           /\ DOMAIN state.overloads = DOMAIN source.contracts /\ DOMAIN source.contracts \subseteq Nat \ {0}
  <1>1. /\ source.contracts \in Seq(ContractSet) /\ source.calls \in Seq(CallSet) /\ source.shape \in ShapeSet
        /\ source.inferUntyped \in BOOLEAN
    BY DEF Framed, SourcesAssumption
  <1>2. \A c \in DOMAIN source.calls : source.calls[c] \in CallSet
    BY <1>1
  <1>3. \A i \in DOMAIN source.contracts : source.contracts[i] \in ContractSet
    BY <1>1
  <1>4. DOMAIN source.contracts \subseteq Nat \ {0}
    BY <1>1
  <1>5. DOMAIN state.overloads = DOMAIN source.contracts
    BY DEF Framed
  <1> QED
    BY <1>1, <1>2, <1>3, <1>4, <1>5

LEMMA OverloadFacts ==
    ASSUME Framed, SourcesAssumption, WrittenOut, NEW i \in DOMAIN source.contracts
    PROVE  /\ source.contracts[i] \in ContractSet /\ Complete(source.contracts[i])
           /\ state.overloads[i] = Signature(source.contracts[i])
           /\ IsSignature(state.overloads[i]) /\ HasShape(state.overloads[i], source.contracts[i].shape)
           /\ source.contracts[i].shape \in ShapeSet
  <1>1. source.contracts[i] \in ContractSet /\ state.overloads[i] = Signature(source.contracts[i])
    BY SourceFacts DEF Framed
  <1>2. Complete(source.contracts[i])
    BY DEF Framed, WrittenOut
  <1> QED
    BY <1>1, <1>2, SignatureIs, ContractShape, ContractFacts

LEMMA ChoiceFacts ==
    ASSUME Framed, SourcesAssumption, WrittenOut, NEW call \in CallSet, Plain(call)
    PROVE  LET chosen == SelectOverload(state.overloads, Arguments(call))
           IN  /\ chosen = 0 => \A i \in DOMAIN state.overloads :
                                    ~SignatureAcceptsArguments(state.overloads[i], Arguments(call))
               /\ chosen # 0 => /\ chosen \in DOMAIN state.overloads
                                /\ SignatureAcceptsArguments(state.overloads[chosen], Arguments(call))
  <1>1. DOMAIN state.overloads \subseteq Nat \ {0}
    BY SourceFacts
  <1>2. ASSUME NEW i \in DOMAIN state.overloads
        PROVE  Len(state.overloads[i].params) \in Nat /\ Len(Binding(state.overloads[i], Arguments(call))) \in Nat
    <2>1. HasShape(state.overloads[i], source.contracts[i].shape)
      BY SourceFacts, OverloadFacts
    <2>2. state.overloads[i].params \in Seq(Types)
      BY <2>1 DEF HasShape
    <2>3. Binding(state.overloads[i], Arguments(call)) \in Seq(Shown)
      BY <2>1, BindingIs
    <2> QED
      BY <2>2, <2>3
  <1> QED
    BY <1>1, <1>2, SelectsAccepting

\* The signature a call is checked against.
SignatureFor(after, overloads, chosen) ==
    IF chosen = 0 THEN CallSignature(after) ELSE RefineSelectedSignature(after, overloads[chosen])

LEMMA TransferIs ==
    ASSUME NEW c, Transfer(c)
    PROVE  LET arguments == Arguments(source.calls[c])
               after == ObserveCall(state, arguments, source.calls[c].own)
               chosen == SelectOverload(state.overloads, arguments)
               signature == SignatureFor(after, state.overloads, chosen)
           IN  /\ state' = after /\ source' = source /\ settled' = settled /\ left' = left \ {c}
               /\ changed' = (changed \/ after # state)
               /\ verdicts' = [verdicts EXCEPT ![c] =
                     [chosen |-> chosen, reported |-> Reports(signature, arguments, source.initializer)]]
BY DEF Transfer, SignatureFor

LEMMA FramedInit == ASSUME Init, SourcesAssumption PROVE Framed
  <1>1. source \in Sources /\ state = InitialState(source) /\ left = DOMAIN source.calls
    BY DEF Init
  <1>2. IsState(state) /\ state.explicit = (source.contracts # << >>)
    BY <1>1, InitialIs
  <1>3. state.overloads = [i \in DOMAIN source.contracts |-> Signature(source.contracts[i])]
    <2>1. CASE source.contracts # << >>
      BY <1>1, <2>1, InitialIs
    <2>2. CASE source.contracts = << >>
      <3>1. [i \in DOMAIN << >> |-> Signature(source.contracts[i])] = << >>
        OBVIOUS
      <3>2. state.overloads = << >>
        BY <1>1, <2>2, InitialIs
      <3> QED
        BY <2>2, <3>1, <3>2
    <2> QED
      BY <2>1, <2>2
  <1>4. verdicts = [c \in DOMAIN source.calls |-> verdicts[c]]
    BY DEF Init
  <1> QED
    BY <1>1, <1>2, <1>3, <1>4 DEF Framed

LEMMA FramedNext == ASSUME Framed, [Next]_vars PROVE Framed'
  <1>1. CASE UNCHANGED vars
    BY <1>1 DEF Framed, vars, IsState
  <1>2. ASSUME NEW c \in left, Transfer(c) PROVE Framed'
    <2>1. IsState(state') /\ SameFrame(state, state')
      BY <1>2, TransferIs, ObserveIs DEF Framed
    <2>2. source' = source /\ left' = left \ {c}
      BY <1>2, TransferIs
    <2>3. verdicts' = [d \in DOMAIN source.calls |-> verdicts'[d]]
      <3>1. DOMAIN verdicts = DOMAIN source.calls
        BY DEF Framed
      <3>2. verdicts' = [d \in DOMAIN verdicts |-> verdicts'[d]]
        BY <1>2, TransferIs
      <3> QED
        BY <3>1, <3>2
    <2> QED
      BY <2>1, <2>2, <2>3 DEF Framed, SameFrame, IsState
  <1>3. CASE NextRound
    BY <1>3 DEF NextRound, Framed, IsState
  <1>4. CASE Settle
    BY <1>4 DEF Settle, Framed, IsState
  <1> QED
    BY <1>1, <1>2, <1>3, <1>4 DEF Next

LEMMA KeywordErrorRefined ==
    ASSUME NEW call \in CallSet, Plain(call), NEW selected, IsSignature(selected), NEW m,
           KeywordError(selected, Arguments(call))
    PROVE  KeywordError(RefineSelectedSignature(m, selected), Arguments(call))
  <1> DEFINE s == RefineSelectedSignature(m, selected)
  <1>1. /\ s.keyrest = selected.keyrest /\ DOMAIN s.keys = DOMAIN selected.keys
        /\ \A k \in DOMAIN selected.keys : s.keys[k].type = RefineUntypedWith(selected.keys[k].type, CallSignature(m).keys[k].type)
    BY RefinedIs
  <1>2. KeywordMode(s) <=> KeywordMode(selected)
    BY <1>1 DEF KeywordMode
  <1>3. KeywordMode(selected)
        /\ \E k \in DOMAIN call.named \intersect DOMAIN selected.keys : ~IsAssignable(call.named[k], selected.keys[k].type)
    BY AcceptedIs
  <1>4. PICK k \in DOMAIN call.named \intersect DOMAIN selected.keys : ~IsAssignable(call.named[k], selected.keys[k].type)
    BY <1>3
  <1> HIDE DEF s
  <1>5. s.keys[k].type = selected.keys[k].type
    <2>1. ~IsUntyped(selected.keys[k].type)
      BY <1>4 DEF IsAssignable
    <2> QED
      BY <1>1, <1>4, <2>1 DEF RefineUntypedWith
  <1>6. KeywordError(s, Arguments(call))
    BY <1>1, <1>2, <1>3, <1>4, <1>5, AcceptedIs
  <1> QED
    BY <1>6 DEF s

LEMMA AcceptsInit == ASSUME Init PROVE ChosenAccepts
BY DEF Init, ChosenAccepts

LEMMA AcceptsNext ==
    ASSUME Framed, ChosenAccepts, SourcesAssumption, WrittenOut, [Next]_vars
    PROVE  ChosenAccepts'
  <1>1. CASE UNCHANGED vars
    BY <1>1 DEF ChosenAccepts, vars
  <1>2. ASSUME NEW c \in left, Transfer(c) PROVE ChosenAccepts'
    <2> DEFINE call == source.calls[c]
               a == Arguments(call)
               after == ObserveCall(state, a, call.own)
               chosen == SelectOverload(state.overloads, a)
               signature == SignatureFor(after, state.overloads, chosen)
    <2>1. c \in DOMAIN source.calls /\ call \in CallSet /\ Plain(call)
      BY SourceFacts DEF Framed, WrittenOut
    <2>2. /\ source' = source /\ state'.overloads = state.overloads
          /\ verdicts' = [verdicts EXCEPT ![c] = [chosen |-> chosen, reported |-> Reports(signature, a, source.initializer)]]
      BY <1>2, TransferIs, ObserveIs DEF Framed, SameFrame
    <2>3. ASSUME chosen # 0
          PROVE  /\ chosen \in DOMAIN state.overloads /\ SignatureAcceptsArguments(state.overloads[chosen], a)
                 /\ ~Reports(signature, a, source.initializer) => ~KeywordError(state.overloads[chosen], a)
      <3>1. chosen \in DOMAIN state.overloads /\ SignatureAcceptsArguments(state.overloads[chosen], a)
        BY <2>1, <2>3, ChoiceFacts
      <3>2. IsSignature(state.overloads[chosen])
        BY <3>1, SourceFacts, OverloadFacts
      <3>3. signature = RefineSelectedSignature(after, state.overloads[chosen])
        BY <2>3 DEF SignatureFor
      <3>4. KeywordError(state.overloads[chosen], a) => KeywordError(signature, a)
        BY <2>1, <3>2, <3>3, KeywordErrorRefined
      <3>5. KeywordError(signature, a) => Reports(signature, a, source.initializer)
        BY DEF Reports
      <3> QED
        BY <3>1, <3>4, <3>5
    <2> HIDE DEF chosen, signature, call, a
    <2>4. DOMAIN verdicts = DOMAIN source.calls
      BY DEF Framed
    <2>5. ASSUME NEW d \in DOMAIN source.calls, verdicts'[d].chosen # 0
          PROVE  /\ verdicts'[d].chosen \in DOMAIN state.overloads
                 /\ SignatureAcceptsArguments(state.overloads[verdicts'[d].chosen], Arguments(source.calls[d]))
                 /\ ~verdicts'[d].reported =>
                       ~KeywordError(state.overloads[verdicts'[d].chosen], Arguments(source.calls[d]))
      <3>1. CASE d = c
        <4>1. verdicts'[d].chosen = chosen /\ verdicts'[d].reported = Reports(signature, a, source.initializer)
          BY <2>2, <2>4, <3>1
        <4> QED
          BY <2>3, <2>5, <3>1, <4>1 DEF a, call
      <3>2. CASE d # c
        <4>1. verdicts'[d] = verdicts[d]
          BY <2>2, <2>4, <3>2
        <4> QED
          BY <2>5, <4>1 DEF ChosenAccepts
      <3> QED
        BY <3>1, <3>2
    <2> QED
      BY <2>2, <2>5 DEF ChosenAccepts
  <1>3. CASE NextRound
    BY <1>3 DEF NextRound, ChosenAccepts
  <1>4. CASE Settle
    BY <1>4 DEF Settle, ChosenAccepts
  <1> QED
    BY <1>1, <1>2, <1>3, <1>4 DEF Next

LEMMA AcceptedFit == ASSUME Framed, ChosenAccepts, SourcesAssumption, WrittenOut PROVE AcceptedCallsFit
  <1> SUFFICES ASSUME NEW c \in DOMAIN source.calls, verdicts[c].chosen # 0, ~verdicts[c].reported,
                      NEW g \in Concrete(source.calls[c])
               PROVE  FitsContract(source.contracts[verdicts[c].chosen], g)
    BY DEF AcceptedCallsFit
  <1> DEFINE call == source.calls[c]
             contract == source.contracts[verdicts[c].chosen]
  <1>1. call \in CallSet /\ Plain(call)
    BY SourceFacts DEF Framed, WrittenOut
  <1>2. verdicts[c].chosen \in DOMAIN source.contracts
    BY SourceFacts DEF ChosenAccepts
  <1>3. contract \in ContractSet /\ Complete(contract) /\ state.overloads[verdicts[c].chosen] = Signature(contract)
    BY <1>2, OverloadFacts
  <1>4. SignatureAcceptsArguments(Signature(contract), Arguments(call)) /\ ~KeywordError(Signature(contract), Arguments(call))
    BY <1>3 DEF ChosenAccepts
  <1> QED
    BY <1>1, <1>3, <1>4, ContractFits

(* A call that is given an overload and not reported fits that contract, whatever the values of its
   arguments are: what select_overload and invoke_signature_at_site check is what Ruby's binding needs, for
   methods with any number of parameters, overloads and calls. *)
THEOREM AcceptedFits == ASSUME WrittenOut PROVE Spec => []AcceptedCallsFit
  <1>1. Init => Framed /\ ChosenAccepts
    BY SourcesAssumption, FramedInit, AcceptsInit
  <1>2. Framed /\ ChosenAccepts /\ [Next]_vars => (Framed /\ ChosenAccepts)'
    BY SourcesAssumption, FramedNext, AcceptsNext
  <1>3. Framed /\ ChosenAccepts => AcceptedCallsFit
    BY SourcesAssumption, AcceptedFit
  <1> QED
    BY <1>1, <1>2, <1>3, PTL DEF Spec

-----------------------------------------------------------------------------
(* One signature for all overloads. *)

LEMMA GreatestValue ==
    ASSUME NEW n \in Nat \ {0}, NEW f \in [1 .. n -> Nat]
    PROVE  LET S == {f[i] : i \in 1 .. n}
           IN Max(S) \in S /\ \A x \in S : x <= Max(S)
  <1> DEFINE S == {f[i] : i \in 1 .. n}
             Bounds(k) == {m \in Nat : \A i \in 1 .. k : f[i] <= m}
             Bad == {k \in 0 .. n : Bounds(k) = {}}
  <1>1. S \subseteq Nat /\ S # {}
    <2>1. 1 \in 1 .. n
      OBVIOUS
    <2> QED
      BY <2>1
  <1>2. Bounds(n) # {}
    <2>1. SUFFICES ASSUME Bad # {} PROVE FALSE
      <3>1. n \in 0 .. n
        OBVIOUS
      <3> QED
        BY <3>1
    <2>2. PICK k \in Bad : \A j \in Bad : k <= j
      <3>1. Bad \subseteq Nat
        OBVIOUS
      <3> HIDE DEF Bad
      <3> QED
        BY <2>1, <3>1, LeastNumber
    <2>3. k # 0
      <3>1. 0 \in Bounds(0)
        OBVIOUS
      <3> QED
        BY <2>2, <3>1
    <2>4. k - 1 \in 0 .. n /\ ~(k <= k - 1) /\ k \in 1 .. n
      BY <2>2, <2>3
    <2>5. PICK m \in Bounds(k - 1) : TRUE
      BY <2>2, <2>4
    <2>6. \E b \in Nat : m <= b /\ f[k] <= b
      <3>1. m \in Nat /\ f[k] \in Nat
        BY <2>4, <2>5
      <3> QED
        BY <3>1
    <2>7. PICK b \in Nat : m <= b /\ f[k] <= b
      BY <2>6
    <2>8. \A i \in 1 .. k : f[i] <= b
      <3> SUFFICES ASSUME NEW i \in 1 .. k PROVE f[i] <= b
        OBVIOUS
      <3>1. CASE i = k
        BY <2>7, <3>1
      <3>2. CASE i # k
        <4>1. i \in 1 .. k - 1 /\ i \in 1 .. n /\ m \in Nat
          BY <2>4, <2>5, <3>2
        <4>2. f[i] <= m /\ f[i] \in Nat
          BY <2>5, <4>1
        <4> QED
          BY <2>7, <4>1, <4>2
      <3> QED
        BY <3>1, <3>2
    <2>9. b \in Bounds(k)
      BY <2>8
    <2> QED
      BY <2>2, <2>9
  <1>3. PICK m \in Bounds(n) : \A b \in Bounds(n) : m <= b
    <2>1. Bounds(n) \subseteq Nat
      OBVIOUS
    <2> HIDE DEF Bounds
    <2> QED
      BY <1>2, <2>1, LeastNumber
  <1>4. m \in Nat /\ \A x \in S : x <= m
    BY <1>3
  <1>5. m \in S
    <2>1. SUFFICES ASSUME m \notin S PROVE FALSE
      OBVIOUS
    <2>2. ASSUME NEW x \in S PROVE x <= m - 1
      <3>1. x \in Nat /\ x <= m /\ x # m /\ m \in Nat
        BY <1>1, <1>4, <2>1
      <3> QED
        BY <3>1
    <2>3. m - 1 \in Nat
      BY <1>1, <1>4, <2>2
    <2>4. m - 1 \in Bounds(n)
      BY <2>2, <2>3
    <2> QED
      BY <1>3, <1>4, <2>4
  <1>6. Max(S) \in S /\ \A x \in S : x <= Max(S)
    <2> HIDE DEF S
    <2>1. \E x \in S : \A y \in S : x >= y
      BY <1>1, <1>4, <1>5
    <2>2. Max(S) \in S /\ \A y \in S : Max(S) >= y
      BY <2>1 DEF Max
    <2> QED
      BY <1>1, <2>2
  <1> QED
    BY <1>6

LEMMA UntypedIs == Untyped \in Types /\ IsUntyped(Untyped) /\ {} \in Types /\ ~IsUntyped({})
BY DEF Types, ValueTypes, Untyped, Universe, IsUntyped

LEMMA JoinAllTypes ==
    ASSUME NEW types, types \subseteq Types
    PROVE  /\ JoinAll(types) \in Types
           /\ (\E t \in types : IsUntyped(t)) => IsUntyped(JoinAll(types))
           /\ \A t \in types : IsAssignable(t, JoinAll(types))
           /\ ~IsUntyped(JoinAll(types)) => \A t \in types : t \subseteq JoinAll(types)
           /\ \A class \in JoinAll(types) : \E t \in types : class \in t
  <1>1. CASE \E t \in types : Unknown \in t
    <2>1. JoinAll(types) = Untyped
      BY <1>1 DEF JoinAll
    <2>2. \A class \in Untyped : class = Unknown
      BY DEF Untyped
    <2> QED
      BY <1>1, <2>1, <2>2, UntypedIs DEF IsAssignable
  <1>2. CASE ~\E t \in types : Unknown \in t
    <2>1. JoinAll(types) = UNION types
      BY <1>2 DEF JoinAll
    <2>2. UNION types \subseteq Universe
      BY DEF Types, ValueTypes
    <2>3. UNION types \in Types
      BY <1>2, <2>2 DEF Types, ValueTypes
    <2>4. \A t \in types : ~IsUntyped(t)
      BY <1>2 DEF IsUntyped
    <2>5. ~IsUntyped(UNION types)
      BY <1>2 DEF IsUntyped
    <2> QED
      BY <2>1, <2>3, <2>4, <2>5 DEF IsAssignable
  <1> QED
    BY <1>1, <1>2

LEMMA JoinOne == ASSUME NEW t \in Types PROVE JoinAll({t}) = t
BY DEF JoinAll, Types, ValueTypes, Untyped

\* Signatures of complete contracts.
IsOverloads(signatures) ==
    /\ signatures # << >> /\ signatures \in Seq({signatures[i] : i \in DOMAIN signatures})
    /\ \A i \in DOMAIN signatures : \E shape \in ShapeSet :
          /\ HasShape(signatures[i], shape)
          /\ \A k \in DOMAIN shape.keys : signatures[i].keys[k].type \in Types

LEMMA MergedIs ==
    ASSUME NEW signatures, IsOverloads(signatures)
    PROVE  LET merged == MergeMethodSignatures(signatures)
           IN  /\ merged.params \in Seq(Types)
               /\ \A k \in DOMAIN merged.keys : merged.keys[k].type \in Types
               /\ \A i \in DOMAIN signatures :
                    /\ DOMAIN signatures[i].params \subseteq DOMAIN merged.params
                    /\ \A p \in DOMAIN signatures[i].params :
                          IsUntyped(signatures[i].params[p]) => IsUntyped(merged.params[p])
                    /\ DOMAIN signatures[i].keys \subseteq DOMAIN merged.keys
                    /\ \A k \in DOMAIN signatures[i].keys :
                          IsUntyped(signatures[i].keys[k].type) => IsUntyped(merged.keys[k].type)
  <1> DEFINE n == Len(signatures)
             all == ToSet(signatures)
             size == Max({Len(s.params) : s \in all})
             At(p) == {IF p \in DOMAIN s.params THEN s.params[p] ELSE Untyped : s \in all}
             Having(k) == {s \in all : k \in DOMAIN s.keys}
             Under(k) == {s.keys[k].type : s \in Having(k)}
             merged == MergeMethodSignatures(signatures)
  <1>1. n \in Nat \ {0} /\ DOMAIN signatures = 1 .. n /\ all = {signatures[i] : i \in 1 .. n}
    BY DEF IsOverloads, ToSet
  <1>2. \A s \in all : /\ s.params \in Seq(Types) /\ Len(s.params) \in Nat /\ DOMAIN s.params = 1 .. Len(s.params)
                       /\ \A k \in DOMAIN s.keys : s.keys[k].type \in Types
    <2> SUFFICES ASSUME NEW s \in all
                 PROVE  s.params \in Seq(Types) /\ \A k \in DOMAIN s.keys : s.keys[k].type \in Types
      OBVIOUS
    <2>1. PICK i \in 1 .. n : s = signatures[i]
      BY <1>1
    <2>2. PICK shape \in ShapeSet : HasShape(s, shape) /\ \A k \in DOMAIN shape.keys : s.keys[k].type \in Types
      BY <1>1, <2>1 DEF IsOverloads
    <2> QED
      BY <2>2 DEF HasShape
  <1>3. /\ merged.params = [p \in 1 .. size |-> JoinAll(At(p))]
        /\ DOMAIN merged.keys = UNION {DOMAIN s.keys : s \in all}
        /\ \A k \in DOMAIN merged.keys : merged.keys[k].type = JoinAll(Under(k))
    BY DEF MergeMethodSignatures, Key
  <1> HIDE DEF merged, all
  <1>4. size \in Nat /\ \A s \in all : Len(s.params) <= size
    <2> DEFINE f == [i \in 1 .. n |-> Len(signatures[i].params)]
               S == {Len(s.params) : s \in all}
               R == {f[i] : i \in 1 .. n}
    <2>1. f \in [1 .. n -> Nat]
      BY <1>1, <1>2
    <2>2. S = R
      BY <1>1
    <2> HIDE DEF f, S
    <2>3. Max(R) \in R /\ \A x \in R : x <= Max(R)
      BY <1>1, <2>1, GreatestValue
    <2>4. R \subseteq Nat
      BY <2>1
    <2> QED
      BY <2>2, <2>3, <2>4 DEF S
  <1>5. \A p \in 1 .. size : At(p) \subseteq Types
    BY <1>2, UntypedIs
  <1>6. \A k : Under(k) \subseteq Types
    BY <1>2
  <1> HIDE DEF size, Under, At
  <1>7. merged.params \in Seq(Types) /\ DOMAIN merged.params = 1 .. size
    <2>1. \A p \in 1 .. size : JoinAll(At(p)) \in Types
      BY <1>5, JoinAllTypes
    <2>2. merged.params \in [1 .. size -> Types]
      BY <1>3, <2>1
    <2> QED
      BY <1>4, <2>2
  <1>8. \A k \in DOMAIN merged.keys : merged.keys[k].type \in Types
    BY <1>3, <1>6, JoinAllTypes
  <1>9. ASSUME NEW i \in DOMAIN signatures
        PROVE  /\ DOMAIN signatures[i].params \subseteq DOMAIN merged.params
               /\ \A p \in DOMAIN signatures[i].params :
                     IsUntyped(signatures[i].params[p]) => IsUntyped(merged.params[p])
               /\ DOMAIN signatures[i].keys \subseteq DOMAIN merged.keys
               /\ \A k \in DOMAIN signatures[i].keys :
                     IsUntyped(signatures[i].keys[k].type) => IsUntyped(merged.keys[k].type)
    <2> DEFINE s == signatures[i]
    <2>1. s \in all
      BY <1>1
    <2>2. DOMAIN s.params \subseteq 1 .. size
      BY <1>2, <1>4, <2>1
    <2>3. ASSUME NEW p \in DOMAIN s.params, IsUntyped(s.params[p]) PROVE IsUntyped(merged.params[p])
      <3>1. s.params[p] \in At(p)
        BY <2>1 DEF At
      <3> QED
        BY <1>3, <1>5, <2>2, <2>3, <3>1, JoinAllTypes
    <2>4. DOMAIN s.keys \subseteq DOMAIN merged.keys
      BY <1>3, <2>1
    <2>5. ASSUME NEW k \in DOMAIN s.keys, IsUntyped(s.keys[k].type) PROVE IsUntyped(merged.keys[k].type)
      <3>1. s.keys[k].type \in Under(k)
        BY <2>1 DEF Under
      <3> QED
        BY <1>3, <1>6, <2>4, <2>5, <3>1, JoinAllTypes
    <2> QED
      BY <1>7, <2>2, <2>3, <2>4, <2>5
  <1> QED
    BY <1>7, <1>8, <1>9 DEF merged

LEMMA MergedOne ==
    ASSUME NEW s, NEW shape \in ShapeSet, HasShape(s, shape), \A k \in DOMAIN shape.keys : s.keys[k].type \in Types
    PROVE  LET merged == MergeMethodSignatures(<< s >>)
           IN  /\ HasShape(merged, shape) /\ merged.params = s.params
               /\ \A k \in DOMAIN shape.keys : merged.keys[k].type = s.keys[k].type
  <1> DEFINE merged == MergeMethodSignatures(<< s >>)
             resting == {i \in DOMAIN << s >> : << s >>[i].rest # 0}
  <1>1. ToSet(<< s >>) = {s} /\ DOMAIN << s >> = {1} /\ << s >>[1] = s
    BY DEF ToSet
  <1>2. s.params \in Seq(Types) /\ Len(s.params) \in Nat /\ DOMAIN s.params = 1 .. Len(s.params)
        /\ s.required \in Nat
    BY ShapeFacts DEF HasShape
  <1>3. Max({Len(s.params)}) = Len(s.params) /\ Min({s.required}) = s.required
    BY <1>2 DEF Max, Min
  <1>4. resting = IF s.rest = 0 THEN {} ELSE {1}
    BY <1>1
  <1>5. Min({1}) = 1
    BY DEF Min
  <1>6. merged.rest = s.rest
    <2>1. merged.rest = IF resting = {} THEN 0 ELSE << s >>[Min(resting)].rest
      BY DEF MergeMethodSignatures
    <2> HIDE DEF resting, merged
    <2>2. CASE s.rest = 0
      BY <1>4, <2>1, <2>2
    <2>3. CASE s.rest # 0
      <3>1. Min(resting) = 1 /\ resting # {}
        BY <1>4, <1>5, <2>3
      <3> QED
        BY <1>1, <2>1, <3>1
    <2> QED
      BY <2>2, <2>3
  <1>7. merged.params = [p \in 1 .. Max({Len(z.params) : z \in {s}}) |->
                            JoinAll({IF p \in DOMAIN z.params THEN z.params[p] ELSE Untyped : z \in {s}})]
        /\ merged.required = Min({z.required : z \in {s}})
        /\ merged.keyrest = (\E z \in {s} : z.keyrest)
    BY <1>1 DEF MergeMethodSignatures
  <1>8. merged.keys = [k \in UNION {DOMAIN z.keys : z \in {s}} |->
                        Key(JoinAll({z.keys[k].type : z \in {t \in {s} : k \in DOMAIN t.keys}}),
                            \A z \in {t \in {s} : k \in DOMAIN t.keys} : z.keys[k].required)]
    BY <1>1 DEF MergeMethodSignatures
  <1> HIDE DEF merged
  <1>9. merged.params = s.params
    <2>1. {Len(z.params) : z \in {s}} = {Len(s.params)}
      OBVIOUS
    <2>2. \A p \in 1 .. Len(s.params) :
             {IF p \in DOMAIN z.params THEN z.params[p] ELSE Untyped : z \in {s}} = {s.params[p]}
      BY <1>2
    <2>3. \A p \in 1 .. Len(s.params) : JoinAll({s.params[p]}) = s.params[p]
      BY <1>2, JoinOne
    <2>4. merged.params = [p \in 1 .. Len(s.params) |-> s.params[p]]
      BY <1>3, <1>7, <2>1, <2>2, <2>3
    <2> QED
      BY <1>2, <2>4
  <1>10. merged.required = s.required /\ merged.keyrest = s.keyrest
    <2>1. {z.required : z \in {s}} = {s.required}
      OBVIOUS
    <2>2. s.keyrest \in BOOLEAN
      BY ShapeFacts DEF HasShape
    <2> QED
      BY <1>3, <1>7, <2>1, <2>2
  <1>11. DOMAIN merged.keys = DOMAIN s.keys
    BY <1>8
  <1>12. ASSUME NEW k \in DOMAIN shape.keys
         PROVE  merged.keys[k].type = s.keys[k].type /\ merged.keys[k].required = s.keys[k].required
    <2>1. k \in DOMAIN s.keys /\ s.keys[k].type \in Types
      BY DEF HasShape
    <2>2. {t \in {s} : k \in DOMAIN t.keys} = {s}
      BY <2>1
    <2>3. {z.keys[k].type : z \in {s}} = {s.keys[k].type}
      OBVIOUS
    <2>4. (\A z \in {s} : z.keys[k].required) = s.keys[k].required
      <3>1. s.keys[k].required = shape.keys[k] /\ shape.keys[k] \in BOOLEAN
        BY ShapeFacts DEF HasShape
      <3> QED
        BY <3>1
    <2>5. merged.keys[k] = Key(JoinAll({s.keys[k].type}), s.keys[k].required)
      <3>1. k \in UNION {DOMAIN z.keys : z \in {s}}
        BY <2>1
      <3>2. merged.keys[k] = Key(JoinAll({z.keys[k].type : z \in {t \in {s} : k \in DOMAIN t.keys}}),
                                 \A z \in {t \in {s} : k \in DOMAIN t.keys} : z.keys[k].required)
        BY <1>8, <3>1
      <3>3. merged.keys[k] = Key(JoinAll({z.keys[k].type : z \in {s}}), \A z \in {s} : z.keys[k].required)
        BY <2>2, <3>2
      <3> QED
        BY <2>3, <2>4, <3>3
    <2> QED
      BY <2>1, <2>5, JoinOne DEF Key
  <1>13. HasShape(merged, shape)
    BY <1>6, <1>9, <1>10, <1>11, <1>12 DEF HasShape
  <1> QED
    BY <1>9, <1>12, <1>13 DEF merged

-----------------------------------------------------------------------------
(* What a summary learns from a call. *)

\* A value of the type is described by what was learned.
Covers(explicit, type, learned) ==
    IsUntyped(type) \/ type \subseteq learned \/ (~explicit /\ IsUntyped(learned))

LEMMA CoversAssigns ==
    ASSUME NEW explicit, NEW type \in ValueTypes, NEW learned, Covers(explicit, type, learned)
    PROVE  /\ IsAssignable(type, OrUntyped(learned))
           /\ \A class \in type : Holds(OrUntyped(learned), class)
  <1>1. type # {} /\ (IsUntyped(type) => type = Untyped)
    BY DEF ValueTypes, IsUntyped
  <1>2. IsAssignable(type, OrUntyped(learned))
    BY <1>1, UntypedIs DEF Covers, IsAssignable, OrUntyped
  <1> QED
    BY <1>2, AssignableHolds

LEMMA CombineIs ==
    ASSUME NEW explicit \in BOOLEAN, NEW current \in Types, NEW actuals, actuals \subseteq ValueTypes
    PROVE  LET after == CombineObservedType(explicit, current, actuals)
           IN  /\ after \in Types
               /\ \A t \in actuals : Covers(explicit, t, after)
               /\ \A t \in ValueTypes : Covers(explicit, t, current) => Covers(explicit, t, after)
               /\ ~explicit => \A class \in after : class \in current \/ \E t \in actuals : class \in t
  <1> DEFINE after == CombineObservedType(explicit, current, actuals)
             typed == {t \in actuals : ~IsUntyped(t)}
  <1>1. CASE ~explicit
    <2> DEFINE all == actuals \union {current}
    <2>1. all \subseteq Types
      BY DEF Types
    <2>2. after = JoinAll(all)
      BY <1>1 DEF CombineObservedType
    <2> HIDE DEF after
    <2>3. /\ after \in Types
          /\ \A t \in all : IsUntyped(t) => IsUntyped(after)
          /\ ~IsUntyped(after) => \A t \in all : t \subseteq after
          /\ \A class \in after : \E t \in all : class \in t
      BY <2>1, <2>2, JoinAllTypes
    <2>4. \A t \in actuals : Covers(explicit, t, after)
      BY <1>1, <2>3 DEF Covers
    <2>5. ASSUME NEW t \in ValueTypes, Covers(explicit, t, current) PROVE Covers(explicit, t, after)
      <3>1. IsUntyped(t) \/ t \subseteq current \/ IsUntyped(current)
        BY <2>5 DEF Covers
      <3>2. current \in all
        OBVIOUS
      <3> QED
        BY <1>1, <2>3, <3>1, <3>2 DEF Covers
    <2> QED
      BY <2>3, <2>4, <2>5 DEF after
  <1>2. CASE explicit /\ typed = {}
    <2>1. after = current
      BY <1>2 DEF CombineObservedType
    <2>2. \A t \in actuals : IsUntyped(t)
      BY <1>2
    <2> QED
      BY <1>2, <2>1, <2>2 DEF Covers
  <1>3. CASE explicit /\ typed # {}
    <2>1. after = IF IsUntyped(current) THEN UNION typed ELSE current \union UNION typed
      BY <1>3 DEF CombineObservedType
    <2>2. \A t \in typed : t \subseteq Universe /\ t # {} /\ Unknown \notin t
      BY DEF ValueTypes, IsUntyped
    <2>3. UNION typed \in ValueTypes /\ Unknown \notin UNION typed
      BY <1>3, <2>2 DEF ValueTypes
    <2>4. ~IsUntyped(current) => current \subseteq Universe /\ Unknown \notin current
      BY DEF Types, ValueTypes, IsUntyped
    <2>5. after \in ValueTypes
      BY <2>1, <2>3, <2>4 DEF ValueTypes
    <2>6. \A t \in actuals : Covers(explicit, t, after)
      BY <2>1 DEF Covers
    <2>7. ASSUME NEW t \in ValueTypes, Covers(explicit, t, current) PROVE Covers(explicit, t, after)
      <3>1. CASE IsUntyped(current)
        <4>1. current = Untyped
          BY <3>1 DEF Types, ValueTypes, IsUntyped, Untyped
        <4>2. t \subseteq Untyped => IsUntyped(t)
          BY DEF ValueTypes, IsUntyped, Untyped
        <4> QED
          BY <1>3, <2>7, <4>1, <4>2 DEF Covers
      <3>2. CASE ~IsUntyped(current)
        BY <1>3, <2>1, <2>7, <3>2 DEF Covers
      <3> QED
        BY <3>1, <3>2
    <2> QED
      BY <1>3, <2>5, <2>6, <2>7 DEF Types
  <1> QED
    BY <1>1, <1>2, <1>3

LEMMA ArgumentsObserved ==
    ASSUME NEW m, m.params \in Seq(Types), m.explicit \in BOOLEAN, NEW actuals \in Seq(Shown)
    PROVE  LET after == ObserveArguments(m, actuals)
               n == Len(actuals)
           IN  /\ after \in Seq(Types) /\ DOMAIN after = DOMAIN m.params
               /\ \A p \in DOMAIN m.params : p \notin m.inferable => after[p] = m.params[p]
               /\ \A i \in 1 .. n : SlotOf(m, n, i) \in m.inferable \intersect DOMAIN m.params =>
                     Covers(m.explicit, actuals[i].type, after[SlotOf(m, n, i)])
               /\ \A p \in DOMAIN m.params : \A t \in ValueTypes :
                     Covers(m.explicit, t, m.params[p]) => Covers(m.explicit, t, after[p])
               /\ ~m.explicit => \A p \in DOMAIN m.params : \A class \in after[p] :
                     class \in m.params[p] \/ \E i \in 1 .. n : SlotOf(m, n, i) = p /\ class \in actuals[i].type
  <1> DEFINE after == ObserveArguments(m, actuals)
             n == Len(actuals)
             To(slot) == {actuals[i].type : i \in {j \in 1 .. n : SlotOf(m, n, j) = slot}}
             Combined(p) == CombineObservedType(m.explicit, m.params[p], To(p))
  <1>1. after = [p \in DOMAIN m.params |->
                    IF p \notin m.inferable \/ To(p) = {} THEN m.params[p] ELSE Combined(p)]
    BY DEF ObserveArguments
  <1>2. \A i \in 1 .. n : actuals[i].type \in ValueTypes
    <2>1. \A i \in 1 .. n : actuals[i] \in Shown
      OBVIOUS
    <2> QED
      BY <2>1 DEF Shown
  <1>3. \A p : To(p) \subseteq ValueTypes
    BY <1>2
  <1>4. \A i \in 1 .. n : actuals[i].type \in To(SlotOf(m, n, i))
    OBVIOUS
  <1>5. \A p : \A t \in To(p) : \E i \in 1 .. n : SlotOf(m, n, i) = p /\ t = actuals[i].type
    OBVIOUS
  <1>6. \A p \in DOMAIN m.params : m.params[p] \in Types
    OBVIOUS
  <1> HIDE DEF after, To, n
  <1>7. ASSUME NEW p \in DOMAIN m.params
        PROVE  /\ Combined(p) \in Types
               /\ \A t \in To(p) : Covers(m.explicit, t, Combined(p))
               /\ \A t \in ValueTypes : Covers(m.explicit, t, m.params[p]) => Covers(m.explicit, t, Combined(p))
               /\ ~m.explicit => \A class \in Combined(p) : class \in m.params[p] \/ \E t \in To(p) : class \in t
    BY <1>3, <1>6, CombineIs
  <1> HIDE DEF Combined
  <1>8. after \in Seq(Types) /\ DOMAIN after = DOMAIN m.params
    <2>1. \A p \in DOMAIN m.params : after[p] \in Types
      BY <1>1, <1>6, <1>7
    <2>2. Len(m.params) \in Nat /\ DOMAIN m.params = 1 .. Len(m.params) /\ DOMAIN after = DOMAIN m.params
      BY <1>1
    <2>3. after \in [1 .. Len(m.params) -> Types]
      BY <1>1, <2>1, <2>2
    <2> QED
      BY <2>2, <2>3
  <1>9. \A p \in DOMAIN m.params : p \notin m.inferable => after[p] = m.params[p]
    BY <1>1
  <1>10. ASSUME NEW i \in 1 .. n, SlotOf(m, n, i) \in m.inferable \intersect DOMAIN m.params
         PROVE  Covers(m.explicit, actuals[i].type, after[SlotOf(m, n, i)])
    BY <1>1, <1>4, <1>7, <1>10
  <1>11. \A p \in DOMAIN m.params : \A t \in ValueTypes :
            Covers(m.explicit, t, m.params[p]) => Covers(m.explicit, t, after[p])
    BY <1>1, <1>7
  <1>12. ASSUME ~m.explicit, NEW p \in DOMAIN m.params, NEW class \in after[p]
         PROVE  class \in m.params[p] \/ \E i \in 1 .. n : SlotOf(m, n, i) = p /\ class \in actuals[i].type
    <2>1. CASE p \notin m.inferable \/ To(p) = {}
      <3>1. after[p] = m.params[p]
        BY <1>1, <2>1
      <3> QED
        BY <1>12, <3>1
    <2>2. CASE ~(p \notin m.inferable \/ To(p) = {})
      <3>1. after[p] = Combined(p)
        BY <1>1, <2>2
      <3>2. class \in m.params[p] \/ \E t \in To(p) : class \in t
        BY <1>7, <1>12, <3>1
      <3>3. CASE class \in m.params[p]
        BY <3>3
      <3>4. CASE \E t \in To(p) : class \in t
        <4>1. PICK t \in To(p) : class \in t
          BY <3>4
        <4>2. PICK i \in 1 .. n : SlotOf(m, n, i) = p /\ t = actuals[i].type
          BY <1>5
        <4> QED
          BY <4>1, <4>2
      <3> QED
        BY <3>2, <3>3, <3>4
    <2> QED
      BY <2>1, <2>2
  <1>13. /\ \A i \in 1 .. n : SlotOf(m, n, i) \in m.inferable \intersect DOMAIN m.params =>
               Covers(m.explicit, actuals[i].type, after[SlotOf(m, n, i)])
         /\ ~m.explicit => \A p \in DOMAIN m.params : \A class \in after[p] :
               class \in m.params[p] \/ \E i \in 1 .. n : SlotOf(m, n, i) = p /\ class \in actuals[i].type
    BY <1>10, <1>12, Zenon
  <1> QED
    BY <1>8, <1>9, <1>11, <1>13, Zenon DEF after, n

LEMMA KeywordsObserved ==
    ASSUME NEW m, \A k \in DOMAIN m.keys : m.keys[k].type \in Types, m.explicit \in BOOLEAN,
           NEW given, \A k \in DOMAIN given : given[k] \in ValueTypes
    PROVE  LET after == ObserveKeywords(m, given)
           IN  /\ DOMAIN after = DOMAIN m.keys
               /\ \A k \in DOMAIN m.keys :
                    /\ after[k].type \in Types /\ after[k].required = m.keys[k].required
                    /\ k \notin m.inferableKeys => after[k] = m.keys[k]
                    /\ k \in m.inferableKeys \intersect DOMAIN given => Covers(m.explicit, given[k], after[k].type)
                    /\ \A t \in ValueTypes :
                          Covers(m.explicit, t, m.keys[k].type) => Covers(m.explicit, t, after[k].type)
  <1> DEFINE after == ObserveKeywords(m, given)
             Combined(k) == CombineObservedType(m.explicit, m.keys[k].type, {given[k]})
  <1>1. after = [k \in DOMAIN m.keys |->
                    IF k \notin m.inferableKeys \/ k \notin DOMAIN given THEN m.keys[k]
                    ELSE Key(Combined(k), m.keys[k].required)]
    BY DEF ObserveKeywords
  <1>2. \A a, b : Key(a, b).type = a /\ Key(a, b).required = b
    BY DEF Key
  <1> HIDE DEF after
  <1>3. ASSUME NEW k \in DOMAIN m.keys, k \in DOMAIN given
        PROVE  /\ Combined(k) \in Types /\ Covers(m.explicit, given[k], Combined(k))
               /\ \A t \in ValueTypes : Covers(m.explicit, t, m.keys[k].type) => Covers(m.explicit, t, Combined(k))
    <2>1. {given[k]} \subseteq ValueTypes
      BY <1>3
    <2>2. given[k] \in {given[k]}
      OBVIOUS
    <2> QED
      BY <2>1, <2>2, CombineIs
  <1> HIDE DEF Combined
  <1>4. DOMAIN after = DOMAIN m.keys
    BY <1>1
  <1>5. ASSUME NEW k \in DOMAIN m.keys
        PROVE  /\ after[k].type \in Types /\ after[k].required = m.keys[k].required
               /\ k \notin m.inferableKeys => after[k] = m.keys[k]
               /\ k \in m.inferableKeys \intersect DOMAIN given => Covers(m.explicit, given[k], after[k].type)
               /\ \A t \in ValueTypes :
                     Covers(m.explicit, t, m.keys[k].type) => Covers(m.explicit, t, after[k].type)
    <2>1. CASE k \notin m.inferableKeys \/ k \notin DOMAIN given
      <3>1. after[k] = m.keys[k]
        BY <1>1, <2>1
      <3> QED
        BY <2>1, <3>1
    <2>2. CASE k \in m.inferableKeys /\ k \in DOMAIN given
      <3>1. after[k].type = Combined(k) /\ after[k].required = m.keys[k].required
        BY <1>1, <1>2, <2>2
      <3> QED
        BY <1>3, <2>2, <3>1
    <2> QED
      BY <2>1, <2>2
  <1> QED
    BY <1>4, <1>5 DEF after

-----------------------------------------------------------------------------
(* The summary, and the calls it has seen. *)

\* What Observes looks at.
Evidence(shape, call) ==
    {a.type : a \in ToSet(Explicit(call))} \union {call.named[k] : k \in DOMAIN call.named}
        \union (IF TakesKeywords(shape) \/ DOMAIN call.named = {} THEN {} ELSE {{HashClass}})

\* A method calls itself with arguments that are all typed, or none of them is.
Clear(shape, call) ==
    call.own => (\A t \in Evidence(shape, call) : ~IsUntyped(t)) \/ (\A t \in Evidence(shape, call) : IsUntyped(t))

\* A summary belongs to its method.
Learned(s, m) ==
    /\ m.params \in Seq(Types) /\ \A k \in DOMAIN m.keys : m.keys[k].type \in Types
    /\ m.inferable \subseteq DOMAIN m.params /\ m.inferableKeys \subseteq DOMAIN m.keys
    /\ DOMAIN m.aliases = DOMAIN m.params
    /\ s.contracts = << >> =>
          HasShape(m, s.shape) /\ m.inferable = DOMAIN m.params /\ m.inferableKeys = DOMAIN m.keys
    /\ s.contracts # << >> /\ (m.inferable # {} \/ m.inferableKeys # {}) =>
          Len(s.contracts) = 1 /\ HasShape(m, s.contracts[1].shape)
    /\ \A i \in DOMAIN m.overloads :
          /\ \A p \in DOMAIN m.overloads[i].params : IsUntyped(m.overloads[i].params[p]) =>
                p \in DOMAIN m.params /\ (p \in m.inferable \/ IsUntyped(m.params[p]))
          /\ \A k \in DOMAIN m.overloads[i].keys : IsUntyped(m.overloads[i].keys[k].type) =>
                k \in DOMAIN m.keys /\ (k \in m.inferableKeys \/ IsUntyped(m.keys[k].type))

\* What the call passes is described by what was learned.
SeenBy(m, call) ==
    LET binding == Binding(m, Arguments(call))
        n == Len(binding)
    IN  /\ \A i \in 1 .. n : SlotOf(m, n, i) \in m.inferable =>
              Covers(m.explicit, binding[i].type, m.params[SlotOf(m, n, i)])
        /\ \A k \in DOMAIN call.named \intersect m.inferableKeys :
              Covers(m.explicit, call.named[k], m.keys[k].type)

LEMMA BindingShown ==
    ASSUME NEW call \in CallSet, Plain(call), NEW signature
    PROVE  LET binding == Binding(signature, Arguments(call))
           IN  /\ binding = IF KeywordMode(signature) \/ DOMAIN call.named = {} THEN Explicit(call)
                            ELSE Append(Explicit(call), KeywordHash)
               /\ binding \in Seq(Shown) /\ Len(binding) \in Nat /\ DOMAIN binding = 1 .. Len(binding)
               /\ \A i \in 1 .. Len(binding) : binding[i].type \in ValueTypes
  <1> DEFINE binding == Binding(signature, Arguments(call))
  <1>1. Explicit(call) \in Seq(Shown)
    BY ExplicitFits
  <1>2. binding = IF KeywordMode(signature) \/ DOMAIN call.named = {} THEN Explicit(call)
                  ELSE Append(Explicit(call), KeywordHash)
    BY ArgumentsAre DEF Binding
  <1> HIDE DEF binding
  <1>3. binding \in Seq(Shown)
    BY <1>1, <1>2, HashShown
  <1>4. \A i \in 1 .. Len(binding) : binding[i] \in Shown
    BY <1>3
  <1>5. \A i \in 1 .. Len(binding) : binding[i].type \in ValueTypes
    BY <1>4 DEF Shown
  <1> QED
    BY <1>2, <1>3, <1>5 DEF binding

LEMMA EvidenceIs ==
    ASSUME NEW call \in CallSet, Plain(call), NEW m, NEW shape, HasShape(m, shape)
    PROVE  {a.type : a \in ToSet(Binding(m, Arguments(call)))} \union {call.named[k] : k \in DOMAIN call.named}
              = Evidence(shape, call)
  <1> DEFINE binding == Binding(m, Arguments(call))
             e == Explicit(call)
  <1>1. e \in Seq(Shown) /\ Len(e) \in Nat
        /\ binding = IF TakesKeywords(shape) \/ DOMAIN call.named = {} THEN e ELSE Append(e, KeywordHash)
    BY BindingIs
  <1> HIDE DEF binding, e
  <1>2. CASE TakesKeywords(shape) \/ DOMAIN call.named = {}
    BY <1>1, <1>2 DEF Evidence, e, binding
  <1>3. CASE ~(TakesKeywords(shape) \/ DOMAIN call.named = {})
    <2>1. ToSet(binding) = ToSet(e) \union {KeywordHash}
      <3>1. /\ DOMAIN e = 1 .. Len(e) /\ DOMAIN binding = 1 .. Len(e) + 1
            /\ binding[Len(e) + 1] = KeywordHash /\ \A i \in 1 .. Len(e) : binding[i] = e[i]
        BY <1>1, <1>3, HashShown
      <3>2. \A i \in 1 .. Len(e) + 1 : i \in 1 .. Len(e) \/ i = Len(e) + 1
        BY <1>1
      <3>3. 1 .. Len(e) \subseteq 1 .. Len(e) + 1 /\ Len(e) + 1 \in 1 .. Len(e) + 1
        BY <1>1
      <3> HIDE DEF KeywordHash
      <3> QED
        BY <3>1, <3>2, <3>3 DEF ToSet
    <2>2. KeywordHash.type = {HashClass}
      BY DEF KeywordHash
    <2>3. {a.type : a \in ToSet(e) \union {KeywordHash}} = {a.type : a \in ToSet(e)} \union {{HashClass}}
      BY <2>2
    <2>4. Evidence(shape, call) = {a.type : a \in ToSet(e)} \union {call.named[k] : k \in DOMAIN call.named} \union {{HashClass}}
      BY <1>3 DEF Evidence, e
    <2> QED
      BY <2>1, <2>3, <2>4 DEF binding
  <1> QED
    BY <1>2, <1>3

LEMMA FrameKept ==
    ASSUME NEW m, NEW n, SameFrame(m, n), m.params \in Seq(Types), n.params \in Seq(Types)
    PROVE  /\ \A arguments : Binding(n, arguments) = Binding(m, arguments)
           /\ \A size, i : SlotOf(n, size, i) = SlotOf(m, size, i)
           /\ Len(n.params) = Len(m.params)
  <1>1. Len(n.params) = Len(m.params)
    BY DEF SameFrame
  <1>2. KeywordMode(n) = KeywordMode(m)
    BY DEF SameFrame, KeywordMode
  <1> QED
    BY <1>1, <1>2 DEF SameFrame, SlotOf, Binding

\* All of them observed, or nothing to observe.
LEMMA PlainObserved ==
    ASSUME NEW s, NEW m, m.explicit \in BOOLEAN, m.explicit <=> s.contracts # << >>, Learned(s, m),
           NEW call \in CallSet, Plain(call), s.contracts = << >> => Clear(s.shape, call)
    PROVE  Observes(m, Arguments(call), call.own) \/ SeenBy(m, call)
  <1> DEFINE a == Arguments(call)
             binding == Binding(m, a)
  <1>1. a.forwardsAll = FALSE /\ a.unknown = FALSE /\ a.unknownKeys = FALSE /\ a.keywords = call.named
    BY ArgumentsAre
  <1>2. CASE m.explicit
    <2> HIDE DEF a
    <2> QED
      BY <1>1, <1>2 DEF Observes, a
  <1>3. CASE ~m.explicit
    <2>1. s.contracts = << >> /\ HasShape(m, s.shape) /\ Clear(s.shape, call)
      BY <1>3 DEF Learned
    <2>2. {x.type : x \in ToSet(binding)} \union {call.named[k] : k \in DOMAIN call.named} = Evidence(s.shape, call)
      BY <2>1, EvidenceIs
    <2> HIDE DEF a
    <2>3. CASE ~(call.own /\ \E t \in Evidence(s.shape, call) : IsUntyped(t))
      BY <1>1, <2>2, <2>3 DEF Observes, a
    <2>4. CASE call.own /\ \E t \in Evidence(s.shape, call) : IsUntyped(t)
      <3>1. \A t \in Evidence(s.shape, call) : IsUntyped(t)
        BY <2>1, <2>4 DEF Clear
      <3>2. DOMAIN binding = 1 .. Len(binding)
        BY BindingShown DEF a
      <3>3. \A i \in 1 .. Len(binding) : IsUntyped(binding[i].type)
        BY <2>2, <3>1, <3>2 DEF ToSet
      <3>4. \A k \in DOMAIN call.named : IsUntyped(call.named[k])
        BY <2>2, <3>1
      <3> QED
        BY <3>3, <3>4 DEF SeenBy, Covers, a
    <2> QED
      BY <2>3, <2>4
  <1> QED
    BY <1>2, <1>3

LEMMA ObserveLearns ==
    ASSUME NEW s, NEW m, IsState(m), m.explicit \in BOOLEAN, Learned(s, m),
           NEW call \in CallSet, Plain(call), Observes(m, Arguments(call), call.own)
    PROVE  LET n == ObserveCall(m, Arguments(call), call.own)
           IN  /\ Learned(s, n) /\ SeenBy(n, call)
               /\ \A other \in CallSet : Plain(other) /\ SeenBy(m, other) => SeenBy(n, other)
               /\ ~m.explicit => \A p \in DOMAIN m.params : \A class \in n.params[p] :
                     \/ class \in m.params[p]
                     \/ LET binding == Binding(m, Arguments(call))
                        IN \E i \in 1 .. Len(binding) :
                              SlotOf(m, Len(binding), i) = p /\ class \in binding[i].type
  <1> DEFINE a == Arguments(call)
             n == ObserveCall(m, a, call.own)
             binding == Binding(m, a)
             size == Len(binding)
  <1>1. a.forwards = FALSE /\ a.keywords = call.named
    BY ArgumentsAre
  <1>2. binding \in Seq(Shown) /\ size \in Nat /\ \A i \in 1 .. size : binding[i].type \in ValueTypes
    BY BindingShown
  <1>3. \A k \in DOMAIN call.named : call.named[k] \in ValueTypes
    BY NamedTypes
  <1>4. IsState(n) /\ SameFrame(m, n) /\ n.params = ObserveArguments(m, Observed(m, a)) /\ n.keys = ObserveKeywords(m, a.keywords)
    BY ObserveIs
  <1> HIDE DEF n, a
  <1>5. n.params = ObserveArguments(m, binding) /\ n.keys = ObserveKeywords(m, call.named)
    BY <1>1, <1>4 DEF Observed
  <1>6. m.params \in Seq(Types) /\ \A k \in DOMAIN m.keys : m.keys[k].type \in Types
    BY DEF Learned
  <1> HIDE DEF binding
  <1>7. /\ n.params \in Seq(Types) /\ DOMAIN n.params = DOMAIN m.params
        /\ \A p \in DOMAIN m.params : p \notin m.inferable => n.params[p] = m.params[p]
        /\ \A i \in 1 .. size : SlotOf(m, size, i) \in m.inferable \intersect DOMAIN m.params =>
              Covers(m.explicit, binding[i].type, n.params[SlotOf(m, size, i)])
        /\ \A p \in DOMAIN m.params : \A t \in ValueTypes :
              Covers(m.explicit, t, m.params[p]) => Covers(m.explicit, t, n.params[p])
        /\ ~m.explicit => \A p \in DOMAIN m.params : \A class \in n.params[p] :
              class \in m.params[p] \/ \E i \in 1 .. size : SlotOf(m, size, i) = p /\ class \in binding[i].type
    BY <1>2, <1>5, <1>6, ArgumentsObserved
  <1>8. /\ DOMAIN n.keys = DOMAIN m.keys
        /\ \A k \in DOMAIN m.keys :
             /\ n.keys[k].type \in Types /\ n.keys[k].required = m.keys[k].required
             /\ k \notin m.inferableKeys => n.keys[k] = m.keys[k]
             /\ k \in m.inferableKeys \intersect DOMAIN call.named => Covers(m.explicit, call.named[k], n.keys[k].type)
             /\ \A t \in ValueTypes :
                   Covers(m.explicit, t, m.keys[k].type) => Covers(m.explicit, t, n.keys[k].type)
    BY <1>3, <1>5, <1>6, KeywordsObserved
  <1>9. /\ \A arguments : Binding(n, arguments) = Binding(m, arguments)
        /\ \A length, i : SlotOf(n, length, i) = SlotOf(m, length, i)
        /\ Len(n.params) = Len(m.params)
    BY <1>4, <1>6, <1>7, FrameKept
  <1>10. /\ m.inferable \subseteq DOMAIN m.params /\ m.inferableKeys \subseteq DOMAIN m.keys
         /\ n.inferable = m.inferable /\ n.inferableKeys = m.inferableKeys /\ n.explicit = m.explicit
    BY <1>4 DEF Learned, SameFrame
  <1>11. Learned(s, n)
    <2>1. \A shape : HasShape(m, shape) => HasShape(n, shape)
      <3> SUFFICES ASSUME NEW shape, HasShape(m, shape) PROVE HasShape(n, shape)
        OBVIOUS
      <3>1. n.rest = m.rest /\ n.required = m.required /\ n.keyrest = m.keyrest
        BY <1>4 DEF SameFrame
      <3> QED
        BY <1>7, <1>8, <1>9, <3>1 DEF HasShape
    <2>2. /\ n.overloads = m.overloads /\ DOMAIN n.aliases = DOMAIN n.params
      BY <1>4, <1>7 DEF SameFrame, Learned
    <2>3. \A p \in DOMAIN m.params : p \notin m.inferable => n.params[p] = m.params[p]
      BY <1>7
    <2>4. \A k \in DOMAIN m.keys : k \notin m.inferableKeys => n.keys[k] = m.keys[k]
      BY <1>8
    <2>5. ASSUME NEW i \in DOMAIN n.overloads
          PROVE  /\ \A p \in DOMAIN n.overloads[i].params : IsUntyped(n.overloads[i].params[p]) =>
                      p \in DOMAIN n.params /\ (p \in n.inferable \/ IsUntyped(n.params[p]))
                 /\ \A k \in DOMAIN n.overloads[i].keys : IsUntyped(n.overloads[i].keys[k].type) =>
                      k \in DOMAIN n.keys /\ (k \in n.inferableKeys \/ IsUntyped(n.keys[k].type))
      BY <1>7, <1>8, <1>10, <2>2, <2>3, <2>4 DEF Learned
    <2>6. /\ s.contracts = << >> =>
                HasShape(n, s.shape) /\ n.inferable = DOMAIN n.params /\ n.inferableKeys = DOMAIN n.keys
          /\ s.contracts # << >> /\ (n.inferable # {} \/ n.inferableKeys # {}) =>
                Len(s.contracts) = 1 /\ HasShape(n, s.contracts[1].shape)
      BY <1>7, <1>8, <1>10, <2>1 DEF Learned
    <2>7. n.params \in Seq(Types) /\ (\A k \in DOMAIN n.keys : n.keys[k].type \in Types)
          /\ n.inferable \subseteq DOMAIN n.params /\ n.inferableKeys \subseteq DOMAIN n.keys
      BY <1>7, <1>8, <1>10
    <2> QED
      BY <2>2, <2>5, <2>6, <2>7 DEF Learned
  <1>12. SeenBy(n, call)
    <2>1. \A i \in 1 .. size : SlotOf(m, size, i) \in m.inferable =>
             Covers(m.explicit, binding[i].type, n.params[SlotOf(m, size, i)])
      BY <1>7, <1>10
    <2>2. \A k \in DOMAIN call.named \intersect m.inferableKeys : Covers(m.explicit, call.named[k], n.keys[k].type)
      BY <1>8, <1>10
    <2> QED
      BY <1>9, <1>10, <2>1, <2>2 DEF SeenBy, a, binding
  <1>13. ASSUME NEW other \in CallSet, Plain(other), SeenBy(m, other) PROVE SeenBy(n, other)
    <2> DEFINE b == Binding(m, Arguments(other))
    <2>1. \A i \in 1 .. Len(b) : b[i].type \in ValueTypes
      BY <1>13, BindingShown
    <2>2. \A k \in DOMAIN other.named : other.named[k] \in ValueTypes
      BY NamedTypes
    <2>3. /\ \A i \in 1 .. Len(b) : SlotOf(m, Len(b), i) \in m.inferable =>
                Covers(m.explicit, b[i].type, m.params[SlotOf(m, Len(b), i)])
          /\ \A k \in DOMAIN other.named \intersect m.inferableKeys : Covers(m.explicit, other.named[k], m.keys[k].type)
      BY <1>13 DEF SeenBy
    <2> HIDE DEF b
    <2>4. \A i \in 1 .. Len(b) : SlotOf(m, Len(b), i) \in m.inferable =>
             Covers(m.explicit, b[i].type, n.params[SlotOf(m, Len(b), i)])
      BY <1>7, <1>10, <2>1, <2>3
    <2>5. \A k \in DOMAIN other.named \intersect m.inferableKeys : Covers(m.explicit, other.named[k], n.keys[k].type)
      BY <1>8, <1>10, <2>2, <2>3
    <2> QED
      BY <1>9, <1>10, <2>4, <2>5 DEF SeenBy, b
  <1> QED
    BY <1>7, <1>11, <1>12, <1>13 DEF n, a, binding

\* Where nothing is observed nothing is left to be seen.
LEMMA TransferLearns ==
    ASSUME NEW s, NEW m, IsState(m), m.explicit \in BOOLEAN, m.explicit <=> s.contracts # << >>, Learned(s, m),
           NEW call \in CallSet, Plain(call), s.contracts = << >> => Clear(s.shape, call)
    PROVE  LET n == ObserveCall(m, Arguments(call), call.own)
           IN  /\ Learned(s, n) /\ SeenBy(n, call)
               /\ \A other \in CallSet : Plain(other) /\ SeenBy(m, other) => SeenBy(n, other)
  <1>1. CASE Observes(m, Arguments(call), call.own)
    BY <1>1, ObserveLearns
  <1>2. CASE ~Observes(m, Arguments(call), call.own)
    <2>1. ObserveCall(m, Arguments(call), call.own) = m
      BY <1>2 DEF ObserveCall
    <2>2. Observes(m, Arguments(call), call.own) \/ SeenBy(m, call)
      BY PlainObserved
    <2>3. SeenBy(m, call)
      BY <1>2, <2>2
    <2> QED
      BY <2>1, <2>3
  <1> QED
    BY <1>1, <1>2

-----------------------------------------------------------------------------
(* The summary before any call. *)

\* What a contract leaves untyped is learned for one overload only.
Learnable ==
    \A s \in Sources : /\ s.inferUntyped => Len(s.contracts) <= 1
                       /\ s.contracts = << >> => \A c \in DOMAIN s.calls : Clear(s.shape, s.calls[c])

LEMMA InferredLearned ==
    ASSUME NEW s, s.contracts = << >>, s.shape \in ShapeSet
    PROVE  Learned(s, InitialState(s)) /\ \A p \in DOMAIN InitialState(s).params : InitialState(s).params[p] = {}
  <1> DEFINE m == InitialState(s)
             shape == s.shape
  <1>1. m = InferredState(shape)
    BY DEF InitialState
  <1> HIDE DEF m
  <1>2. /\ m.params = [i \in 1 .. Size(shape) |-> {}] /\ m.required = Least(shape)
        /\ m.rest = IF shape.rest THEN shape.required + shape.optional + 1 ELSE 0
        /\ m.keys = [k \in DOMAIN shape.keys |-> Key({}, shape.keys[k])] /\ m.keyrest = shape.keyrest
        /\ m.aliases = [i \in 1 .. Size(shape) |-> "unseen"]
        /\ m.overloads = << >> /\ m.inferable = 1 .. Size(shape) /\ m.inferableKeys = DOMAIN shape.keys
    BY <1>1 DEF InferredState
  <1>3. \A a, b : Key(a, b).type = a /\ Key(a, b).required = b
    BY DEF Key
  <1>4. m.params \in Seq(Types) /\ Len(m.params) = Size(shape) /\ DOMAIN m.params = 1 .. Size(shape)
    <2>1. m.params \in [1 .. Size(shape) -> Types] /\ Size(shape) \in Nat
      BY <1>2, UntypedIs, ShapeFacts
    <2> QED
      BY <2>1
  <1>5. /\ DOMAIN m.keys = DOMAIN shape.keys
        /\ \A k \in DOMAIN shape.keys : m.keys[k].type = {} /\ m.keys[k].required = shape.keys[k]
    BY <1>2, <1>3
  <1>6. HasShape(m, shape)
    BY <1>2, <1>4, <1>5 DEF HasShape
  <1>7. DOMAIN m.overloads = {}
    BY <1>2
  <1>8. Learned(s, m)
    <2>1. \A k \in DOMAIN m.keys : m.keys[k].type \in Types
      BY <1>5, UntypedIs
    <2>2. DOMAIN m.aliases = DOMAIN m.params /\ m.inferable = DOMAIN m.params /\ m.inferableKeys = DOMAIN m.keys
      BY <1>2, <1>4, <1>5
    <2> QED
      BY <1>4, <1>6, <1>7, <2>1, <2>2 DEF Learned
  <1> QED
    BY <1>2, <1>4, <1>8 DEF m

LEMMA OverloadKeys ==
    ASSUME NEW contract \in ContractSet, Complete(contract)
    PROVE  \A k \in DOMAIN contract.shape.keys :
              Signature(contract).keys[k].type = contract.keys[k] /\ contract.keys[k] \in ValueTypes
  <1>1. \A k \in DOMAIN contract.keys : Signature(contract).keys[k] = Key(contract.keys[k], contract.shape.keys[k])
    BY ContractShape
  <1>2. \A k \in DOMAIN contract.keys : contract.keys[k] \in ValueTypes
    BY ContractFacts
  <1>3. \A a, b : Key(a, b).type = a
    BY DEF Key
  <1>4. DOMAIN contract.keys = DOMAIN contract.shape.keys
    BY DEF Complete
  <1> QED
    BY <1>1, <1>2, <1>3, <1>4

LEMMA ExplicitLearned ==
    ASSUME NEW s, s.contracts # << >>, s.contracts \in Seq(ContractSet),
           \A i \in DOMAIN s.contracts : Complete(s.contracts[i]), s.inferUntyped \in BOOLEAN,
           s.inferUntyped => Len(s.contracts) <= 1
    PROVE  Learned(s, InitialState(s))
  <1> DEFINE signatures == [i \in DOMAIN s.contracts |-> Signature(s.contracts[i])]
             merged == MergeMethodSignatures(signatures)
             m == InitialState(s)
             n == Len(s.contracts)
  <1>1. n \in Nat /\ DOMAIN s.contracts = 1 .. n /\ n # 0 /\ \A i \in 1 .. n : s.contracts[i] \in ContractSet
    OBVIOUS
  <1>2. DOMAIN signatures = 1 .. n /\ \A i \in 1 .. n : signatures[i] = Signature(s.contracts[i])
    BY <1>1
  <1>3. m = ExplicitOverloads(signatures, s.inferUntyped)
    BY DEF InitialState
  <1> HIDE DEF signatures, m
  <1>4. IsOverloads(signatures)
    <2>1. signatures # << >> /\ signatures \in Seq({signatures[i] : i \in DOMAIN signatures})
      <3>1. signatures \in [1 .. n -> {signatures[i] : i \in DOMAIN signatures}]
        BY <1>2 DEF signatures
      <3> QED
        BY <1>1, <1>2, <3>1
    <2>2. ASSUME NEW i \in DOMAIN signatures
          PROVE  \E shape \in ShapeSet :
                    /\ HasShape(signatures[i], shape)
                    /\ \A k \in DOMAIN shape.keys : signatures[i].keys[k].type \in Types
      <3> DEFINE contract == s.contracts[i]
      <3>1. contract \in ContractSet /\ Complete(contract) /\ signatures[i] = Signature(contract)
        BY <1>1, <1>2
      <3> HIDE DEF contract
      <3>2. contract.shape \in ShapeSet /\ HasShape(signatures[i], contract.shape)
        BY <3>1, ContractFacts, ContractShape
      <3>3. \A k \in DOMAIN contract.shape.keys : signatures[i].keys[k].type \in Types
        BY <3>1, OverloadKeys DEF Types
      <3> QED
        BY <3>2, <3>3
    <2> QED
      BY <2>1, <2>2 DEF IsOverloads
  <1>5. /\ merged.params \in Seq(Types)
        /\ \A k \in DOMAIN merged.keys : merged.keys[k].type \in Types
        /\ \A i \in DOMAIN signatures :
             /\ DOMAIN signatures[i].params \subseteq DOMAIN merged.params
             /\ \A p \in DOMAIN signatures[i].params :
                   IsUntyped(signatures[i].params[p]) => IsUntyped(merged.params[p])
             /\ DOMAIN signatures[i].keys \subseteq DOMAIN merged.keys
             /\ \A k \in DOMAIN signatures[i].keys :
                   IsUntyped(signatures[i].keys[k].type) => IsUntyped(merged.keys[k].type)
    BY <1>4, MergedIs
  <1> HIDE DEF merged
  <1>6. /\ m.params = merged.params /\ m.required = merged.required /\ m.rest = merged.rest
        /\ m.keys = merged.keys /\ m.keyrest = merged.keyrest
        /\ m.aliases = [i \in DOMAIN merged.params |-> "unseen"] /\ m.overloads = signatures
        /\ m.inferable = {i \in DOMAIN merged.params : s.inferUntyped /\ IsUntyped(merged.params[i])}
        /\ m.inferableKeys = {k \in DOMAIN merged.keys : s.inferUntyped /\ IsUntyped(merged.keys[k].type)}
    BY <1>3 DEF ExplicitOverloads, merged
  <1>7. ASSUME m.inferable # {} \/ m.inferableKeys # {}
        PROVE  n = 1 /\ HasShape(m, s.contracts[1].shape)
    <2> DEFINE contract == s.contracts[1]
    <2>1. n = 1 /\ contract \in ContractSet /\ Complete(contract)
      <3>1. s.inferUntyped
        BY <1>6, <1>7
      <3>2. n <= 1
        BY <3>1
      <3>3. n = 1
        <4> HIDE DEF n
        <4> QED
          BY <1>1, <3>2
      <3> QED
        BY <1>1, <3>3
    <2>2. signatures = << Signature(contract) >>
      <3>1. signatures = [i \in 1 .. 1 |-> Signature(s.contracts[i])]
        BY <1>1, <2>1 DEF signatures
      <3> QED
        BY <3>1
    <2> HIDE DEF contract
    <2>3. contract.shape \in ShapeSet /\ HasShape(Signature(contract), contract.shape)
      BY <2>1, ContractFacts, ContractShape
    <2>4. \A k \in DOMAIN contract.shape.keys : Signature(contract).keys[k].type \in Types
      BY <2>1, OverloadKeys DEF Types
    <2>5. HasShape(merged, contract.shape)
      BY <2>2, <2>3, <2>4, MergedOne DEF merged
    <2>6. HasShape(m, contract.shape)
      BY <1>6, <2>5 DEF HasShape
    <2> QED
      BY <2>1, <2>6 DEF contract
  <1>8. ASSUME NEW i \in DOMAIN m.overloads
        PROVE  /\ \A p \in DOMAIN m.overloads[i].params : IsUntyped(m.overloads[i].params[p]) =>
                    p \in DOMAIN m.params /\ IsUntyped(m.params[p])
               /\ \A k \in DOMAIN m.overloads[i].keys : IsUntyped(m.overloads[i].keys[k].type) =>
                    k \in DOMAIN m.keys /\ IsUntyped(m.keys[k].type)
    BY <1>5, <1>6
  <1>9. /\ m.params \in Seq(Types) /\ \A k \in DOMAIN m.keys : m.keys[k].type \in Types
        /\ m.inferable \subseteq DOMAIN m.params /\ m.inferableKeys \subseteq DOMAIN m.keys
        /\ DOMAIN m.aliases = DOMAIN m.params
    BY <1>5, <1>6
  <1> QED
    BY <1>7, <1>8, <1>9 DEF Learned, m

LEMMA LearnedInit ==
    ASSUME NEW s \in Sources, SourcesAssumption, WrittenOut, Learnable
    PROVE  Learned(s, InitialState(s))
  <1>1. s.contracts \in Seq(ContractSet) /\ s.shape \in ShapeSet /\ s.inferUntyped \in BOOLEAN
    BY DEF SourcesAssumption
  <1>2. (\A i \in DOMAIN s.contracts : Complete(s.contracts[i])) /\ (s.inferUntyped => Len(s.contracts) <= 1)
    BY DEF WrittenOut, Learnable
  <1> QED
    BY <1>1, <1>2, InferredLearned, ExplicitLearned

-----------------------------------------------------------------------------
(* What a report means. *)

LEMMA ReportNeeds ==
    ASSUME NEW call \in CallSet, Plain(call), NEW signature, NEW shape \in ShapeSet, HasShape(signature, shape),
           NEW initializer, Reports(signature, Arguments(call), initializer)
    PROVE  LET binding == Binding(signature, Arguments(call))
               n == Len(binding)
           IN  \/ ~Shaped(shape, call, n)
               \/ \E i \in 1 .. n : ~IsAssignable(binding[i].type, PositionalType(signature, n, i))
               \/ KeywordError(signature, Arguments(call))
  <1> DEFINE a == Arguments(call)
             binding == Binding(signature, a)
             n == Len(binding)
  <1>1. /\ a.keywords = call.named /\ a.dynamic = {} /\ a.dynamicKeys = FALSE
        /\ a.keywordSplat = FALSE /\ a.forwards = FALSE
    BY ArgumentsAre
  <1>2. n \in Nat /\ DOMAIN binding = 1 .. n
    BY BindingShown
  <1>3. /\ signature.required = Least(shape) /\ Len(signature.params) = Size(shape)
        /\ signature.rest = 0 <=> ~shape.rest
        /\ signature.keyrest = shape.keyrest
        /\ DOMAIN signature.keys = DOMAIN shape.keys
        /\ \A k \in DOMAIN shape.keys : signature.keys[k].required = shape.keys[k]
        /\ KeywordMode(signature) <=> TakesKeywords(shape)
    BY ShapeFacts, SameMode DEF HasShape
  <1>4. Least(shape) \in Nat /\ Fixed(shape) \in Nat /\ (~shape.rest => Size(shape) = Fixed(shape))
    BY ShapeFacts DEF Size
  <1> HIDE DEF a
  <1>5. MissingArguments(signature, a) <=> n < signature.required
    BY DEF MissingArguments
  <1>6. ExtraArguments(signature, a) <=> signature.rest = 0 /\ n > Len(signature.params)
    BY DEF ExtraArguments
  <1>7. MissingKeywords(signature, a) =>
           KeywordMode(signature) /\ \E k \in DOMAIN signature.keys : signature.keys[k].required /\ k \notin DOMAIN call.named
    BY <1>1 DEF MissingKeywords
  <1>8. UnknownKeyword(signature, a) =>
           KeywordMode(signature) /\ ~signature.keyrest /\ ~(DOMAIN call.named \subseteq DOMAIN signature.keys)
    BY <1>1 DEF UnknownKeyword
  <1>9. ArityError(signature, a, initializer) => ~Shaped(shape, call, n)
    <2> HIDE DEF n
    <2>1. MissingArguments(signature, a) \/ ExtraArguments(signature, a) => ~Shaped(shape, call, n)
      BY <1>2, <1>3, <1>4, <1>5, <1>6 DEF Shaped
    <2>2. MissingKeywords(signature, a) \/ UnknownKeyword(signature, a) => ~Shaped(shape, call, n)
      BY <1>3, <1>7, <1>8 DEF Shaped
    <2> QED
      BY <2>1, <2>2 DEF ArityError
  <1>10. ArgumentError(signature, a) => \E i \in 1 .. n : ~IsAssignable(binding[i].type, PositionalType(signature, n, i))
    BY <1>2 DEF ArgumentError
  <1>11. ~DynamicSplatError(signature, a) /\ ~a.dynamicKeys
    BY <1>1 DEF DynamicSplatError
  <1> HIDE DEF n, binding
  <1>12. \/ ArityError(signature, a, initializer) \/ ArgumentError(signature, a) \/ KeywordError(signature, a)
    BY <1>11 DEF Reports, a
  <1> QED
    BY <1>9, <1>10, <1>12 DEF a, n, binding

LEMMA SummaryShape ==
    ASSUME NEW m, NEW shape, HasShape(m, shape), \A k \in DOMAIN m.keys : m.keys[k].type \in Types
    PROVE  /\ HasShape(CallSignature(m), shape)
           /\ \A p \in DOMAIN m.params : CallSignature(m).params[p] = OrUntyped(m.params[p])
           /\ \A k \in DOMAIN m.keys : CallSignature(m).keys[k].type = OrUntyped(m.keys[k].type)
  <1> DEFINE s == CallSignature(m)
  <1>1. /\ s.params = [i \in DOMAIN m.params |-> OrUntyped(m.params[i])] /\ s.required = m.required /\ s.rest = m.rest
        /\ s.keys = [k \in DOMAIN m.keys |-> Key(OrUntyped(m.keys[k].type), m.keys[k].required)]
        /\ s.keyrest = m.keyrest
    BY DEF CallSignature
  <1>2. \A a, b : Key(a, b).type = a /\ Key(a, b).required = b
    BY DEF Key
  <1> HIDE DEF s
  <1>3. s.params \in Seq(Types) /\ Len(s.params) = Len(m.params)
    <2>1. m.params \in Seq(Types)
      BY DEF HasShape
    <2>2. Len(m.params) \in Nat /\ DOMAIN m.params = 1 .. Len(m.params) /\ \A p \in DOMAIN m.params : m.params[p] \in Types
      BY <2>1
    <2>3. \A p \in DOMAIN m.params : OrUntyped(m.params[p]) \in Types
      BY <2>2, UntypedIs DEF OrUntyped
    <2>4. s.params \in [1 .. Len(m.params) -> Types]
      BY <1>1, <2>2, <2>3
    <2> QED
      BY <2>2, <2>4
  <1>4. /\ DOMAIN s.keys = DOMAIN m.keys
        /\ \A k \in DOMAIN m.keys : s.keys[k].type = OrUntyped(m.keys[k].type) /\ s.keys[k].required = m.keys[k].required
    BY <1>1, <1>2
  <1>5. HasShape(s, shape)
    BY <1>1, <1>3, <1>4 DEF HasShape
  <1> QED
    BY <1>1, <1>4, <1>5 DEF s

LEMMA SameSlots ==
    ASSUME NEW shape, NEW s, NEW m, HasShape(s, shape), HasShape(m, shape)
    PROVE  /\ \A n, i : SlotOf(s, n, i) = SlotOf(m, n, i)
           /\ DOMAIN s.params = DOMAIN m.params
           /\ KeywordMode(s) <=> KeywordMode(m)
           /\ \A arguments : Binding(s, arguments) = Binding(m, arguments)
  <1>1. s.rest = m.rest /\ Len(s.params) = Len(m.params) /\ DOMAIN s.keys = DOMAIN m.keys /\ s.keyrest = m.keyrest
    BY DEF HasShape
  <1>2. DOMAIN s.params = DOMAIN m.params
    <2>1. s.params \in Seq(Types) /\ m.params \in Seq(Types)
      BY DEF HasShape
    <2> QED
      BY <1>1, <2>1
  <1>3. KeywordMode(s) <=> KeywordMode(m)
    BY <1>1 DEF KeywordMode
  <1> QED
    BY <1>1, <1>2, <1>3 DEF SlotOf, Binding

LEMMA UntypedAccepts == \A type : IsAssignable(type, Untyped)
BY UntypedIs DEF IsAssignable

\* A summary reports what Ruby refuses.
LEMMA InferredReport ==
    ASSUME NEW s, NEW m, s.shape \in ShapeSet, s.contracts = << >>, Learned(s, m),
           NEW call \in CallSet, Plain(call), SeenBy(m, call),
           NEW initializer, Reports(CallSignature(m), Arguments(call), initializer)
    PROVE  \E g \in Concrete(call) : ~Accepts(s.shape, g)
  <1> DEFINE shape == s.shape
             signature == CallSignature(m)
             a == Arguments(call)
             binding == Binding(m, a)
             n == Len(binding)
  <1>1. /\ HasShape(m, shape) /\ m.inferable = DOMAIN m.params /\ m.inferableKeys = DOMAIN m.keys
        /\ \A k \in DOMAIN m.keys : m.keys[k].type \in Types
    BY DEF Learned
  <1>2. /\ HasShape(signature, shape)
        /\ \A p \in DOMAIN m.params : signature.params[p] = OrUntyped(m.params[p])
        /\ \A k \in DOMAIN m.keys : signature.keys[k].type = OrUntyped(m.keys[k].type)
    BY <1>1, SummaryShape
  <1>3. Reports(signature, a, initializer)
    OBVIOUS
  <1> HIDE DEF signature
  <1>4. /\ \A size, i : SlotOf(signature, size, i) = SlotOf(m, size, i)
        /\ DOMAIN signature.params = DOMAIN m.params
        /\ Binding(signature, a) = binding
    BY <1>1, <1>2, SameSlots
  <1>5. DOMAIN signature.keys = DOMAIN m.keys
    BY <1>1, <1>2 DEF HasShape
  <1>6. binding \in Seq(Shown) /\ n \in Nat /\ \A i \in 1 .. n : binding[i].type \in ValueTypes
    BY BindingShown
  <1>7. \A k \in DOMAIN call.named : call.named[k] \in ValueTypes
    BY NamedTypes
  <1>8. ASSUME NEW i \in 1 .. n PROVE IsAssignable(binding[i].type, PositionalType(signature, n, i))
    <2> DEFINE p == SlotOf(m, n, i)
    <2>1. CASE p \in DOMAIN m.params
      <3>1. Covers(m.explicit, binding[i].type, m.params[p])
        BY <1>1, <2>1 DEF SeenBy
      <3>2. PositionalType(signature, n, i) = OrUntyped(m.params[p])
        BY <1>2, <1>4, <2>1 DEF PositionalType
      <3> QED
        BY <1>6, <3>1, <3>2, CoversAssigns
    <2>2. CASE p \notin DOMAIN m.params
      <3>1. PositionalType(signature, n, i) = Untyped
        BY <1>4, <2>2 DEF PositionalType
      <3> QED
        BY <3>1, UntypedAccepts
    <2> QED
      BY <2>1, <2>2
  <1>9. ~KeywordError(signature, a)
    <2>1. SUFFICES ASSUME NEW k \in DOMAIN call.named \intersect DOMAIN signature.keys
                   PROVE  IsAssignable(call.named[k], signature.keys[k].type)
      BY AcceptedIs
    <2>2. Covers(m.explicit, call.named[k], m.keys[k].type)
      BY <1>1, <1>5 DEF SeenBy
    <2>3. signature.keys[k].type = OrUntyped(m.keys[k].type) /\ call.named[k] \in ValueTypes
      BY <1>2, <1>5, <1>7
    <2>4. IsAssignable(call.named[k], OrUntyped(m.keys[k].type))
      BY <2>2, <2>3, CoversAssigns
    <2> QED
      BY <2>3, <2>4
  <1>10. ~Shaped(shape, call, n)
    BY <1>2, <1>3, <1>4, <1>8, <1>9, ReportNeeds
  <1>11. PICK g \in Concrete(call) : TRUE
    <2>1. PICK v, w : Fits(binding, v) /\ Named(call, w)
      BY <1>6, SomeValues, SomeKeywords
    <2> QED
      BY <1>1, <2>1, AllGiven
  <1>12. Accepts(shape, g) <=> Shaped(shape, call, n)
    BY <1>1, AcceptsShaped
  <1> QED
    BY <1>10, <1>11, <1>12

LEMMA SummaryIs ==
    ASSUME NEW m
    PROVE  /\ \A p \in DOMAIN m.params : CallSignature(m).params[p] = OrUntyped(m.params[p])
           /\ \A k \in DOMAIN m.keys : CallSignature(m).keys[k].type = OrUntyped(m.keys[k].type)
  <1>1. \A a, b : Key(a, b).type = a
    BY DEF Key
  <1> QED
    BY <1>1 DEF CallSignature

LEMMA RefinedShape ==
    ASSUME NEW m, m.params \in Seq(Types), NEW selected, IsSignature(selected), NEW shape, HasShape(selected, shape),
           \A p \in DOMAIN selected.params : IsUntyped(selected.params[p]) => p \in DOMAIN m.params
    PROVE  HasShape(RefineSelectedSignature(m, selected), shape)
  <1> DEFINE r == RefineSelectedSignature(m, selected)
             summary == CallSignature(m)
  <1>1. /\ IsSignature(r)
        /\ r.required = selected.required /\ r.rest = selected.rest /\ r.keyrest = selected.keyrest
        /\ DOMAIN r.params = DOMAIN selected.params
        /\ \A p \in DOMAIN selected.params : r.params[p] = RefineUntypedWith(selected.params[p], summary.params[p])
        /\ DOMAIN r.keys = DOMAIN selected.keys
        /\ \A k \in DOMAIN selected.keys : r.keys[k].required = selected.keys[k].required
    BY RefinedIs
  <1>2. r.params = [p \in DOMAIN selected.params |-> RefineUntypedWith(selected.params[p], summary.params[p])]
    BY DEF RefineSelectedSignature, IsSignature
  <1> HIDE DEF r
  <1>3. selected.params \in Seq(Types)
    BY DEF HasShape
  <1>4. /\ Len(selected.params) \in Nat /\ DOMAIN selected.params = 1 .. Len(selected.params)
        /\ \A p \in DOMAIN selected.params : selected.params[p] \in Types
        /\ \A p \in DOMAIN m.params : m.params[p] \in Types
    BY <1>3
  <1>5. ASSUME NEW p \in DOMAIN selected.params PROVE r.params[p] \in Types
    <2>1. CASE IsUntyped(selected.params[p])
      <3>1. summary.params[p] = OrUntyped(m.params[p]) /\ m.params[p] \in Types
        BY <1>4, <2>1, SummaryIs
      <3> HIDE DEF summary
      <3> QED
        BY <1>1, <2>1, <3>1, UntypedIs DEF RefineUntypedWith, OrUntyped
    <2>2. CASE ~IsUntyped(selected.params[p])
      BY <1>1, <1>4, <2>2 DEF RefineUntypedWith
    <2> QED
      BY <2>1, <2>2
  <1>6. r.params \in Seq(Types) /\ Len(r.params) = Len(selected.params)
    <2> DEFINE new == r.params
               length == Len(selected.params)
    <2>1. new \in [1 .. length -> Types] /\ length \in Nat
      BY <1>2, <1>4, <1>5
    <2> HIDE DEF new, length
    <2>2. new \in Seq(Types) /\ Len(new) = length
      BY <2>1
    <2> QED
      BY <2>2 DEF new, length
  <1>7. HasShape(r, shape)
    BY <1>1, <1>6 DEF HasShape
  <1> QED
    BY <1>7 DEF r

LEMMA LearnedAssigns ==
    ASSUME NEW type \in ValueTypes, NEW learned, NEW explicit, IsUntyped(learned) \/ Covers(explicit, type, learned)
    PROVE  IsAssignable(type, OrUntyped(learned))
  <1>1. CASE IsUntyped(learned)
    BY <1>1, UntypedIs DEF IsAssignable, OrUntyped
  <1>2. CASE Covers(explicit, type, learned)
    BY <1>2, CoversAssigns
  <1> QED
    BY <1>1, <1>2

\* An accepting overload refined by the summary reports no argument the overload does not refuse.
LEMMA ExplicitReport ==
    ASSUME NEW s, NEW m, m.explicit = TRUE, s.contracts # << >>, DOMAIN s.contracts = 1 .. Len(s.contracts),
           Len(s.contracts) \in Nat, Learned(s, m), NEW call \in CallSet, Plain(call), SeenBy(m, call),
           NEW i \in DOMAIN m.overloads, i \in DOMAIN s.contracts, IsSignature(m.overloads[i]),
           s.contracts[i].shape \in ShapeSet, HasShape(m.overloads[i], s.contracts[i].shape),
           SignatureAcceptsArguments(m.overloads[i], Arguments(call)), NEW initializer,
           Reports(RefineSelectedSignature(m, m.overloads[i]), Arguments(call), initializer)
    PROVE  KeywordError(m.overloads[i], Arguments(call))
  <1> DEFINE a == Arguments(call)
             selected == m.overloads[i]
             shape == s.contracts[i].shape
             r == RefineSelectedSignature(m, selected)
             binding == Binding(selected, a)
             n == Len(binding)
  <1>1. /\ m.params \in Seq(Types)
        /\ \A p \in DOMAIN selected.params : IsUntyped(selected.params[p]) =>
              p \in DOMAIN m.params /\ (p \in m.inferable \/ IsUntyped(m.params[p]))
        /\ \A k \in DOMAIN selected.keys : IsUntyped(selected.keys[k].type) =>
              k \in DOMAIN m.keys /\ (k \in m.inferableKeys \/ IsUntyped(m.keys[k].type))
    BY DEF Learned
  <1>2. HasShape(r, shape)
    BY <1>1, RefinedShape
  <1>3. /\ \A p \in DOMAIN selected.params : r.params[p] = RefineUntypedWith(selected.params[p], CallSignature(m).params[p])
        /\ DOMAIN r.keys = DOMAIN selected.keys /\ r.keyrest = selected.keyrest
        /\ \A k \in DOMAIN selected.keys : r.keys[k].type = RefineUntypedWith(selected.keys[k].type, CallSignature(m).keys[k].type)
    BY RefinedIs
  <1>4. Reports(r, a, initializer)
    OBVIOUS
  <1>5. /\ \A size, j : SlotOf(r, size, j) = SlotOf(selected, size, j)
        /\ DOMAIN r.params = DOMAIN selected.params
        /\ KeywordMode(r) <=> KeywordMode(selected)
        /\ Binding(r, a) = binding
    <2> HIDE DEF r, selected
    <2> QED
      BY <1>2, SameSlots DEF selected
  <1>6. n \in Nat /\ DOMAIN binding = 1 .. n /\ \A j \in 1 .. n : binding[j].type \in ValueTypes
    BY BindingShown
  <1>7. \A k \in DOMAIN call.named : call.named[k] \in ValueTypes
    BY NamedTypes
  <1>8. SignatureShapeAcceptsArguments(selected, a) /\ Positioned(selected, a)
    BY AcceptedIs
  <1>9. Shaped(shape, call, n)
    BY <1>8, ShapeAccepted
  <1>10. m.inferable # {} \/ m.inferableKeys # {} =>
            /\ \A size, j : SlotOf(selected, size, j) = SlotOf(m, size, j)
            /\ Binding(m, a) = binding
    <2> SUFFICES ASSUME m.inferable # {} \/ m.inferableKeys # {}
                 PROVE  /\ \A size, j : SlotOf(selected, size, j) = SlotOf(m, size, j)
                        /\ Binding(m, a) = binding
      OBVIOUS
    <2>1. Len(s.contracts) = 1 /\ HasShape(m, s.contracts[1].shape)
      BY DEF Learned
    <2>2. i = 1
      BY <2>1
    <2>3. HasShape(selected, shape) /\ HasShape(m, shape)
      BY <2>1, <2>2
    <2> HIDE DEF selected, shape
    <2> QED
      BY <2>3, SameSlots
  <1> HIDE DEF r, selected, a
  <1>11. ASSUME NEW j \in 1 .. n PROVE IsAssignable(binding[j].type, PositionalType(r, n, j))
    <2> DEFINE p == SlotOf(selected, n, j)
    <2>1. CASE p \notin DOMAIN selected.params
      BY <1>5, <2>1, UntypedAccepts DEF PositionalType
    <2>2. CASE p \in DOMAIN selected.params /\ ~IsUntyped(selected.params[p])
      <3>1. PositionalType(r, n, j) = selected.params[p] /\ PositionalType(selected, n, j) = selected.params[p]
        BY <1>3, <1>5, <2>2 DEF PositionalType, RefineUntypedWith
      <3> QED
        BY <1>6, <1>8, <3>1 DEF Positioned
    <2>3. CASE p \in DOMAIN selected.params /\ IsUntyped(selected.params[p])
      <3>1. p \in DOMAIN m.params /\ (p \in m.inferable \/ IsUntyped(m.params[p]))
        BY <1>1, <2>3
      <3>2. PositionalType(r, n, j) = OrUntyped(m.params[p])
        BY <1>3, <1>5, <2>3, <3>1, SummaryIs DEF PositionalType, RefineUntypedWith
      <3>3. p \in m.inferable => Covers(m.explicit, binding[j].type, m.params[p])
        <4> SUFFICES ASSUME p \in m.inferable PROVE Covers(m.explicit, binding[j].type, m.params[p])
          OBVIOUS
        <4>1. SlotOf(m, n, j) = p /\ Binding(m, a) = binding
          BY <1>10
        <4> QED
          BY <4>1 DEF SeenBy, a
      <3> QED
        BY <1>6, <3>1, <3>2, <3>3, LearnedAssigns
    <2> QED
      BY <2>1, <2>2, <2>3
  <1>12. KeywordError(r, a)
    <2> HIDE DEF n, binding, shape
    <2>1. \/ ~Shaped(shape, call, n)
          \/ \E j \in 1 .. n : ~IsAssignable(binding[j].type, PositionalType(r, n, j))
          \/ KeywordError(r, a)
      BY <1>2, <1>4, <1>5, ReportNeeds DEF a, n, shape
    <2> QED
      BY <1>9, <1>11, <2>1
  <1>13. KeywordMode(selected)
         /\ \E k \in DOMAIN call.named \intersect DOMAIN selected.keys : ~IsAssignable(call.named[k], r.keys[k].type)
    BY <1>3, <1>5, <1>12, AcceptedIs DEF a
  <1>14. PICK k \in DOMAIN call.named \intersect DOMAIN selected.keys : ~IsAssignable(call.named[k], r.keys[k].type)
    BY <1>13
  <1>15. ~IsUntyped(selected.keys[k].type)
    <2> SUFFICES ASSUME IsUntyped(selected.keys[k].type) PROVE IsAssignable(call.named[k], r.keys[k].type)
      BY <1>14
    <2>1. k \in DOMAIN m.keys /\ (k \in m.inferableKeys \/ IsUntyped(m.keys[k].type))
      BY <1>1
    <2>2. r.keys[k].type = OrUntyped(m.keys[k].type)
      BY <1>3, <2>1, SummaryIs DEF RefineUntypedWith
    <2>3. k \in m.inferableKeys => Covers(m.explicit, call.named[k], m.keys[k].type)
      BY DEF SeenBy
    <2>4. call.named[k] \in ValueTypes
      BY <1>7
    <2> QED
      BY <2>1, <2>2, <2>3, <2>4, LearnedAssigns
  <1>16. ~IsAssignable(call.named[k], selected.keys[k].type)
    BY <1>3, <1>14, <1>15 DEF RefineUntypedWith
  <1>17. KeywordError(selected, a)
    BY <1>13, <1>16, AcceptedIs DEF a
  <1> QED
    BY <1>17 DEF selected, a

-----------------------------------------------------------------------------
(* A reported call can fail. *)

\* A keyword rest is no reason to accept a keyword that has a type of its own.
KeywordsDecide ==
    \A s \in Sources : Len(s.contracts) > 1 =>
        \A i \in DOMAIN s.contracts : s.contracts[i].shape.keyrest =>
            \A k \in DOMAIN s.contracts[i].keys : IsUntyped(s.contracts[i].keys[k])

\* No overload fits every value the call may have.
CanFail(s, call) ==
    IF s.contracts # << >>
    THEN \A i \in DOMAIN s.contracts : \E g \in Concrete(call) : ~FitsContract(s.contracts[i], g)
    ELSE \E g \in Concrete(call) : ~Accepts(s.shape, g)

ReportsReal == \A c \in DOMAIN source.calls : verdicts[c].reported => CanFail(source, source.calls[c])

LEMMA OverloadRefuses ==
    ASSUME NEW s, s.contracts \in Seq(ContractSet), \A i \in DOMAIN s.contracts : Complete(s.contracts[i]),
           Len(s.contracts) > 1 =>
              \A i \in DOMAIN s.contracts : s.contracts[i].shape.keyrest =>
                  \A k \in DOMAIN s.contracts[i].keys : IsUntyped(s.contracts[i].keys[k]),
           NEW call \in CallSet, Plain(call), NEW i \in DOMAIN s.contracts,
           SignatureAcceptsArguments(Signature(s.contracts[i]), Arguments(call)),
           KeywordError(Signature(s.contracts[i]), Arguments(call)), NEW j \in DOMAIN s.contracts
    PROVE  \E g \in Concrete(call) : ~FitsContract(s.contracts[j], g)
  <1> DEFINE contract == s.contracts[i]
             o == Signature(contract)
  <1>1. contract \in ContractSet /\ Complete(contract)
    OBVIOUS
  <1>2. Len(s.contracts) \in Nat /\ DOMAIN s.contracts = 1 .. Len(s.contracts)
    OBVIOUS
  <1>3. \E g \in Concrete(call) : ~FitsContract(contract, g)
    BY <1>1, ContractRefuses
  <1>4. CASE Len(s.contracts) <= 1
    <2>1. i = j
      BY <1>2, <1>4
    <2> QED
      BY <1>3, <2>1
  <1>5. CASE Len(s.contracts) > 1
    <2>1. HasShape(o, contract.shape) /\ \A k \in DOMAIN contract.shape.keys : o.keys[k].type = contract.keys[k]
      BY <1>1, ContractShape, OverloadKeys
    <2>2. DOMAIN contract.keys = DOMAIN contract.shape.keys
      BY <1>1 DEF Complete
    <2>3. SignatureAcceptsArguments(o, Arguments(call)) /\ KeywordError(o, Arguments(call))
      OBVIOUS
    <2> HIDE DEF o
    <2>4. KeywordMode(o) /\ \E k \in DOMAIN call.named \intersect DOMAIN o.keys : ~IsAssignable(call.named[k], o.keys[k].type)
      BY <2>3, AcceptedIs
    <2>5. PICK k \in DOMAIN call.named \intersect DOMAIN o.keys : ~IsAssignable(call.named[k], o.keys[k].type)
      BY <2>4
    <2>6. o.keyrest
      BY <2>3, <2>4, <2>5, AcceptedIs
    <2>7. contract.shape.keyrest /\ k \in DOMAIN contract.keys /\ o.keys[k].type = contract.keys[k]
      BY <2>1, <2>2, <2>5, <2>6 DEF HasShape
    <2>8. IsUntyped(contract.keys[k])
      BY <1>5, <2>7
    <2> QED
      BY <2>5, <2>7, <2>8 DEF IsAssignable
  <1> QED
    BY <1>2, <1>4, <1>5

\* A transfer leaves a summary that has seen the call.
LEMMA AfterTransfer ==
    ASSUME Framed, Learned(source, state), SourcesAssumption, WrittenOut, Learnable, NEW c \in left, Transfer(c)
    PROVE  /\ Learned(source, state') /\ SeenBy(state', source.calls[c])
           /\ \A other \in CallSet : Plain(other) /\ SeenBy(state, other) => SeenBy(state', other)
           /\ SameFrame(state, state') /\ source' = source
           /\ c \in DOMAIN source.calls /\ source.calls[c] \in CallSet /\ Plain(source.calls[c])
  <1> DEFINE call == source.calls[c]
             after == ObserveCall(state, Arguments(call), call.own)
  <1>1. c \in DOMAIN source.calls /\ call \in CallSet /\ Plain(call)
    BY SourceFacts DEF Framed, WrittenOut
  <1>2. state' = after /\ source' = source
    BY TransferIs
  <1>3. IsState(state) /\ state.explicit \in BOOLEAN /\ (state.explicit <=> source.contracts # << >>)
    BY DEF Framed
  <1>4. source.contracts = << >> => Clear(source.shape, call)
    BY <1>1 DEF Learnable, Framed
  <1> HIDE DEF call
  <1>5. SameFrame(state, after)
    BY <1>3, ObserveIs
  <1>6. /\ Learned(source, after) /\ SeenBy(after, call)
        /\ \A other \in CallSet : Plain(other) /\ SeenBy(state, other) => SeenBy(after, other)
    BY <1>1, <1>3, <1>4, TransferLearns
  <1> HIDE DEF after
  <1> QED
    BY <1>1, <1>2, <1>5, <1>6 DEF call

LEMMA TransferReports ==
    ASSUME Framed, Learned(source, state), SourcesAssumption, WrittenOut, Learnable, KeywordsDecide,
           NEW c \in left, Transfer(c), verdicts'[c].reported
    PROVE  CanFail(source, source.calls[c])
  <1> DEFINE call == source.calls[c]
             a == Arguments(call)
             after == ObserveCall(state, a, call.own)
             chosen == SelectOverload(state.overloads, a)
             signature == SignatureFor(after, state.overloads, chosen)
  <1>1. /\ Learned(source, state') /\ SeenBy(state', call) /\ SameFrame(state, state')
        /\ c \in DOMAIN source.calls /\ call \in CallSet /\ Plain(call)
    BY AfterTransfer
  <1>2. state' = after
    BY TransferIs
  <1>3. Reports(signature, a, source.initializer)
    <2>1. verdicts' = [verdicts EXCEPT ![c] = [chosen |-> chosen, reported |-> Reports(signature, a, source.initializer)]]
      BY TransferIs
    <2> HIDE DEF chosen, signature, a
    <2>2. c \in DOMAIN verdicts
      BY <1>1 DEF Framed
    <2>3. verdicts'[c].reported = Reports(signature, a, source.initializer)
      BY <2>1, <2>2
    <2> QED
      BY <2>3
  <1> DEFINE m == state'
  <1>4. /\ Learned(source, m) /\ SeenBy(m, call) /\ m.overloads = state.overloads /\ m.explicit = state.explicit
        /\ signature = SignatureFor(m, m.overloads, chosen)
    BY <1>1, <1>2 DEF SameFrame
  <1>5. /\ source.contracts \in Seq(ContractSet) /\ source.shape \in ShapeSet
        /\ DOMAIN state.overloads = DOMAIN source.contracts /\ DOMAIN source.contracts \subseteq Nat \ {0}
        /\ \A i \in DOMAIN source.contracts : source.contracts[i] \in ContractSet
    BY SourceFacts
  <1>6. /\ chosen = 0 => \A i \in DOMAIN state.overloads : ~SignatureAcceptsArguments(state.overloads[i], a)
        /\ chosen # 0 => chosen \in DOMAIN state.overloads /\ SignatureAcceptsArguments(state.overloads[chosen], a)
    BY <1>1, ChoiceFacts
  <1> HIDE DEF m, signature, chosen, a, call
  <1>7. CASE source.contracts = << >>
    <2>1. chosen = 0
      <3>1. DOMAIN source.contracts = {}
        BY <1>7
      <3> QED
        BY <1>5, <1>6, <3>1
    <2>2. signature = CallSignature(m)
      BY <1>4, <2>1 DEF SignatureFor
    <2>3. Reports(CallSignature(m), Arguments(call), source.initializer)
      BY <1>3, <2>2 DEF a
    <2>4. \E g \in Concrete(call) : ~Accepts(source.shape, g)
      BY <1>1, <1>4, <1>5, <1>7, <2>3, InferredReport DEF call
    <2> QED
      BY <1>7, <2>4 DEF CanFail, call
  <1>8. CASE source.contracts # << >> /\ chosen = 0
    <2>1. ASSUME NEW i \in DOMAIN source.contracts
          PROVE  \E g \in Concrete(call) : ~FitsContract(source.contracts[i], g)
      <3>1. /\ source.contracts[i] \in ContractSet /\ Complete(source.contracts[i])
            /\ state.overloads[i] = Signature(source.contracts[i])
        BY OverloadFacts
      <3>2. ~SignatureAcceptsArguments(Signature(source.contracts[i]), Arguments(call))
        BY <1>5, <1>6, <1>8, <3>1 DEF a
      <3> QED
        BY <1>1, <3>1, <3>2, ContractRefuses DEF call
    <2> QED
      BY <1>8, <2>1 DEF CanFail, call
  <1>9. CASE source.contracts # << >> /\ chosen # 0
    <2>1. chosen \in DOMAIN source.contracts /\ chosen \in DOMAIN m.overloads /\ SignatureAcceptsArguments(m.overloads[chosen], a)
      BY <1>4, <1>5, <1>6, <1>9
    <2>2. /\ source.contracts[chosen].shape \in ShapeSet /\ IsSignature(m.overloads[chosen])
          /\ HasShape(m.overloads[chosen], source.contracts[chosen].shape)
          /\ m.overloads[chosen] = Signature(source.contracts[chosen])
      BY <1>4, <2>1, OverloadFacts
    <2>3. m.explicit = TRUE
      BY <1>4, <1>9 DEF Framed
    <2>4. Reports(RefineSelectedSignature(m, m.overloads[chosen]), Arguments(call), source.initializer)
      BY <1>3, <1>4, <1>9 DEF SignatureFor, a
    <2>5. DOMAIN source.contracts = 1 .. Len(source.contracts) /\ Len(source.contracts) \in Nat
      BY <1>5
    <2>6. KeywordError(m.overloads[chosen], a)
      BY <1>1, <1>4, <1>9, <2>1, <2>2, <2>3, <2>4, <2>5, ExplicitReport DEF a, call
    <2>7. \A i \in DOMAIN source.contracts : Complete(source.contracts[i])
      BY DEF WrittenOut, Framed
    <2>8. Len(source.contracts) > 1 =>
             \A i \in DOMAIN source.contracts : source.contracts[i].shape.keyrest =>
                 \A k \in DOMAIN source.contracts[i].keys : IsUntyped(source.contracts[i].keys[k])
      BY DEF KeywordsDecide, Framed
    <2>9. /\ SignatureAcceptsArguments(Signature(source.contracts[chosen]), Arguments(call))
          /\ KeywordError(Signature(source.contracts[chosen]), Arguments(call))
      BY <2>1, <2>2, <2>6 DEF a
    <2>10. \A j \in DOMAIN source.contracts : \E g \in Concrete(call) : ~FitsContract(source.contracts[j], g)
      BY <1>1, <1>5, <2>1, <2>7, <2>8, <2>9, OverloadRefuses DEF call
    <2> QED
      BY <1>9, <2>10 DEF CanFail, call
  <1> QED
    BY <1>7, <1>8, <1>9

Learning == Learned(source, state)

LEMMA LearningInit ==
    ASSUME Init, SourcesAssumption, WrittenOut, Learnable
    PROVE  Learning
  <1>1. source \in Sources /\ state = InitialState(source)
    BY DEF Init
  <1> QED
    BY <1>1, LearnedInit DEF Learning

LEMMA LearningNext ==
    ASSUME Framed, Learning, SourcesAssumption, WrittenOut, Learnable, [Next]_vars
    PROVE  Learning'
  <1>1. CASE UNCHANGED vars
    BY <1>1 DEF Learning, vars
  <1>2. ASSUME NEW c \in left, Transfer(c) PROVE Learning'
    BY <1>2, AfterTransfer DEF Learning
  <1>3. CASE NextRound
    BY <1>3 DEF NextRound, Learning
  <1>4. CASE Settle
    BY <1>4 DEF Settle, Learning
  <1> QED
    BY <1>1, <1>2, <1>3, <1>4 DEF Next

LEMMA ReportsNext ==
    ASSUME Framed, Learning, ReportsReal, SourcesAssumption, WrittenOut, Learnable, KeywordsDecide, [Next]_vars
    PROVE  ReportsReal'
  <1>1. CASE UNCHANGED vars
    BY <1>1 DEF ReportsReal, vars
  <1>2. ASSUME NEW c \in left, Transfer(c) PROVE ReportsReal'
    <2>1. verdicts'[c].reported => CanFail(source, source.calls[c])
      BY <1>2, TransferReports DEF Learning
    <2>2. source' = source
      BY <1>2, TransferIs
    <2>3. ASSUME NEW d \in DOMAIN source.calls, verdicts'[d].reported PROVE CanFail(source, source.calls[d])
      <3>1. CASE d = c
        BY <2>1, <2>3, <3>1
      <3>2. CASE d # c
        <4>1. d \in DOMAIN verdicts
          BY DEF Framed
        <4>2. PICK verdict : verdicts' = [verdicts EXCEPT ![c] = verdict]
          BY <1>2 DEF Transfer
        <4>3. verdicts'[d] = verdicts[d]
          BY <3>2, <4>1, <4>2
        <4> QED
          BY <2>3, <4>3 DEF ReportsReal
      <3> QED
        BY <3>1, <3>2
    <2> QED
      BY <2>2, <2>3 DEF ReportsReal
  <1>3. CASE NextRound
    BY <1>3 DEF NextRound, ReportsReal
  <1>4. CASE Settle
    BY <1>4 DEF Settle, ReportsReal
  <1> QED
    BY <1>1, <1>2, <1>3, <1>4 DEF Next

LEMMA ReportsMean == ASSUME Framed, ReportsReal PROVE ErrorsAreReal
  <1> SUFFICES ASSUME NEW c \in DOMAIN source.calls, verdicts[c].reported
               PROVE  IF state.explicit
                      THEN \A contract \in ToSet(source.contracts) :
                              \E call \in Concrete(source.calls[c]) : ~FitsContract(contract, call)
                      ELSE \E call \in Concrete(source.calls[c]) : ~Accepts(source.shape, call)
    BY DEF ErrorsAreReal
  <1>1. CanFail(source, source.calls[c])
    BY DEF ReportsReal
  <1>2. state.explicit <=> source.contracts # << >>
    BY DEF Framed
  <1> QED
    BY <1>1, <1>2 DEF CanFail, ToSet

(* A reported call can fail: no overload of a method with contracts, and no method without, takes every value
   its arguments may have. What the calls before it showed of the parameters (observe_arguments,
   observe_keyword, refine_selected_signature) never makes an error of a call that Ruby accepts. *)
THEOREM ReportsCanFail == ASSUME WrittenOut, Learnable, KeywordsDecide PROVE Spec => []ErrorsAreReal
  <1>1. Init => Framed /\ Learning /\ ReportsReal
    <2>1. Init => ReportsReal
      BY DEF Init, ReportsReal
    <2> QED
      BY <2>1, SourcesAssumption, FramedInit, LearningInit
  <1>2. Framed /\ Learning /\ ReportsReal /\ [Next]_vars => (Framed /\ Learning /\ ReportsReal)'
    BY SourcesAssumption, FramedNext, LearningNext, ReportsNext
  <1>3. Framed /\ Learning /\ ReportsReal => ErrorsAreReal
    BY ReportsMean
  <1> QED
    BY <1>1, <1>2, <1>3, PTL DEF Spec

-----------------------------------------------------------------------------
(* A quiet summary says what the calls pass. *)

\* The call passes the class to the parameter.
Shows(m, call, p, class) ==
    LET binding == Binding(m, Arguments(call))
    IN \E i \in 1 .. Len(binding) : SlotOf(m, Len(binding), i) = p /\ class \in binding[i].type

\* What was learned comes from some call.
Traced ==
    ~state.explicit => \A p \in DOMAIN state.params : \A class \in state.params[p] :
        \E c \in DOMAIN source.calls : Shows(state, source.calls[c], p, class)

\* The calls the round has been at are seen, and all have been when it is quiet.
Rounds ==
    /\ changed \in BOOLEAN /\ settled \in BOOLEAN
    /\ settled => left = {} /\ ~changed
    /\ \A c \in DOMAIN source.calls \ left : SeenBy(state, source.calls[c])

\* No inferred method has both optional and trailing parameters.
ShapesKept == \A s \in Sources : s.contracts = << >> => OrderKept(s.shape)

LEMMA RoundsInit == ASSUME Init PROVE Rounds
BY DEF Init, Rounds

LEMMA TracedInit == ASSUME Init, SourcesAssumption PROVE Traced
  <1>1. source \in Sources /\ state = InitialState(source)
    BY DEF Init
  <1>2. source.shape \in ShapeSet
    BY <1>1 DEF SourcesAssumption
  <1>3. CASE source.contracts = << >>
    <2>1. \A p \in DOMAIN state.params : state.params[p] = {}
      BY <1>1, <1>2, <1>3, InferredLearned
    <2> QED
      BY <2>1 DEF Traced
  <1>4. CASE source.contracts # << >>
    <2>1. state.explicit
      BY <1>1, <1>4, InitialIs
    <2> QED
      BY <2>1 DEF Traced
  <1> QED
    BY <1>3, <1>4

LEMMA RoundsNext ==
    ASSUME Framed, Learning, Rounds, SourcesAssumption, WrittenOut, Learnable, [Next]_vars
    PROVE  Rounds'
  <1>1. CASE UNCHANGED vars
    BY <1>1 DEF Rounds, vars
  <1>2. ASSUME NEW c \in left, Transfer(c) PROVE Rounds'
    <2>1. /\ SeenBy(state', source.calls[c]) /\ source' = source
          /\ \A other \in CallSet : Plain(other) /\ SeenBy(state, other) => SeenBy(state', other)
      BY <1>2, AfterTransfer DEF Learning
    <2>2. left' = left \ {c} /\ settled' = settled /\ changed' \in BOOLEAN
      BY <1>2 DEF Transfer, Rounds
    <2>3. ~settled
      BY <1>2 DEF Rounds
    <2>4. \A d \in DOMAIN source.calls : source.calls[d] \in CallSet /\ Plain(source.calls[d])
      BY SourceFacts DEF Framed, WrittenOut
    <2>5. ASSUME NEW d \in DOMAIN source.calls \ left' PROVE SeenBy(state', source.calls[d])
      <3>1. CASE d = c
        BY <2>1, <3>1
      <3>2. CASE d # c
        <4>1. SeenBy(state, source.calls[d])
          BY <2>2, <3>2 DEF Rounds
        <4> QED
          BY <2>1, <2>4, <4>1
      <3> QED
        BY <3>1, <3>2
    <2> QED
      BY <2>1, <2>2, <2>3, <2>5 DEF Rounds
  <1>3. CASE NextRound
    BY <1>3 DEF NextRound, Rounds
  <1>4. CASE Settle
    BY <1>4 DEF Settle, Rounds
  <1> QED
    BY <1>1, <1>2, <1>3, <1>4 DEF Next

LEMMA TracedNext ==
    ASSUME Framed, Learning, Traced, SourcesAssumption, WrittenOut, Learnable, [Next]_vars
    PROVE  Traced'
  <1>1. CASE UNCHANGED vars
    BY <1>1 DEF Traced, vars
  <1>2. ASSUME NEW c \in left, Transfer(c) PROVE Traced'
    <2> DEFINE call == source.calls[c]
               a == Arguments(call)
               after == ObserveCall(state, a, call.own)
    <2>1. /\ Learned(source, state') /\ SameFrame(state, state') /\ source' = source
          /\ c \in DOMAIN source.calls /\ call \in CallSet /\ Plain(call)
      BY <1>2, AfterTransfer DEF Learning
    <2>2. state' = after /\ IsState(state) /\ state.explicit \in BOOLEAN /\ Learned(source, state)
      BY <1>2, TransferIs DEF Framed, Learning
    <2>3. DOMAIN state'.params = DOMAIN state.params /\ state'.explicit = state.explicit
      BY <2>1 DEF SameFrame
    <2>4. \A d, p, class : Shows(state, source.calls[d], p, class) => Shows(state', source.calls[d], p, class)
      <3>1. state.params \in Seq(Types) /\ state'.params \in Seq(Types)
        BY <2>1, <2>2 DEF Learned
      <3>2. /\ \A arguments : Binding(state', arguments) = Binding(state, arguments)
            /\ \A size, i : SlotOf(state', size, i) = SlotOf(state, size, i)
        BY <2>1, <3>1, FrameKept
      <3> QED
        BY <3>2 DEF Shows
    <2>5. ASSUME ~state.explicit, NEW p \in DOMAIN state.params, NEW class \in state'.params[p]
          PROVE  class \in state.params[p] \/ Shows(state, call, p, class)
      <3>1. CASE Observes(state, a, call.own)
        <4>1. \A q \in DOMAIN state.params : \A k \in after.params[q] :
                 \/ k \in state.params[q]
                 \/ LET binding == Binding(state, a)
                    IN \E i \in 1 .. Len(binding) : SlotOf(state, Len(binding), i) = q /\ k \in binding[i].type
          BY <2>1, <2>2, <2>5, <3>1, ObserveLearns
        <4> HIDE DEF after
        <4> QED
          BY <2>2, <2>5, <4>1 DEF Shows
      <3>2. CASE ~Observes(state, a, call.own)
        <4>1. state' = state
          BY <2>2, <3>2 DEF ObserveCall
        <4> QED
          BY <2>5, <4>1
      <3> QED
        BY <3>1, <3>2
    <2> HIDE DEF a, after
    <2>6. ASSUME ~state.explicit, NEW p \in DOMAIN state.params, NEW class \in state'.params[p]
          PROVE  \E d \in DOMAIN source.calls : Shows(state', source.calls[d], p, class)
      <3>1. \E d \in DOMAIN source.calls : Shows(state, source.calls[d], p, class)
        BY <2>1, <2>5, <2>6 DEF Traced
      <3> QED
        BY <2>4, <3>1
    <2> QED
      BY <2>1, <2>3, <2>6 DEF Traced
  <1>3. CASE NextRound
    BY <1>3 DEF NextRound, Traced
  <1>4. CASE Settle
    BY <1>4 DEF Settle, Traced
  <1> QED
    BY <1>1, <1>2, <1>3, <1>4 DEF Next

\* What was seen covers what Ruby hands over.
LEMMA CoveredFor ==
    ASSUME NEW m, NEW shape \in ShapeSet, HasShape(m, shape), OrderKept(shape),
           NEW call \in CallSet, Plain(call), SeenBy(m, call), NEW g \in Concrete(call), Accepts(shape, g)
    PROVE  /\ \A p \in m.inferable : \A class \in BoundTo(shape, g, p) : Holds(OrUntyped(m.params[p]), class)
           /\ \A k \in DOMAIN Given(shape, g).keywords \intersect m.inferableKeys :
                 Holds(OrUntyped(m.keys[k].type), g.keywords[k])
  <1> DEFINE binding == Binding(m, Arguments(call))
             n == Len(binding)
             given == Given(shape, g).positional
  <1>1. Shaped(shape, call, n)
    BY AcceptsShaped
  <1>2. binding \in Seq(Shown) /\ n \in Nat /\ \A i \in 1 .. n : binding[i].type \in ValueTypes
    BY BindingShown
  <1>3. /\ given \in Seq(Universe) /\ Len(given) = n /\ DOMAIN given = 1 .. n
        /\ \A i \in 1 .. n : given[i] \in binding[i].type
    <2>1. Fits(binding, given)
      BY GivenFits
    <2> HIDE DEF binding, given
    <2> QED
      BY <2>1, <1>2 DEF Fits
  <1>4. ASSUME NEW p \in m.inferable, NEW class \in BoundTo(shape, g, p)
        PROVE  Holds(OrUntyped(m.params[p]), class)
    <2>1. PICK i \in 1 .. n : ParameterOf(shape, n, i) = p /\ given[i] = class
      BY <1>3 DEF BoundTo
    <2>2. SlotOf(m, n, i) = p
      <3>1. Least(shape) <= n /\ (shape.rest \/ n <= Fixed(shape))
        BY <1>1 DEF Shaped
      <3> HIDE DEF n
      <3>2. SlotOf(m, n, i) = ParameterOf(shape, n, i)
        BY <1>2, <3>1, SlotIsParameter
      <3> QED
        BY <2>1, <3>2
    <2>3. Covers(m.explicit, binding[i].type, m.params[p])
      BY <2>2 DEF SeenBy
    <2> QED
      BY <1>2, <1>3, <2>1, <2>3, CoversAssigns
  <1>5. ASSUME NEW k \in DOMAIN Given(shape, g).keywords \intersect m.inferableKeys
        PROVE  Holds(OrUntyped(m.keys[k].type), g.keywords[k])
    <2>1. k \in DOMAIN call.named /\ g.keywords[k] \in call.named[k]
      BY GivenFits DEF Named
    <2>2. Covers(m.explicit, call.named[k], m.keys[k].type)
      BY <2>1 DEF SeenBy
    <2>3. call.named[k] \in ValueTypes
      BY <2>1, NamedTypes
    <2> QED
      BY <2>1, <2>2, <2>3, CoversAssigns
  <1> QED
    BY <1>4, <1>5

LEMMA TypesKept == ASSUME Framed, ChosenAccepts, Learning, Rounds, SourcesAssumption PROVE TypeOK
  <1>1. DOMAIN state.overloads = 1 .. Len(state.overloads) /\ Len(state.overloads) \in Nat
    BY SourceFacts DEF Framed
  <1>2. \A c \in DOMAIN source.calls : verdicts[c].chosen \in 0 .. Len(state.overloads)
    BY <1>1 DEF ChosenAccepts
  <1> QED
    BY <1>2 DEF TypeOK, Framed, Learning, Learned, Rounds

LEMMA LearnedIs ==
    ASSUME NEW learned \in LearnedAs
    PROVE  /\ ~state.explicit => learned[1] = source.shape /\ learned[2] = DOMAIN state.params
           /\ state.explicit => \E c \in ToSet(source.contracts) :
                                   learned[1] = c.shape /\ learned[2] \subseteq state.inferable
  <1>1. \A a, b : << a, b >>[1] = a /\ << a, b >>[2] = b
    OBVIOUS
  <1>2. CASE ~state.explicit
    <2>1. learned = << source.shape, DOMAIN state.params >>
      BY <1>2 DEF LearnedAs
    <2> QED
      BY <1>1, <1>2, <2>1
  <1>3. CASE state.explicit
    <2> DEFINE untyped(c) == {p \in state.inferable \intersect DOMAIN c.types : IsUntyped(c.types[p])}
    <2>1. PICK c \in ToSet(source.contracts) : learned = << c.shape, untyped(c) >>
      BY <1>3 DEF LearnedAs
    <2>2. untyped(c) \subseteq state.inferable
      OBVIOUS
    <2> HIDE DEF untyped
    <2>3. learned[1] = c.shape /\ learned[2] = untyped(c)
      BY <1>1, <2>1
    <2> QED
      BY <1>3, <2>2, <2>3
  <1> QED
    BY <1>2, <1>3

LEMMA AllCovered ==
    ASSUME Framed, Learning, Rounds, SourcesAssumption, WrittenOut, ShapesKept
    PROVE  ParametersCovered
  <1> SUFFICES ASSUME settled, NEW learned \in LearnedAs, NEW c \in DOMAIN source.calls,
                      NEW g \in Concrete(source.calls[c]), Accepts(learned[1], g)
               PROVE  /\ \A p \in learned[2] : \A class \in BoundTo(learned[1], g, p) :
                            Holds(OrUntyped(state.params[p]), class)
                      /\ \A k \in DOMAIN Given(learned[1], g).keywords \intersect state.inferableKeys :
                            Holds(OrUntyped(state.keys[k].type), g.keywords[k])
    BY DEF ParametersCovered
  <1>1. SeenBy(state, source.calls[c])
    BY DEF Rounds
  <1>2. source.calls[c] \in CallSet /\ Plain(source.calls[c])
    BY SourceFacts DEF WrittenOut, Framed
  <1>3. learned[2] \subseteq state.inferable
    BY LearnedIs DEF Learning, Learned, Framed
  <1>4. ASSUME state.inferable # {} \/ state.inferableKeys # {}
        PROVE  learned[1] \in ShapeSet /\ HasShape(state, learned[1]) /\ OrderKept(learned[1])
    <2>1. CASE source.contracts = << >>
      <3>1. learned[1] = source.shape
        BY <2>1, LearnedIs DEF Framed
      <3>2. HasShape(state, source.shape)
        BY <2>1 DEF Learning, Learned
      <3>3. OrderKept(source.shape)
        BY <2>1 DEF ShapesKept, Framed
      <3> QED
        BY <3>1, <3>2, <3>3, SourceFacts
    <2>2. CASE source.contracts # << >>
      <3>1. Len(source.contracts) = 1 /\ HasShape(state, source.contracts[1].shape)
        BY <1>4, <2>2 DEF Learning, Learned
      <3>2. source.contracts \in Seq(ContractSet)
        BY SourceFacts
      <3>3. ToSet(source.contracts) = {source.contracts[1]} /\ 1 \in DOMAIN source.contracts
        BY <3>1, <3>2 DEF ToSet
      <3>4. learned[1] = source.contracts[1].shape
        BY <2>2, <3>3, LearnedIs DEF Framed
      <3>5. OrderKept(source.contracts[1].shape)
        BY <3>3 DEF WrittenOut, Framed, Complete
      <3>6. source.contracts[1].shape \in ShapeSet
        BY <3>2, <3>3, ContractFacts
      <3> QED
        BY <3>1, <3>4, <3>5, <3>6
    <2> QED
      BY <2>1, <2>2
  <1> QED
    BY <1>1, <1>2, <1>3, <1>4, CoveredFor

\* What a call shows of a parameter it may pass.
LEMMA ShownPassed ==
    ASSUME NEW m, NEW shape \in ShapeSet, HasShape(m, shape), OrderKept(shape),
           NEW call \in CallSet, Plain(call), \A g \in Concrete(call) : Accepts(shape, g),
           NEW p, NEW class, Shows(m, call, p, class)
    PROVE  \E g \in Concrete(call) : class \in BoundTo(shape, g, p)
  <1> DEFINE binding == Binding(m, Arguments(call))
             n == Len(binding)
  <1>1. PICK i \in 1 .. n : SlotOf(m, n, i) = p /\ class \in binding[i].type
    BY DEF Shows
  <1>2. binding \in Seq(Shown) /\ n \in Nat
    BY BindingShown
  <1>3. PICK v : Fits(binding, v) /\ v[i] = class
    BY <1>1, <1>2, SomeValues
  <1>4. PICK w : Named(call, w)
    BY SomeKeywords
  <1>5. PICK g \in Concrete(call) : Given(shape, g).positional = v
    BY <1>3, <1>4, AllGiven
  <1>6. Least(shape) <= n /\ (shape.rest \/ n <= Fixed(shape))
    BY <1>5, AcceptsShaped DEF Shaped
  <1>7. Len(v) = n /\ DOMAIN v = 1 .. n
    <2> HIDE DEF binding
    <2> QED
      BY <1>3, <1>2 DEF Fits
  <1>8. ParameterOf(shape, n, i) = p
    <2> HIDE DEF n
    <2>1. SlotOf(m, n, i) = ParameterOf(shape, n, i)
      BY <1>2, <1>6, SlotIsParameter
    <2> QED
      BY <1>1, <2>1
  <1>9. class \in BoundTo(shape, g, p)
    BY <1>3, <1>5, <1>7, <1>8 DEF BoundTo
  <1> QED
    BY <1>5, <1>9

LEMMA AllJustified ==
    ASSUME Framed, Learning, Traced, SourcesAssumption, WrittenOut, ShapesKept
    PROVE  EvidenceJustified
  <1> SUFFICES ASSUME ~state.explicit,
                      \A c \in DOMAIN source.calls : \A g \in Concrete(source.calls[c]) : Accepts(source.shape, g),
                      NEW p \in DOMAIN state.params, NEW class \in state.params[p]
               PROVE  \E c \in DOMAIN source.calls : \E g \in Concrete(source.calls[c]) :
                          class \in BoundTo(source.shape, g, p)
    BY DEF EvidenceJustified
  <1>1. PICK c \in DOMAIN source.calls : Shows(state, source.calls[c], p, class)
    BY DEF Traced
  <1>2. source.calls[c] \in CallSet /\ Plain(source.calls[c])
    BY SourceFacts DEF WrittenOut, Framed
  <1>3. source.contracts = << >> /\ source.shape \in ShapeSet
    BY SourceFacts DEF Framed
  <1>4. HasShape(state, source.shape) /\ OrderKept(source.shape)
    BY <1>3 DEF Learning, Learned, ShapesKept, Framed
  <1> QED
    BY <1>1, <1>2, <1>3, <1>4, ShownPassed

(* Once the rounds are quiet a summary says what the calls pass: every typed value Ruby may bind to a learned
   parameter or keyword is of its type, in whatever order the calls were transferred, and an inferred parameter
   has no class that no call passes there (observe_arguments, observe_keyword, combine_observed_type). *)
THEOREM EvidenceIsExact == ASSUME WrittenOut, Learnable, ShapesKept PROVE Spec => []EvidenceExact
  <1> DEFINE IInv == Framed /\ ChosenAccepts /\ Learning /\ Rounds /\ Traced
  <1>1. Init => IInv
    BY SourcesAssumption, FramedInit, AcceptsInit, LearningInit, RoundsInit, TracedInit
  <1>2. IInv /\ [Next]_vars => IInv'
    BY SourcesAssumption, FramedNext, AcceptsNext, LearningNext, RoundsNext, TracedNext
  <1>3. IInv => EvidenceExact
    BY SourcesAssumption, TypesKept, AllCovered, AllJustified DEF EvidenceExact
  <1> QED
    BY <1>1, <1>2, <1>3, PTL DEF Spec

-----------------------------------------------------------------------------
(* The expression every value of a parameter comes from. *)

LEMMA AliasObserved ==
    ASSUME NEW alias, NEW seen, IsFiniteSet(seen), "unseen" \notin seen
    PROVE  LET after == ObserveParameterAlias(alias, seen)
           IN  /\ \A a \in seen : after \in {NoAlias, a}
               /\ alias # "unseen" => after \in {NoAlias, alias}
  <1>1. Cardinality(seen) = 1 <=> \E a : seen = {a}
    BY FS_Singleton
  <1>2. CASE seen = {}
    BY <1>2 DEF ObserveParameterAlias
  <1>3. CASE seen # {} /\ alias = "unseen"
    <2>1. CASE Cardinality(seen) = 1
      <3>1. PICK a : seen = {a}
        BY <1>1, <2>1
      <3>2. ObserveParameterAlias(alias, seen) = a
        BY <1>3, <2>1, <3>1 DEF ObserveParameterAlias
      <3> QED
        BY <1>3, <3>1, <3>2
    <2>2. CASE Cardinality(seen) # 1
      <3>1. ObserveParameterAlias(alias, seen) = NoAlias
        BY <1>3, <2>2 DEF ObserveParameterAlias
      <3> QED
        BY <3>1
    <2> QED
      BY <2>1, <2>2
  <1>4. CASE seen # {} /\ alias # "unseen"
    BY <1>4 DEF ObserveParameterAlias
  <1> QED
    BY <1>2, <1>3, <1>4

\* A learned parameter has the alias of the argument the call passes, or none.
Aliased(m, call) ==
    LET binding == Binding(m, Arguments(call))
        n == Len(binding)
    IN \A i \in 1 .. n : SlotOf(m, n, i) \in m.inferable =>
           m.aliases[SlotOf(m, n, i)] \in {NoAlias, binding[i].alias}

\* Every argument says where its value comes from.
Written(call) == \A i \in DOMAIN call.args : call.args[i].kind = "value"

LEMMA WrittenIs ==
    ASSUME NEW call \in CallSet, Written(call)
    PROVE  /\ Len(call.args) \in Nat /\ DOMAIN call.args = 1 .. Len(call.args)
           /\ Len(Explicit(call)) = Len(call.args)
           /\ \A i \in 1 .. Len(call.args) :
                 Explicit(call)[i] = Argument(call.args[i].type, call.args[i].alias) /\ call.args[i].alias # "unseen"
  <1> DEFINE args == call.args
             n == Len(args)
             pieces == [i \in DOMAIN args |-> Elements(args[i])]
             Shows1(i) == Argument(args[i].type, args[i].alias)
  <1>1. args \in Seq(ArgumentSet) /\ n \in Nat /\ DOMAIN args = 1 .. n
    BY DEF CallSet
  <1>2. \A i \in 1 .. n : args[i] \in ArgumentSet /\ args[i].kind = "value"
    BY <1>1 DEF Written
  <1>3. \A i \in 1 .. n : args[i].type \in ValueTypes /\ args[i].alias \in STRING \ {"unseen"}
    BY <1>2 DEF ArgumentSet, UnknownArgument
  <1>4. \A i \in 1 .. n : pieces[i] = << Shows1(i) >> /\ Shows1(i) \in Shown
    BY <1>1, <1>2, <1>3 DEF Elements, Argument, Shown
  <1> HIDE DEF Shows1
  <1>5. pieces \in Seq(Seq(Shown)) /\ Len(pieces) = n
    <2>1. \A i \in 1 .. n : pieces[i] \in Seq(Shown)
      <3>1. \A x \in Shown : << x >> \in Seq(Shown)
        OBVIOUS
      <3> HIDE DEF pieces, n
      <3> QED
        BY <1>4, <3>1
    <2>2. pieces \in [1 .. n -> Seq(Shown)]
      BY <1>1, <2>1
    <2> HIDE DEF pieces, n
    <2> QED
      BY <1>1, <2>2
  <1>6. Explicit(call) = FlattenSeq(pieces)
    BY DEF Explicit
  <1> HIDE DEF pieces, n
  <1>7. PICK flat \in [0 .. n -> Seq(Shown)] : IsPrefixes(flat, pieces)
    BY <1>5, Flattened
  <1>8. flat[0] = << >> /\ (\A i \in 1 .. n : flat[i] = Append(flat[i - 1], Shows1(i))) /\ Explicit(call) = flat[n]
    <2>1. ASSUME NEW i \in 1 .. n PROVE flat[i] = Append(flat[i - 1], Shows1(i))
      <3>1. flat[i] = flat[i - 1] \o pieces[i] /\ pieces[i] = << Shows1(i) >> /\ i - 1 \in 0 .. n
        <4>1. flat[i] = flat[i - 1] \o pieces[i]
          BY <1>5, <1>7 DEF IsPrefixes
        <4> QED
          BY <1>1, <1>4, <4>1
      <3>2. flat[i - 1] \in Seq(Shown)
        BY <1>7, <3>1
      <3> QED
        BY <1>4, <3>1, <3>2
    <2> QED
      BY <1>5, <1>6, <1>7, <2>1 DEF IsPrefixes
  <1>9. \A m \in 0 .. n : Len(flat[m]) = m /\ \A i \in 1 .. m : flat[m][i] = Shows1(i)
    <2> DEFINE Upto(m) == Len(flat[m]) = m /\ \A i \in 1 .. m : flat[m][i] = Shows1(i)
               Bad == {m \in 0 .. n : ~Upto(m)}
    <2>1. SUFFICES ASSUME Bad # {} PROVE FALSE
      OBVIOUS
    <2>2. PICK m \in Bad : \A k \in Bad : m <= k
      <3>1. Bad \subseteq Nat
        BY <1>1
      <3> HIDE DEF Bad
      <3> QED
        BY <2>1, <3>1, LeastNumber
    <2>3. Upto(0)
      BY <1>8
    <2>4. m \in 1 .. n /\ m - 1 \in 0 .. n /\ Upto(m - 1)
      <3> HIDE DEF Upto
      <3> QED
        BY <1>1, <2>2, <2>3
    <2>5. flat[m - 1] \in Seq(Shown) /\ flat[m] = Append(flat[m - 1], Shows1(m)) /\ Shows1(m) \in Shown
      BY <1>4, <1>7, <1>8, <2>4
    <2>6. Upto(m)
      BY <1>1, <2>4, <2>5
    <2> QED
      BY <2>2, <2>6
  <1>10. Len(Explicit(call)) = n /\ \A i \in 1 .. n : Explicit(call)[i] = Shows1(i)
    <2>1. n \in 0 .. n
      BY <1>1
    <2> QED
      BY <1>8, <1>9, <2>1
  <1> QED
    BY <1>1, <1>3, <1>10 DEF n, Shows1

\* The arguments for a method without keywords, or for one with them when the call names none.
LEMMA WrittenBinding ==
    ASSUME NEW call \in CallSet, Plain(call), Written(call), NEW m, DOMAIN call.named = {} \/ ~KeywordMode(m)
    PROVE  LET binding == Binding(m, Arguments(call))
           IN  /\ binding = Arguments(call).all
               /\ \A i \in 1 .. Len(binding) :
                    /\ binding[i].alias # "unseen"
                    /\ binding[i].alias # NoAlias =>
                          i \in DOMAIN call.args /\ call.args[i].kind = "value" /\ call.args[i].alias = binding[i].alias
  <1> DEFINE binding == Binding(m, Arguments(call))
             n == Len(call.args)
  <1>1. /\ n \in Nat /\ DOMAIN call.args = 1 .. n /\ Len(Explicit(call)) = n
        /\ \A i \in 1 .. n : Explicit(call)[i].alias = call.args[i].alias /\ call.args[i].alias # "unseen"
    <2>1. /\ n \in Nat /\ DOMAIN call.args = 1 .. n /\ Len(Explicit(call)) = n
          /\ \A i \in 1 .. n : /\ Explicit(call)[i] = Argument(call.args[i].type, call.args[i].alias)
                             /\ call.args[i].alias # "unseen"
      BY WrittenIs
    <2> HIDE DEF n
    <2> QED
      BY <2>1 DEF Argument
  <1>2. Explicit(call) \in Seq(Shown) /\ KeywordHash \in Shown
    BY ExplicitFits, HashShown
  <1>3. binding = Arguments(call).all
    BY ArgumentsAre DEF Binding
  <1>4. binding = Explicit(call) \/ binding = Append(Explicit(call), KeywordHash)
    BY BindingShown
  <1>5. ASSUME NEW i \in 1 .. Len(binding)
        PROVE  \/ binding[i].alias = NoAlias
               \/ i \in 1 .. n /\ binding[i].alias = call.args[i].alias
    <2>1. CASE binding = Explicit(call)
      BY <1>1, <2>1
    <2>2. CASE binding = Append(Explicit(call), KeywordHash)
      <3> HIDE DEF binding
      <3>1. i \in 1 .. n + 1
        BY <1>1, <1>2, <2>2
      <3>2. CASE i = n + 1
        <4>1. binding[i] = KeywordHash
          BY <1>1, <1>2, <2>2, <3>2
        <4> QED
          BY <4>1 DEF KeywordHash
      <3>3. CASE i # n + 1
        <4>1. i \in 1 .. n
          BY <1>1, <3>1, <3>3
        <4>2. binding[i] = Explicit(call)[i]
          BY <1>1, <1>2, <2>2, <4>1
        <4> QED
          BY <1>1, <4>1, <4>2
      <3> QED
        BY <3>2, <3>3
    <2> QED
      BY <1>4, <2>1, <2>2
  <1>6. NoAlias # "unseen"
    BY DEF NoAlias
  <1>7. \A i \in 1 .. n : call.args[i].kind = "value"
    BY <1>1 DEF Written
  <1> HIDE DEF binding
  <1>8. ASSUME NEW i \in 1 .. Len(binding)
        PROVE  /\ binding[i].alias # "unseen"
               /\ binding[i].alias # NoAlias =>
                     i \in DOMAIN call.args /\ call.args[i].kind = "value" /\ call.args[i].alias = binding[i].alias
    BY <1>1, <1>5, <1>6, <1>7
  <1> QED
    BY <1>3, <1>8 DEF binding

LEMMA AliasesObserved ==
    ASSUME NEW m, m.inferable \subseteq DOMAIN m.aliases, NEW actuals \in Seq(Shown),
           \A i \in 1 .. Len(actuals) : actuals[i].alias # "unseen"
    PROVE  LET after == ObserveParameterAliases(m, actuals)
               n == Len(actuals)
           IN  /\ \A p \in DOMAIN m.aliases : p \notin m.inferable => after[p] = m.aliases[p]
               /\ \A i \in 1 .. n : SlotOf(m, n, i) \in m.inferable =>
                     after[SlotOf(m, n, i)] \in {NoAlias, actuals[i].alias}
               /\ \A p \in m.inferable : m.aliases[p] # "unseen" => after[p] \in {NoAlias, m.aliases[p]}
  <1> DEFINE n == Len(actuals)
             after == ObserveParameterAliases(m, actuals)
             Sent(slot) == {actuals[i].alias : i \in {j \in 1 .. n : SlotOf(m, n, j) = slot}}
             To(slot) == Sent(slot) \union (IF m.rest = 0 /\ slot > n THEN {NoAlias} ELSE {})
  <1>1. n \in Nat
    OBVIOUS
  <1>2. after = [slot \in DOMAIN m.aliases |->
                    IF slot \notin m.inferable THEN m.aliases[slot]
                    ELSE ObserveParameterAlias(m.aliases[slot], To(slot))]
    BY DEF ObserveParameterAliases
  <1>3. ASSUME NEW slot PROVE IsFiniteSet(To(slot)) /\ "unseen" \notin To(slot)
    <2> DEFINE from == {j \in 1 .. n : SlotOf(m, n, j) = slot}
               f == [i \in from |-> actuals[i].alias]
    <2>1. IsFiniteSet(from)
      <3>1. IsFiniteSet(1 .. n) /\ from \in SUBSET (1 .. n)
        BY <1>1, FS_Interval
      <3> HIDE DEF from
      <3> QED
        BY <3>1, FS_Subset
    <2>2. f \in Surjection(from, Sent(slot))
      BY DEF Surjection
    <2>3. IsFiniteSet(Sent(slot))
      <3> HIDE DEF from, f, Sent
      <3> QED
        BY <2>1, <2>2, FS_Surjection
    <2>4. IsFiniteSet({NoAlias}) /\ IsFiniteSet({})
      BY FS_Singleton, FS_EmptySet
    <2>5. IsFiniteSet(To(slot))
      <3> HIDE DEF Sent
      <3> QED
        BY <2>3, <2>4, FS_Union
    <2>6. "unseen" \notin To(slot)
      BY DEF NoAlias
    <2> QED
      BY <2>5, <2>6
  <1> HIDE DEF after
  <1>4. ASSUME NEW p \in m.inferable
        PROVE  /\ \A a \in To(p) : after[p] \in {NoAlias, a}
               /\ m.aliases[p] # "unseen" => after[p] \in {NoAlias, m.aliases[p]}
    <2>1. after[p] = ObserveParameterAlias(m.aliases[p], To(p))
      BY <1>2
    <2> HIDE DEF To
    <2> QED
      BY <1>3, <2>1, AliasObserved
  <1>5. ASSUME NEW i \in 1 .. n, SlotOf(m, n, i) \in m.inferable
        PROVE  after[SlotOf(m, n, i)] \in {NoAlias, actuals[i].alias}
    <2>1. actuals[i].alias \in To(SlotOf(m, n, i))
      OBVIOUS
    <2> HIDE DEF To
    <2> QED
      BY <1>4, <1>5, <2>1
  <1>6. \A p \in DOMAIN m.aliases : p \notin m.inferable => after[p] = m.aliases[p]
    BY <1>2
  <1> HIDE DEF To, Sent
  <1> QED
    BY <1>4, <1>5, <1>6 DEF after

\* The summary observes the call, and all of its arguments are parameters' values.
Traceable(shape, call) ==
    /\ Written(call) /\ (DOMAIN call.named = {} \/ ~TakesKeywords(shape))
    /\ call.own => \A t \in Evidence(shape, call) : ~IsUntyped(t)

\* No keywords beside the arguments of a method that learns, and no untyped call of a method by itself.
AliasesPassed ==
    \A s \in Sources : s.contracts = << >> \/ s.inferUntyped =>
        /\ s.contracts # << >> => s.shape = s.contracts[1].shape
        /\ \A c \in DOMAIN s.calls : Traceable(s.shape, s.calls[c])

LEMMA AliasesFrozen ==
    ASSUME NEW m, IsState(m), NEW arguments, NEW own, NEW p \in DOMAIN m.aliases, p \notin m.inferable
    PROVE  ObserveCall(m, arguments, own).aliases[p] = m.aliases[p]
  <1> DEFINE n == ObserveCall(m, arguments, own)
             binding == Binding(m, arguments)
  <1>1. n = m \/ n.aliases = m.aliases \/ n.aliases = ObserveParameterAliases(m, binding)
    BY ObserveIs
  <1>2. ObserveParameterAliases(m, binding)[p] = m.aliases[p]
    BY DEF ObserveParameterAliases
  <1> HIDE DEF n, binding
  <1>3. n.aliases[p] = m.aliases[p]
    BY <1>1, <1>2
  <1> QED
    BY <1>3 DEF n

\* A transfer keeps the aliases that every call so far agrees about.
LEMMA AliasStep ==
    ASSUME NEW s, NEW m, IsState(m), m.explicit \in BOOLEAN, Learned(s, m), NEW shape, HasShape(m, shape),
           NEW call \in CallSet, Plain(call), Traceable(shape, call)
    PROVE  LET n == ObserveCall(m, Arguments(call), call.own)
           IN  /\ Aliased(n, call)
               /\ \A other \in CallSet : Plain(other) /\ Traceable(shape, other) /\ Aliased(m, other)
                                            => Aliased(n, other)
  <1> DEFINE a == Arguments(call)
             n == ObserveCall(m, a, call.own)
             binding == Binding(m, a)
  <1>1. KeywordMode(m) <=> TakesKeywords(shape)
    BY SameMode
  <1>2. Observes(m, a, call.own)
    <2>1. a.forwardsAll = FALSE /\ a.unknown = FALSE /\ a.unknownKeys = FALSE /\ a.keywords = call.named
      BY ArgumentsAre
    <2>2. {x.type : x \in ToSet(binding)} \union {call.named[k] : k \in DOMAIN call.named} = Evidence(shape, call)
      BY EvidenceIs
    <2> HIDE DEF a
    <2> QED
      BY <2>1, <2>2 DEF Observes, Traceable
  <1>3. /\ binding = a.all /\ binding \in Seq(Shown)
        /\ \A i \in 1 .. Len(binding) : binding[i].alias # "unseen"
    BY <1>1, WrittenBinding, BindingShown DEF Traceable
  <1>4. SameFrame(m, n) /\ Learned(s, n)
    BY <1>2, ObserveIs, ObserveLearns
  <1>5. n.aliases = ObserveParameterAliases(m, binding)
    <2>1. n.aliases = IF Len(a.all) = Len(binding) THEN ObserveParameterAliases(m, binding) ELSE m.aliases
      BY <1>2, ObserveIs
    <2> QED
      BY <1>3, <2>1
  <1>6. /\ \A arguments : Binding(n, arguments) = Binding(m, arguments)
        /\ \A size, i : SlotOf(n, size, i) = SlotOf(m, size, i)
        /\ n.inferable = m.inferable
    <2>1. m.params \in Seq(Types) /\ n.params \in Seq(Types)
      BY <1>4 DEF Learned
    <2> HIDE DEF n
    <2> QED
      BY <1>4, <2>1, FrameKept DEF SameFrame
  <1>7. m.inferable \subseteq DOMAIN m.aliases
    BY DEF Learned
  <1>8. /\ \A i \in 1 .. Len(binding) : SlotOf(m, Len(binding), i) \in m.inferable =>
              n.aliases[SlotOf(m, Len(binding), i)] \in {NoAlias, binding[i].alias}
        /\ \A p \in m.inferable : m.aliases[p] # "unseen" => n.aliases[p] \in {NoAlias, m.aliases[p]}
    <2> HIDE DEF binding, n
    <2> QED
      BY <1>3, <1>5, <1>7, AliasesObserved
  <1> HIDE DEF n
  <1>9. Aliased(n, call)
    BY <1>6, <1>8 DEF Aliased
  <1>10. ASSUME NEW other \in CallSet, Plain(other), Traceable(shape, other), Aliased(m, other)
         PROVE  Aliased(n, other)
    <2> DEFINE others == Binding(m, Arguments(other))
    <2>1. \A i \in 1 .. Len(others) : others[i].alias # "unseen"
      BY <1>1, <1>10, WrittenBinding DEF Traceable
    <2>2. ASSUME NEW i \in 1 .. Len(others), SlotOf(m, Len(others), i) \in m.inferable
          PROVE  n.aliases[SlotOf(m, Len(others), i)] \in {NoAlias, others[i].alias}
      <3> DEFINE p == SlotOf(m, Len(others), i)
      <3>1. m.aliases[p] \in {NoAlias, others[i].alias}
        BY <1>10, <2>2 DEF Aliased
      <3> HIDE DEF others
      <3>2. m.aliases[p] # "unseen" /\ p \in m.inferable
        BY <2>1, <2>2, <3>1 DEF NoAlias
      <3> HIDE DEF p
      <3>3. n.aliases[p] \in {NoAlias, others[i].alias}
        BY <1>8, <3>1, <3>2
      <3> QED
        BY <3>3 DEF p
    <2> HIDE DEF others
    <2>3. Binding(n, Arguments(other)) = others
      BY <1>6 DEF others
    <2> QED
      BY <1>6, <2>2, <2>3 DEF Aliased
  <1> QED
    BY <1>9, <1>10 DEF n

\* Only what is learned has an alias, that of every call the round has been at.
AliasesHeld ==
    /\ source.contracts # << >> /\ ~source.inferUntyped => state.inferable = {}
    /\ \A p \in DOMAIN state.aliases : p \notin state.inferable => state.aliases[p] = "unseen"
    /\ \A c \in DOMAIN source.calls \ left : Aliased(state, source.calls[c])

LEMMA AliasesInit == ASSUME Init, SourcesAssumption PROVE AliasesHeld
  <1> DEFINE signatures == [i \in DOMAIN source.contracts |-> Signature(source.contracts[i])]
  <1>1. left = DOMAIN source.calls /\ state = InitialState(source) /\ source \in Sources
    BY DEF Init
  <1>2. CASE source.contracts = << >>
    <2>1. state = InferredState(source.shape)
      BY <1>1, <1>2 DEF InitialState
    <2>2. state.aliases = [i \in 1 .. Size(source.shape) |-> "unseen"]
      BY <2>1 DEF InferredState
    <2> QED
      BY <1>1, <1>2, <2>2 DEF AliasesHeld
  <1>3. CASE source.contracts # << >>
    <2>1. state = ExplicitOverloads(signatures, source.inferUntyped)
      BY <1>1, <1>3 DEF InitialState
    <2> HIDE DEF signatures
    <2>2. /\ \A p \in DOMAIN state.aliases : state.aliases[p] = "unseen"
          /\ ~source.inferUntyped => state.inferable = {}
      BY <2>1 DEF ExplicitOverloads
    <2> QED
      BY <1>1, <1>3, <2>2 DEF AliasesHeld
  <1> QED
    BY <1>2, <1>3

\* A method that learns has the shape of its definition.
LEMMA LearnerIs ==
    ASSUME Framed, Learning, AliasesHeld, SourcesAssumption, WrittenOut, AliasesPassed, ShapesKept,
           state.inferable # {}
    PROVE  /\ HasShape(state, source.shape) /\ source.shape \in ShapeSet /\ OrderKept(source.shape)
           /\ \A c \in DOMAIN source.calls : Traceable(source.shape, source.calls[c])
  <1>1. source \in Sources /\ source.shape \in ShapeSet /\ source.contracts \in Seq(ContractSet)
        /\ source.inferUntyped \in BOOLEAN
    BY SourceFacts DEF Framed
  <1>2. source.contracts = << >> \/ source.inferUntyped
    BY DEF AliasesHeld
  <1>3. /\ source.contracts # << >> => source.shape = source.contracts[1].shape
        /\ \A c \in DOMAIN source.calls : Traceable(source.shape, source.calls[c])
    BY <1>1, <1>2 DEF AliasesPassed
  <1>4. HasShape(state, source.shape)
    BY <1>3 DEF Learning, Learned
  <1>5. OrderKept(source.shape)
    <2>1. CASE source.contracts = << >>
      BY <1>1, <2>1 DEF ShapesKept
    <2>2. CASE source.contracts # << >>
      <3>1. 1 \in DOMAIN source.contracts
        BY <1>1, <2>2
      <3>2. Complete(source.contracts[1])
        BY <1>1, <3>1 DEF WrittenOut
      <3> QED
        BY <1>3, <2>2, <3>2 DEF Complete
    <2> QED
      BY <2>1, <2>2
  <1> QED
    BY <1>1, <1>3, <1>4, <1>5

LEMMA AliasesNext ==
    ASSUME Framed, Learning, AliasesHeld, SourcesAssumption, WrittenOut, AliasesPassed, ShapesKept, [Next]_vars
    PROVE  AliasesHeld'
  <1>1. CASE UNCHANGED vars
    BY <1>1 DEF AliasesHeld, Aliased, vars
  <1>2. ASSUME NEW c \in left, Transfer(c) PROVE AliasesHeld'
    <2> DEFINE call == source.calls[c]
               after == ObserveCall(state, Arguments(call), call.own)
    <2>1. state' = after /\ source' = source /\ left' = left \ {c}
      BY <1>2, TransferIs
    <2>2. \A d \in DOMAIN source.calls : source.calls[d] \in CallSet /\ Plain(source.calls[d])
      BY SourceFacts DEF Framed, WrittenOut
    <2>3. c \in DOMAIN source.calls /\ IsState(state) /\ state.explicit \in BOOLEAN
      BY DEF Framed
    <2>4. SameFrame(state, after)
      BY <2>3, ObserveIs
    <2>5. ASSUME NEW p \in DOMAIN state.aliases, p \notin state.inferable PROVE after.aliases[p] = "unseen"
      <3>1. after.aliases[p] = state.aliases[p]
        BY <2>3, <2>5, AliasesFrozen
      <3> QED
        BY <2>5, <3>1 DEF AliasesHeld
    <2>6. ASSUME NEW d \in DOMAIN source.calls \ left' PROVE Aliased(after, source.calls[d])
      <3>1. CASE state.inferable = {}
        <4> HIDE DEF after
        <4> QED
          BY <2>4, <3>1 DEF Aliased, SameFrame
      <3>2. CASE state.inferable # {}
        <4>1. HasShape(state, source.shape) /\ \A e \in DOMAIN source.calls : Traceable(source.shape, source.calls[e])
          BY <3>2, LearnerIs
        <4>2. /\ Aliased(after, call)
              /\ \A other \in CallSet : Plain(other) /\ Traceable(source.shape, other) /\ Aliased(state, other)
                                           => Aliased(after, other)
          BY <2>2, <2>3, <4>1, AliasStep DEF Learning
        <4> HIDE DEF after
        <4>3. CASE d = c
          BY <4>2, <4>3
        <4>4. CASE d # c
          <5>1. Aliased(state, source.calls[d])
            BY <2>1, <4>4 DEF AliasesHeld
          <5> QED
            BY <2>2, <4>1, <4>2, <5>1
        <4> QED
          BY <4>3, <4>4
      <3> QED
        BY <3>1, <3>2
    <2> HIDE DEF after
    <2>7. DOMAIN after.aliases = DOMAIN state.aliases /\ after.inferable = state.inferable
      BY <2>4 DEF SameFrame
    <2> QED
      BY <2>1, <2>5, <2>6, <2>7 DEF AliasesHeld
  <1>3. CASE NextRound
    BY <1>3 DEF NextRound, AliasesHeld, Aliased
  <1>4. CASE Settle
    BY <1>4 DEF Settle, AliasesHeld, Aliased
  <1> QED
    BY <1>1, <1>2, <1>3, <1>4 DEF Next

LEMMA AliasesSound ==
    ASSUME Framed, Learning, Rounds, AliasesHeld, SourcesAssumption, WrittenOut, AliasesPassed, ShapesKept
    PROVE  PassedAliasHolds
  <1> SUFFICES ASSUME settled, NEW p \in DOMAIN state.aliases, state.aliases[p] \notin {"unseen", NoAlias},
                      NEW c \in DOMAIN source.calls, NEW g \in Concrete(source.calls[c]), Accepts(source.shape, g),
                      NEW i \in DOMAIN Given(source.shape, g).positional,
                      ParameterOf(source.shape, Len(Given(source.shape, g).positional), i) = p
               PROVE  LET args == source.calls[c].args
                      IN i \in DOMAIN args /\ args[i].kind = "value" /\ args[i].alias = state.aliases[p]
    BY DEF PassedAliasHolds
  <1> DEFINE call == source.calls[c]
             shape == source.shape
             binding == Binding(state, Arguments(call))
             n == Len(binding)
             given == Given(shape, g).positional
  <1>1. p \in state.inferable
    BY DEF AliasesHeld
  <1>2. HasShape(state, shape) /\ shape \in ShapeSet /\ OrderKept(shape) /\ Traceable(shape, call)
    BY <1>1, LearnerIs
  <1>3. call \in CallSet /\ Plain(call)
    BY SourceFacts DEF Framed, WrittenOut
  <1>4. Aliased(state, call)
    BY DEF AliasesHeld, Rounds
  <1> HIDE DEF call
  <1>5. binding \in Seq(Shown) /\ n \in Nat
    BY <1>3, BindingShown
  <1>6. Len(given) = n /\ i \in 1 .. n
    <2>1. Fits(binding, given)
      BY <1>2, <1>3, GivenFits DEF call
    <2>2. i \in DOMAIN given
      OBVIOUS
    <2> HIDE DEF binding, given
    <2> QED
      BY <2>1, <2>2 DEF Fits
  <1>7. Least(shape) <= n /\ (shape.rest \/ n <= Fixed(shape))
    <2>1. Shaped(shape, call, n)
      BY <1>2, <1>3, AcceptsShaped DEF call
    <2> QED
      BY <2>1 DEF Shaped
  <1>8. ParameterOf(shape, n, i) = p
    BY <1>6
  <1>9. SlotOf(state, n, i) = p
    <2> HIDE DEF n, shape
    <2>1. SlotOf(state, n, i) = ParameterOf(shape, n, i)
      BY <1>2, <1>5, <1>6, <1>7, SlotIsParameter
    <2> QED
      BY <1>8, <2>1
  <1>10. state.aliases[p] \in {NoAlias, binding[i].alias}
    BY <1>1, <1>4, <1>6, <1>9 DEF Aliased
  <1>11. binding[i].alias = state.aliases[p] /\ binding[i].alias # NoAlias
    BY <1>10
  <1>12. KeywordMode(state) <=> TakesKeywords(shape)
    BY <1>2, SameMode
  <1>13. i \in DOMAIN call.args /\ call.args[i].kind = "value" /\ call.args[i].alias = binding[i].alias
    BY <1>2, <1>3, <1>6, <1>11, <1>12, WrittenBinding DEF Traceable
  <1> QED
    BY <1>11, <1>13 DEF call

(* A parameter that the body narrows through an expression of the callers gets its value from that expression in
   every call, whatever the order in which the calls were transferred (observe_parameter_aliases). *)
THEOREM AliasIsPassed == ASSUME WrittenOut, Learnable, ShapesKept, AliasesPassed PROVE Spec => []PassedAliasHolds
  <1> DEFINE IInv == Framed /\ Learning /\ Rounds /\ AliasesHeld
  <1>1. Init => IInv
    BY SourcesAssumption, FramedInit, LearningInit, RoundsInit, AliasesInit
  <1>2. IInv /\ [Next]_vars => IInv'
    BY SourcesAssumption, FramedNext, LearningNext, RoundsNext, AliasesNext
  <1>3. IInv => PassedAliasHolds
    BY SourcesAssumption, AliasesSound
  <1> QED
    BY <1>1, <1>2, <1>3, PTL DEF Spec
=============================================================================
