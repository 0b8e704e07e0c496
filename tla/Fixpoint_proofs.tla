------------------------- MODULE Fixpoint_proofs -------------------------
(***************************************************************************)
(* The method-summary fixpoint for every program, every set of types and   *)
(* every number of passes: the two sides of the shared-read edges agree;   *)
(* evidence never takes the T.untyped of a signature back                  *)
(* (RefinementKept); and the final pass finds what the rounds left: a      *)
(* body's value is covered by the return its callers see (FinalCovered)    *)
(* and the tables do not change any more (FinalQuiet).                     *)
(*                                                                         *)
(* IInv adds to EdgesAgree (which has the typing) that a method with an    *)
(* explicit contract always has a return: commits join with it, and a join *)
(* with an empty slot is no type.                                          *)
(*                                                                         *)
(* RoundInv says what the rounds are for.  A unit has settled when there   *)
(* is a run of it, a register before each operation, every step of which   *)
(* the tables already hold and whose value its summary covers.  In a round *)
(* every unit is still to be evaluated, or something it depends on has     *)
(* changed since and is marked, or it has settled; and the evaluation      *)
(* under way has been such a run so far, or its unit is marked.  When      *)
(* nothing is marked, everything has settled, and FinalInv says that the   *)
(* final pass steps through those runs: by QuietChangesNothing a step of   *)
(* such a run changes nothing, so the runs stay runs.                      *)
(*                                                                         *)
(* The source order is a recursive function over positions; what it        *)
(* selects comes by taking a least position where the claim fails.         *)
(***************************************************************************)
EXTENDS Fixpoint, SequenceTheorems, WellFoundedInduction, TLAPS

(* A set of numbers that is not empty has a least member. *)
LEMMA LeastNumber ==
    ASSUME NEW T, T \subseteq Nat, T # {}
    PROVE  \E n \in T : \A m \in T : ~ (m < n)
<1> DEFINE R == OpToRel(<, Nat)
<1>1. IsWellFoundedOn(R, Nat)
  BY NatLessThanWellFounded
<1>2. \E n \in T : \A m \in T : ~ (<<m, n>> \in R)
  <2> HIDE DEF R
  <2> QED BY <1>1, WFMin
<1>3. \A m, n \in T : m < n => <<m, n>> \in R
  BY DEF OpToRel
<1> QED BY <1>2, <1>3

(* The source order as a recursive function over positions. *)
LEMMA InOrderUnfold ==
    ASSUME NEW order \in Seq(Unit), NEW units
    PROVE  \E F : /\ InOrder(order, units) = F[Len(order)]
                  /\ \A i \in 0 .. Len(order) :
                        F[i] = IF i = 0 THEN << >>
                               ELSE IF order[i] \in units THEN Append(F[i - 1], order[i]) ELSE F[i - 1]
<1> DEFINE Next1(f, i) == IF i = 0 THEN << >>
                         ELSE IF order[i] \in units THEN Append(f[i - 1], order[i]) ELSE f[i - 1]
           Upto(n) == \E f : f = [i \in 0 .. n |-> Next1(f, i)]
           F == CHOOSE f : f = [i \in 0 .. Len(order) |-> Next1(f, i)]
<1> Len(order) \in Nat
  OBVIOUS
<1>1. \A n \in Nat : Upto(n)
  <2> SUFFICES ASSUME NEW k \in Nat, ~ Upto(k) PROVE FALSE
    OBVIOUS
  <2> DEFINE T == { n \in Nat : ~ Upto(n) }
  <2>1. PICK n \in T : \A m \in T : ~ (m < n)
    <3>1. T \subseteq Nat /\ T # {}
      OBVIOUS
    <3> HIDE DEF T
    <3> QED BY <3>1, LeastNumber
  <2>2. CASE n = 0
    <3> DEFINE g == [i \in 0 .. 0 |-> << >>]
    <3>2. g = [i \in 0 .. 0 |-> Next1(g, i)]
      OBVIOUS
    <3> QED BY <2>2, <3>2, <2>1
  <2>3. CASE n # 0
    <3>1. n - 1 \in Nat /\ Upto(n - 1)
      <4> HIDE DEF Upto
      <4>1. n - 1 \in Nat /\ n - 1 < n
        BY <2>3
      <4> QED BY <2>1, <4>1
    <3>2. PICK f : f = [i \in 0 .. n - 1 |-> Next1(f, i)]
      BY <3>1
    <3> DEFINE g == [i \in 0 .. n |-> IF i = n THEN Next1(f, n) ELSE f[i]]
    <3>3. \A i \in 0 .. n : g[i] = Next1(g, i)
      <4> SUFFICES ASSUME NEW i \in 0 .. n PROVE g[i] = Next1(g, i)
        OBVIOUS
      <4>1. CASE i = n
        <5>1. g[n - 1] = f[n - 1]
          BY <3>1, <2>3
        <5> QED BY <4>1, <5>1, <2>3
      <4>2. CASE i # n
        <5>1. g[i] = f[i] /\ i \in 0 .. n - 1
          BY <3>1, <4>2
        <5>3. f[i] = Next1(f, i)
          <6> HIDE DEF Next1
          <6> QED BY <3>2, <5>1
        <5>2. i # 0 => g[i - 1] = f[i - 1]
          BY <3>1, <4>2
        <5> QED BY <5>1, <5>2, <5>3
      <4> QED BY <4>1, <4>2
    <3>4. g = [i \in 0 .. n |-> Next1(g, i)]
      <4> HIDE DEF Next1
      <4>1. g = [i \in 0 .. n |-> g[i]]
        OBVIOUS
      <4> HIDE DEF g
      <4> QED BY <3>3, <4>1
    <3> HIDE DEF g, Next1
    <3> QED BY <3>4, <2>1
  <2> QED BY <2>2, <2>3
<1>2. F = [i \in 0 .. Len(order) |-> Next1(F, i)]
  <2> HIDE DEF Next1
  <2> QED BY <1>1
<1>3. InOrder(order, units) = F[Len(order)]
  BY DEF InOrder
<1>4. \A i \in 0 .. Len(order) : F[i] = Next1(F, i)
  <2> HIDE DEF F, Next1
  <2> QED BY <1>2
<1> HIDE DEF F
<1> QED BY <1>3, <1>4

(* Appending one unit. *)
LEMMA AppendRange ==
    ASSUME NEW s \in Seq(Unit), NEW u \in Unit
    PROVE  Append(s, u) \in Seq(Unit) /\ Range(Append(s, u)) = Range(s) \union {u}
<1>1. /\ Append(s, u) \in Seq(Unit) /\ Len(Append(s, u)) = Len(s) + 1
      /\ Append(s, u)[Len(s) + 1] = u
      /\ \A i \in 1 .. Len(s) : Append(s, u)[i] = s[i]
  OBVIOUS
<1>2. DOMAIN s = 1 .. Len(s) /\ DOMAIN Append(s, u) = 1 .. Len(s) + 1 /\ Len(s) \in Nat
  BY <1>1
<1>3. \A x \in Range(Append(s, u)) : x \in Range(s) \union {u}
  BY <1>1, <1>2 DEF Range
<1>4. u \in Range(Append(s, u))
  BY <1>1, <1>2 DEF Range
<1>5. \A x \in Range(s) : x \in Range(Append(s, u))
  BY <1>1, <1>2 DEF Range
<1> QED BY <1>1, <1>3, <1>4, <1>5

(* Units in source order are the units of the order that were asked for. *)
LEMMA InOrderRange ==
    ASSUME NEW order \in Seq(Unit), NEW units
    PROVE  InOrder(order, units) \in Seq(Unit) /\ Range(InOrder(order, units)) = Range(order) \intersect units
<1>1. PICK F : /\ InOrder(order, units) = F[Len(order)]
               /\ \A i \in 0 .. Len(order) :
                     F[i] = IF i = 0 THEN << >>
                            ELSE IF order[i] \in units THEN Append(F[i - 1], order[i]) ELSE F[i - 1]
  BY InOrderUnfold
<1> DEFINE Chosen(i) == {order[j] : j \in 1 .. i} \intersect units
           Good(i) == F[i] \in Seq(Unit) /\ Range(F[i]) = Chosen(i)
<1>2. \A i \in 0 .. Len(order) : Good(i)
  <2> SUFFICES ASSUME NEW k \in 0 .. Len(order), ~ Good(k) PROVE FALSE
    OBVIOUS
  <2> DEFINE T == { n \in 0 .. Len(order) : ~ Good(n) }
  <2>1. PICK n \in T : \A m \in T : ~ (m < n)
    <3> HIDE DEF Good
    <3>1. T \subseteq Nat /\ T # {}
      OBVIOUS
    <3> HIDE DEF T
    <3> QED BY <3>1, LeastNumber
  <2> HIDE DEF Good
  <2>2. n \in 0 .. Len(order) /\ ~ Good(n)
    BY <2>1
  <2>3. CASE n = 0
    <3>1. F[0] = << >> /\ Range(<< >>) = {} /\ Chosen(0) = {}
      BY <1>1 DEF Range
    <3>2. << >> \in Seq(Unit)
      BY EmptySeq
    <3> QED BY <2>2, <2>3, <3>1, <3>2 DEF Good
  <2>4. CASE n # 0
    <3>1. n - 1 \in 0 .. Len(order) /\ n - 1 < n /\ n \in 1 .. Len(order)
      BY <2>2, <2>4
    <3>2. Good(n - 1)
      BY <2>1, <3>1
    <3>3. order[n] \in Unit
      BY <3>1
    <3>4. F[n] = IF order[n] \in units THEN Append(F[n - 1], order[n]) ELSE F[n - 1]
      BY <1>1, <2>2, <2>4
    <3>5. \A j : j \in 1 .. n <=> j \in 1 .. n - 1 \/ j = n
      BY <3>1
    <3>6. Chosen(n) = Chosen(n - 1) \union (IF order[n] \in units THEN {order[n]} ELSE {})
      BY <3>5
    <3> HIDE DEF Chosen
    <3>7. F[n] \in Seq(Unit) /\ Range(F[n]) = Chosen(n)
      <4>1. CASE order[n] \in units
        BY <3>2, <3>3, <3>4, <3>6, <4>1, AppendRange DEF Good
      <4>2. CASE order[n] \notin units
        BY <3>2, <3>4, <3>6, <4>2 DEF Good
      <4> QED BY <4>1, <4>2
    <3> QED BY <2>2, <3>7 DEF Good
  <2> QED BY <2>3, <2>4
<1>3. Len(order) \in 0 .. Len(order) /\ DOMAIN order = 1 .. Len(order)
  OBVIOUS
<1>4. {order[j] : j \in 1 .. Len(order)} = Range(order)
  BY <1>3 DEF Range
<1> QED BY <1>1, <1>2, <1>3, <1>4

(* The range of a concatenation. *)
LEMMA ConcatRange ==
    ASSUME NEW s \in Seq(Unit), NEW t \in Seq(Unit)
    PROVE  Range(s \o t) = Range(s) \union Range(t)
<1>1. /\ s \o t \in Seq(Unit) /\ Len(s \o t) = Len(s) + Len(t)
      /\ \A i \in 1 .. Len(s) : (s \o t)[i] = s[i]
      /\ \A i \in 1 .. Len(t) : (s \o t)[Len(s) + i] = t[i]
  BY ConcatProperties
<1>2. /\ DOMAIN s = 1 .. Len(s) /\ DOMAIN t = 1 .. Len(t) /\ DOMAIN (s \o t) = 1 .. Len(s) + Len(t)
      /\ Len(s) \in Nat /\ Len(t) \in Nat
  BY <1>1
<1>3. \A x \in Range(s \o t) : x \in Range(s) \union Range(t)
  <2> SUFFICES ASSUME NEW i \in 1 .. Len(s) + Len(t) PROVE (s \o t)[i] \in Range(s) \union Range(t)
    BY <1>2 DEF Range
  <2>1. CASE i \in 1 .. Len(s)
    BY <1>1, <1>2, <2>1 DEF Range
  <2>2. CASE i \notin 1 .. Len(s)
    <3>1. i - Len(s) \in 1 .. Len(t) /\ i = Len(s) + (i - Len(s))
      BY <1>2, <2>2
    <3> QED BY <1>1, <1>2, <3>1 DEF Range
  <2> QED BY <2>1, <2>2
<1>4. \A x \in Range(s) : x \in Range(s \o t)
  <2> SUFFICES ASSUME NEW i \in 1 .. Len(s) PROVE s[i] \in Range(s \o t)
    BY <1>2 DEF Range
  <2>1. i \in 1 .. Len(s) + Len(t)
    BY <1>2
  <2> QED BY <1>1, <1>2, <2>1 DEF Range
<1>5. \A x \in Range(t) : x \in Range(s \o t)
  <2> SUFFICES ASSUME NEW i \in 1 .. Len(t) PROVE t[i] \in Range(s \o t)
    BY <1>2 DEF Range
  <2>1. Len(s) + i \in 1 .. Len(s) + Len(t)
    BY <1>2
  <2> QED BY <1>1, <1>2, <2>1 DEF Range
<1> QED BY <1>3, <1>4, <1>5

-----------------------------------------------------------------------------
(* An explicit contract has a return. *)
Contracts == \A m \in Method : program.explicit[m] => methods[m].ret # None
IInv == EdgesAgree /\ Contracts

(* What the assumptions say of the program at hand. *)
LEMMA ProgramTyped ==
    ASSUME TypeOK
    PROVE  /\ program.order \in Seq(Unit)
           /\ program.kind \in [Unit -> {"top", "body", "method"}]
           /\ program.key \in [Unit -> Dependent \union {None}]
           /\ program.code \in [Unit -> Seq(Instruction)]
           /\ program.explicit \in [Method -> BOOLEAN]
           /\ \A u \in Unit : program.kind[u] = "method" => program.key[u] \in Method
BY ProgramAssumption DEF TypeOK

(* The unit being evaluated. *)
LEMMA CurrentUnit ==
    ASSUME TypeOK, todo # << >>
    PROVE  /\ Unit0 \in Unit /\ Tail(todo) \in Seq(Unit)
           /\ Self \in Dependent \union {None}
           /\ Kind0 = "method" => Self \in Method
           /\ program.code[Unit0] \in Seq(Instruction)
<1>1. Head(todo) \in Unit /\ Tail(todo) \in Seq(Unit)
  BY DEF TypeOK
<1> QED BY <1>1, ProgramTyped DEF Unit0, Self, Kind0

(* The operation being evaluated. *)
LEMMA CurrentInstruction ==
    ASSUME TypeOK, Running
    PROVE  Now \in Instruction
<1>1. program.code[Unit0] \in Seq(Instruction)
  BY CurrentUnit DEF Running
<1>2. pc \in 1 .. Len(program.code[Unit0])
  BY <1>1 DEF Running, TypeOK
<1> QED BY <1>1, <1>2, ElementOfSeq DEF Now

(* A pass has a sequence of units to evaluate. *)
LEMMA PassTyped ==
    ASSUME TypeOK, NEW scheduled, NEW active
    PROVE  RoundUnits(program, scheduled, active) \in Seq(Unit) /\ SeedUnits(program) \in Seq(Unit)
<1>1. program.order \in Seq(Unit)
  BY ProgramTyped
<1>2. \A units : InOrder(program.order, units) \in Seq(Unit)
  BY <1>1, InOrderRange
<1> QED BY <1>2 DEF RoundUnits, SeedUnits

(* A committed summary is typed and keeps its contract. *)
LEMMA CommittedTyped ==
    ASSUME TypeOK, Contracts, NEW m \in Method
    PROVE  /\ Committed(m) \in [param : Slot, ret : Slot, terminates : BOOLEAN, raises : Slot]
           /\ program.explicit[m] => Committed(m).ret # None
<1> DEFINE old == methods[m]  new == results[m]
<1>1. /\ old \in [param : Slot, ret : Slot, terminates : BOOLEAN, raises : Slot]
      /\ new \in [type : Slot, terminates : BOOLEAN, raises : Slot]
      /\ program.explicit[m] \in BOOLEAN
      /\ program.explicit[m] => old.ret \in Type
  BY ProgramTyped DEF TypeOK, Contracts, Slot
<1> HIDE DEF old, new
<1>2. CASE new.type = None
  BY <1>1, <1>2, KindsAssumption DEF Committed, Slot, old, new
<1>3. CASE new.type # None
  <2>1. new.type \in Type
    BY <1>1, <1>3 DEF Slot
  <2>2. program.explicit[m] => Combine(TRUE, old.ret, new.type) \in Type
    BY <1>1, <2>1, KindsAssumption DEF Combine
  <2>3. new.raises # None => Widen(old.raises, new.raises) \in Type
    BY <1>1, KindsAssumption DEF Widen, Slot
  <2>4. /\ Committed(m).ret \in Type
        /\ Committed(m) \in [param : Slot, ret : Slot, terminates : BOOLEAN, raises : Slot]
    BY <1>1, <1>3, <2>1, <2>2, <2>3 DEF Committed, Slot, old, new
  <2> QED BY <2>4, KindsAssumption
<1> QED BY <1>2, <1>3

(* A pass starts with a typed schedule and empty results. *)
LEMMA StartPassTyped ==
    ASSUME TypeOK, NEW next, NEW scheduled, NEW active, next \in {"round", "final", "done"},
           StartPass(next, scheduled, active)
    PROVE  /\ phase' \in {"seed", "round", "final", "done"}
           /\ todo' \in Seq(Unit) /\ pc' \in Nat
           /\ reg' \in [type : Type, provisional : BOOLEAN, early : Slot, raised : Type, stopped : BOOLEAN]
           /\ results' \in [Method -> [type : Slot, terminates : BOOLEAN, raises : Slot]]
           /\ changed' \in [methods : SUBSET Method, shared : SUBSET Key]
BY PassTyped, ProgramTyped, KindsAssumption DEF StartPass, Idle, NoResults, NoChange, Slot

RegType == [type : Type, provisional : BOOLEAN, early : Slot, raised : Type, stopped : BOOLEAN]
MethodType == [param : Slot, ret : Slot, terminates : BOOLEAN, raises : Slot]

(* A register made of typed parts is typed. *)
LEMMA RegisterOf ==
    ASSUME NEW t \in Type, NEW p \in BOOLEAN, NEW e \in Slot, NEW r \in Type, NEW s \in BOOLEAN
    PROVE  [type |-> t, provisional |-> p, early |-> e, raised |-> r, stopped |-> s] \in RegType
BY DEF RegType

(* A typed register with another value is typed. *)
LEMMA RegisterWith ==
    ASSUME NEW g \in RegType, NEW t \in Type, NEW p \in BOOLEAN
    PROVE  [g EXCEPT !.type = t, !.provisional = p] \in RegType
<1> DEFINE g1 == [g EXCEPT !.type = t]
           g2 == [g1 EXCEPT !.provisional = p]
<1>1. g1 \in RegType
  BY DEF RegType
<1>2. g2 \in RegType
  <2> HIDE DEF g1
  <2> QED BY <1>1 DEF RegType
<1>3. g2 = [g EXCEPT !.type = t, !.provisional = p]
  OBVIOUS
<1> QED BY <1>2, <1>3

(* The first state. *)
LEMMA InitGood == Init => IInv
<1> SUFFICES ASSUME Init PROVE IInv
  OBVIOUS
<1>1. program \in Program
  BY DEF Init
<1>2. program.order \in Seq(Unit) /\ program.explicit \in [Method -> BOOLEAN]
  BY <1>1, ProgramAssumption
<1>3. todo \in Seq(Unit)
  BY <1>2, InOrderRange DEF Init, SeedUnits
<1>4. reg \in RegType /\ results \in [Method -> [type : Slot, terminates : BOOLEAN, raises : Slot]]
  BY KindsAssumption DEF Init, Idle, NoResults, Slot, RegType
<1>5. methods \in [Method -> MethodType] /\ Contracts
  BY <1>2, KindsAssumption DEF Init, Slot, MethodType, Contracts
<1>6. TypeOK
  BY <1>1, <1>3, <1>4, <1>5 DEF Init, TypeOK, RegType, MethodType, Slot, NoChange
<1> QED BY <1>5, <1>6 DEF IInv, EdgesAgree, Init

(* The steps between passes: a commit, and the next schedule. *)
LEMMA PassesGood == IInv /\ (EndSeed \/ EndRound \/ EndFinal) => IInv'
<1> SUFFICES ASSUME IInv, EndSeed \/ EndRound \/ EndFinal PROVE IInv'
  OBVIOUS
<1> USE DEF IInv, EdgesAgree
<1>1. PICK next, scheduled, active : next \in {"round", "final", "done"} /\ StartPass(next, scheduled, active)
  BY DEF EndSeed, EndRound, EndFinal
<1>2. UNCHANGED << program, shared, initialized, provisional, edges >>
  BY DEF EndSeed, EndRound, EndFinal, tables
<1>3. methods' = methods \/ methods' = [m \in Method |-> Committed(m)]
  BY DEF EndSeed, EndRound, EndFinal, tables
<1>4. methods' \in [Method -> MethodType] /\ Contracts'
  <2>1. CASE methods' = methods
    BY <1>2, <2>1 DEF Contracts, TypeOK, MethodType
  <2>2. CASE methods' = [m \in Method |-> Committed(m)]
    BY <1>2, <2>2, CommittedTyped DEF Contracts, MethodType
  <2> QED BY <1>3, <2>1, <2>2
<1>5. TypeOK'
  BY <1>1, <1>2, <1>4, StartPassTyped DEF TypeOK, edges, MethodType
<1> QED BY <1>2, <1>4, <1>5 DEF edges

(* An operation that changes no table leaves the invariant to the register. *)
LEMMA LocalGood ==
    ASSUME IInv, pc' \in Nat, reg' \in RegType, UNCHANGED << program, phase, todo, results, tables, edges, changed >>
    PROVE  IInv'
BY DEF IInv, EdgesAgree, Contracts, TypeOK, RegType, tables, edges

(* Forgetting what the last evaluation read removes both sides of an edge. *)
LEMMA BeginGood == IInv /\ Begin => IInv'
<1> SUFFICES ASSUME IInv, Begin PROVE IInv'
  OBVIOUS
<1> USE DEF IInv, EdgesAgree
<1>1. Self \in Dependent \union {None} /\ pc' \in Nat /\ reg' \in RegType
  BY CurrentUnit, KindsAssumption DEF Begin, Idle, RegType, Slot
<1>2. CASE Self = None
  BY <1>1, <1>2, LocalGood DEF Begin, edges
<1>3. CASE Self # None
  <2>1. /\ reads' = [reads EXCEPT ![Self] = {}]
        /\ readers' = [k \in Key |-> readers[k] \ (IF k \in reads[Self] THEN {Self} ELSE {})]
        /\ UNCHANGED << program, phase, todo, tables, callers, results, changed >>
    BY <1>3 DEF Begin
  <2>2. reads' \in [Dependent -> SUBSET Key] /\ readers' \in [Key -> SUBSET Dependent]
    BY <1>1, <1>3, <2>1 DEF TypeOK
  <2>3. TypeOK'
    BY <1>1, <2>1, <2>2 DEF TypeOK, tables, RegType
  <2>4. \A d \in Dependent, k \in Key : (k \in reads[d] <=> d \in readers[k])'
    <3> SUFFICES ASSUME NEW d \in Dependent, NEW k \in Key PROVE (k \in reads[d] <=> d \in readers[k])'
      OBVIOUS
    <3>1. CASE d = Self
      BY <1>1, <1>3, <2>1, <3>1 DEF TypeOK
    <3>2. CASE d # Self
      BY <1>1, <1>3, <2>1, <3>2 DEF TypeOK
    <3> QED BY <3>1, <3>2
  <2>5. Contracts'
    BY <2>1 DEF Contracts, tables
  <2> QED BY <2>3, <2>4, <2>5
<1> QED BY <1>2, <1>3

(* The register after an operation with a value. *)
LEMMA StepGood ==
    ASSUME IInv, NEW t \in Type, Step(t)
    PROVE  pc' \in Nat /\ reg' \in RegType /\ UNCHANGED << program, phase, todo, results >>
<1>1. reg \in RegType /\ pc \in Nat
  BY DEF IInv, EdgesAgree, TypeOK, RegType
<1>2. reg' \in RegType
  BY <1>1, RegisterWith DEF Step
<1> QED BY <1>1, <1>2 DEF Step

(* What an operation knows of where it stands. *)
LEMMA OperationTyped ==
    ASSUME IInv, Running
    PROVE  /\ Unit0 \in Unit /\ Self \in Dependent \union {None}
           /\ Kind0 = "method" => Self \in Method
           /\ Now.type \in Type /\ Now.alt \in Slot /\ Now.method \in Method /\ Now.key \in Key
           /\ reg.type \in Type /\ reg.early \in Slot /\ reg.raised \in Type
           /\ reg.provisional \in BOOLEAN /\ reg \in RegType /\ pc \in Nat
<1>1. TypeOK
  BY DEF IInv, EdgesAgree
<1>2. Now \in Instruction
  BY <1>1, CurrentInstruction
<1>3. /\ Unit0 \in Unit /\ Self \in Dependent \union {None}
      /\ Kind0 = "method" => Self \in Method
  BY <1>1, CurrentUnit DEF Running
<1>4. Now.type \in Type /\ Now.alt \in Slot /\ Now.method \in Method /\ Now.key \in Key
  BY <1>2 DEF Instruction, Slot
<1>5. reg \in RegType /\ pc \in Nat
  BY <1>1 DEF TypeOK, RegType
<1>6. reg.type \in Type /\ reg.early \in Slot /\ reg.raised \in Type /\ reg.provisional \in BOOLEAN
  BY <1>5 DEF RegType
<1> QED BY <1>3, <1>4, <1>5, <1>6

(* Operations that touch nothing but the register. *)
LEMMA LocalStepsGood == IInv /\ (Const \/ Param \/ Raise \/ Guard) => IInv'
<1> SUFFICES ASSUME IInv, Const \/ Param \/ Raise \/ Guard PROVE IInv'
  OBVIOUS
<1>1. Running
  BY DEF Const, Param, Raise, Guard, Here
<1>2. /\ Now.type \in Type /\ Now.alt \in Slot /\ reg \in RegType /\ pc \in Nat
      /\ reg.type \in Type /\ reg.early \in Slot /\ reg.raised \in Type
  BY <1>1, OperationTyped
<1>3. UNCHANGED << program, phase, todo, results, tables, edges, changed >>
  BY DEF Const, Param, Raise, Guard, Step
<1>4. CASE Const
  BY <1>2, <1>3, <1>4, StepGood, LocalGood DEF Const
<1>5. CASE Param
  <2>1. Self \in Method
    BY <1>1, <1>5, OperationTyped DEF Param
  <2>2. methods[Self].param \in Slot
    BY <2>1 DEF IInv, EdgesAgree, TypeOK
  <2> DEFINE type == IF methods[Self].param = None THEN Any ELSE methods[Self].param
             unknown == methods[Self].param \in {None, Any}
  <2>3. type \in Type /\ unknown \in BOOLEAN
    BY <2>2, KindsAssumption DEF Slot
  <2>4. reg' = [reg EXCEPT !.type = type, !.provisional = unknown] /\ pc' = pc + 1
    BY <1>5 DEF Param
  <2> HIDE DEF type, unknown
  <2>5. reg' \in RegType
    BY <1>2, <2>3, <2>4, RegisterWith
  <2> QED BY <1>2, <1>3, <2>4, <2>5, LocalGood
<1>6. CASE Raise
  <2> DEFINE raised == IF Self = None THEN reg.raised ELSE Join(reg.raised, Now.type)
             type == IF Now.alt = None THEN Never ELSE Now.alt
             stopped == Now.alt = None /\ Self # None
  <2>1. type \in Type /\ raised \in Type /\ stopped \in BOOLEAN
    BY <1>2, KindsAssumption DEF Slot
  <2>2. reg' = [type |-> type, provisional |-> FALSE, early |-> reg.early, raised |-> raised, stopped |-> stopped]
        /\ pc' = pc + 1
    BY <1>6 DEF Raise
  <2> HIDE DEF type, raised, stopped
  <2>3. reg' \in RegType
    BY <1>2, <2>1, <2>2, RegisterOf
  <2> QED BY <1>2, <1>3, <2>2, <2>3, LocalGood
<1>7. CASE Guard
  <2> DEFINE goesOn == NonNil(reg.type) # Never
             early == IF reg.type # Never /\ Join(reg.type, Nil) = reg.type
                      THEN Widen(reg.early, Now.type) ELSE reg.early
  <2>1. early \in Slot /\ NonNil(reg.type) \in Type
    BY <1>2, KindsAssumption DEF Widen, Slot
  <2>2. program.code[Unit0] \in Seq(Instruction)
    BY <1>1, CurrentUnit DEF Running, IInv, EdgesAgree
  <2>3. pc' \in Nat
    BY <1>2, <1>7, <2>2 DEF Guard
  <2>4. reg' = [reg EXCEPT !.type = NonNil(reg.type), !.stopped = ~ goesOn, !.early = early]
    BY <1>7 DEF Guard
  <2>5. (~ goesOn) \in BOOLEAN
    OBVIOUS
  <2> HIDE DEF goesOn, early
  <2>6. reg' \in RegType
    BY <1>2, <2>1, <2>4, <2>5 DEF RegType
  <2> QED BY <1>3, <2>3, <2>6, LocalGood
<1> QED BY <1>4, <1>5, <1>6, <1>7

(* A read adds the edge on both sides. *)
LEMMA ReadGood == IInv /\ Read => IInv'
<1> SUFFICES ASSUME IInv, Read PROVE IInv'
  OBVIOUS
<1> DEFINE k == Now.key
<1>1. Running /\ Step(ReadType(k)) /\ UNCHANGED << tables, changed >>
  BY DEF Read, Here
<1>2. Self \in Dependent \union {None} /\ k \in Key
  BY <1>1, OperationTyped
<1> HIDE DEF k
<1>3. ReadType(k) \in Type
  <2>1. shared[k] \in Slot
    BY <1>2 DEF IInv, EdgesAgree, TypeOK
  <2> QED BY <2>1, KindsAssumption DEF ReadType, Slot
<1>4. pc' \in Nat /\ reg' \in RegType /\ UNCHANGED << program, phase, todo, results >>
  BY <1>1, <1>3, StepGood
<1>5. CASE UNCHANGED edges
  BY <1>1, <1>4, <1>5, LocalGood
<1>6. CASE AddRead(k)
  <2>1. CASE Self = None
    BY <1>1, <1>4, <1>6, <2>1, LocalGood DEF AddRead, edges
  <2>2. CASE Self # None
    <3>1. /\ reads' = [reads EXCEPT ![Self] = @ \union {k}]
          /\ readers' = [readers EXCEPT ![k] = @ \union {Self}]
          /\ callers' = callers /\ Self \in Dependent
      BY <1>2, <1>6, <2>2 DEF AddRead
    <3>2. reads \in [Dependent -> SUBSET Key] /\ readers \in [Key -> SUBSET Dependent]
      BY DEF IInv, EdgesAgree, TypeOK
    <3>3. reads' \in [Dependent -> SUBSET Key] /\ readers' \in [Key -> SUBSET Dependent]
      BY <1>2, <3>1, <3>2
    <3>4. TypeOK'
      BY <1>1, <1>4, <3>1, <3>3 DEF IInv, EdgesAgree, TypeOK, tables, RegType
    <3>5. \A d \in Dependent, j \in Key : (j \in reads[d] <=> d \in readers[j])'
      <4> SUFFICES ASSUME NEW d \in Dependent, NEW j \in Key PROVE (j \in reads[d] <=> d \in readers[j])'
        OBVIOUS
      <4>1. j \in reads[d] <=> d \in readers[j]
        BY DEF IInv, EdgesAgree
      <4>2. j \in reads'[d] <=> j \in reads[d] \/ (d = Self /\ j = k)
        BY <3>1, <3>2
      <4>3. d \in readers'[j] <=> d \in readers[j] \/ (d = Self /\ j = k)
        BY <1>2, <3>1, <3>2
      <4> QED BY <4>1, <4>2, <4>3
    <3>6. Contracts'
      BY <1>1, <1>4 DEF Contracts, IInv, tables
    <3> QED BY <3>4, <3>5, <3>6 DEF IInv, EdgesAgree
  <2> QED BY <2>1, <2>2
<1> QED BY <1>5, <1>6 DEF Read, k

(* An operation on the shared variables leaves the edges alone. *)
LEMMA SharedGood ==
    ASSUME IInv, pc' \in Nat, reg' \in RegType, shared' \in [Key -> Slot],
           initialized' \subseteq Key, provisional' \subseteq Key,
           changed' \in [methods : SUBSET Method, shared : SUBSET Key],
           UNCHANGED << program, phase, todo, results, methods, edges >>
    PROVE  IInv'
BY DEF IInv, EdgesAgree, Contracts, TypeOK, RegType, edges

(* A write through observe_ivar, observe_constant, observe_class_var. *)
LEMMA WriteGood == IInv /\ Write => IInv'
<1> SUFFICES ASSUME IInv, Write PROVE IInv'
  OBVIOUS
<1> DEFINE k == Now.key
           actual == reg.type
           p == reg.provisional
           i == program.initializer[Unit0]
           ivar == program.storage[k] = "ivar"
           guess == ivar /\ p /\ actual = Any
           kept == guess /\ shared[k] \notin {None, Any}
           new == CASE kept -> shared[k]
                    [] ~ kept /\ ivar /\ actual # Any /\ k \in provisional /\ shared[k] = Any -> actual
                    [] OTHER -> Widen(shared[k], actual)
<1>1. Running /\ Observe(k, actual, p, i) /\ Step(actual) /\ UNCHANGED edges
  BY DEF Write, Here
<1>2. k \in Key /\ actual \in Type
  BY <1>1, OperationTyped
<1> HIDE DEF k, actual, p, i
<1>3. pc' \in Nat /\ reg' \in RegType /\ UNCHANGED << program, phase, todo, results >>
  BY <1>1, <1>2, StepGood
<1>4. /\ shared \in [Key -> Slot] /\ initialized \subseteq Key /\ provisional \subseteq Key
      /\ changed \in [methods : SUBSET Method, shared : SUBSET Key]
  BY DEF IInv, EdgesAgree, TypeOK
<1>5. new \in Slot
  BY <1>2, <1>4, KindsAssumption DEF Widen, Slot
<1>6. /\ shared' = [shared EXCEPT ![k] = new]
      /\ provisional' = provisional \union {k} \/ provisional' = provisional \ {k}
      /\ initialized' = initialized \union {k} \/ initialized' = initialized
      /\ changed' = changed \/ changed' = [changed EXCEPT !.shared = @ \union {k}]
      /\ methods' = methods
  BY <1>1 DEF Observe
<1> HIDE DEF new
<1>7. /\ shared' \in [Key -> Slot] /\ initialized' \subseteq Key /\ provisional' \subseteq Key
      /\ changed' \in [methods : SUBSET Method, shared : SUBSET Key]
  BY <1>2, <1>4, <1>5, <1>6
<1> QED BY <1>1, <1>3, <1>6, <1>7, SharedGood

(* A write through a known receiver. *)
LEMMA SetGood == IInv /\ Set => IInv'
<1> SUFFICES ASSUME IInv, Set PROVE IInv'
  OBVIOUS
<1> DEFINE k == Now.key
           new == Widen(shared[k], Now.type)
<1>1. Running /\ Step(Now.type) /\ UNCHANGED edges
  BY DEF Set, Here
<1>2. k \in Key /\ Now.type \in Type
  BY <1>1, OperationTyped
<1>3. pc' \in Nat /\ reg' \in RegType /\ UNCHANGED << program, phase, todo, results >>
  BY <1>1, <1>2, StepGood
<1>4. CASE UNCHANGED << tables, changed >>
  BY <1>1, <1>3, <1>4, LocalGood
<1>5. CASE ~ UNCHANGED << tables, changed >>
  <2>1. /\ shared' = [shared EXCEPT ![k] = new]
        /\ changed' = changed \/ changed' = [changed EXCEPT !.shared = @ \union {k}]
        /\ UNCHANGED << methods, initialized, provisional >>
    BY <1>5 DEF Set
  <2>2. /\ shared \in [Key -> Slot] /\ initialized \subseteq Key /\ provisional \subseteq Key
        /\ changed \in [methods : SUBSET Method, shared : SUBSET Key]
    BY DEF IInv, EdgesAgree, TypeOK
  <2>3. new \in Slot
    BY <1>2, <2>2, KindsAssumption DEF Widen, Slot
  <2> HIDE DEF new, k
  <2>4. shared' \in [Key -> Slot] /\ changed' \in [methods : SUBSET Method, shared : SUBSET Key]
    BY <1>2, <2>1, <2>2, <2>3
  <2> QED BY <1>1, <1>3, <2>1, <2>2, <2>4, SharedGood
<1> QED BY <1>4, <1>5

(* What evidence about an argument does to the callee. *)
LEMMA ArgumentTyped ==
    ASSUME IInv, NEW m \in Method, NEW actual \in Type, ObserveArgument(m, actual)
    PROVE  /\ methods' \in [Method -> MethodType]
           /\ changed' \in [methods : SUBSET Method, shared : SUBSET Key]
           /\ \A n \in Method : methods'[n].ret = methods[n].ret
           /\ \A n \in Method : n # m => methods'[n] = methods[n]
           /\ program.explicit[m] =>
                 methods'[m].param = IF methods[m].param = None THEN actual
                                     ELSE Combine(TRUE, methods[m].param, actual)
<1> DEFINE old == methods[m].param
           new == CASE Recursive(m) /\ actual = Any -> old
                    [] old = None -> actual
                    [] OTHER -> Combine(program.explicit[m], old, actual)
<1>1. /\ methods \in [Method -> MethodType] /\ old \in Slot
      /\ changed \in [methods : SUBSET Method, shared : SUBSET Key]
      /\ program.explicit[m] \in BOOLEAN
  BY ProgramTyped DEF IInv, EdgesAgree, TypeOK, MethodType
<1>2. old # None => Combine(program.explicit[m], old, actual) \in Type
  BY <1>1, KindsAssumption DEF Combine, Slot
<1>3. new \in Slot
  BY <1>1, <1>2 DEF Slot
<1>4. /\ methods' = [methods EXCEPT ![m].param = new]
      /\ changed' = changed \/ changed' = [changed EXCEPT !.methods = @ \union {m}]
  BY DEF ObserveArgument
<1>5. program.explicit[m] => new = IF old = None THEN actual ELSE Combine(TRUE, old, actual)
  BY <1>1 DEF Recursive
<1> HIDE DEF new, old
<1>6. methods' \in [Method -> MethodType] /\ methods'[m].param = new
  BY <1>1, <1>3, <1>4 DEF MethodType
<1>7. \A n \in Method : methods'[n].ret = methods[n].ret /\ (n # m => methods'[n] = methods[n])
  BY <1>1, <1>4 DEF MethodType
<1>8. changed' \in [methods : SUBSET Method, shared : SUBSET Key]
  BY <1>1, <1>4
<1> QED BY <1>5, <1>6, <1>7, <1>8 DEF old

(* A call adds a caller, tells the callee and moves the register. *)
LEMMA CallWithGood ==
    ASSUME IInv, Running, NEW m \in Method, NEW actual \in Type, CallWith(m, actual)
    PROVE  IInv'
<1>1. /\ AddCaller(m) /\ ObserveArgument(m, actual) /\ FinishCall(m, CallType(m))
      /\ UNCHANGED << shared, initialized, provisional >>
  BY DEF CallWith
<1>2. /\ Now.alt \in Slot /\ reg.early \in Slot /\ reg.raised \in Type /\ pc \in Nat
      /\ Self \in Dependent \union {None}
  BY OperationTyped
<1>3. methods[m].ret \in Slot /\ methods[m].raises \in Slot
  BY DEF IInv, EdgesAgree, TypeOK
<1> DEFINE returns == CallType(m) # Never \/ (Recursive(m) /\ Collecting)
           raised == IF methods[m].raises = None THEN Never ELSE methods[m].raises
           type == IF Now.alt = None THEN CallType(m) ELSE Join(CallType(m), Now.alt)
           raisedAfter == IF returns \/ Self = None THEN reg.raised ELSE Join(reg.raised, raised)
           stopped == ~ returns /\ Now.alt = None /\ Self # None
<1>4. CallType(m) \in Type
  BY <1>3, KindsAssumption DEF CallType, Slot
<1>5. type \in Type /\ raisedAfter \in Type /\ stopped \in BOOLEAN
  <2>1. raised \in Type
    BY <1>3, KindsAssumption DEF Slot
  <2> HIDE DEF raised, returns
  <2>2. type \in Type
    BY <1>2, <1>4, KindsAssumption DEF Slot
  <2>3. raisedAfter \in Type
    BY <1>2, <2>1, KindsAssumption
  <2> QED BY <2>2, <2>3
<1>6. /\ pc' = pc + 1
      /\ reg' = [ type |-> type, provisional |-> FALSE, early |-> reg.early,
                  raised |-> raisedAfter, stopped |-> stopped ]
      /\ UNCHANGED << program, phase, todo, results >>
  BY <1>1 DEF FinishCall
<1> HIDE DEF type, raisedAfter, stopped
<1>7. pc' \in Nat /\ reg' \in RegType
  <2>1. [ type |-> type, provisional |-> FALSE, early |-> reg.early,
          raised |-> raisedAfter, stopped |-> stopped ] \in RegType
    BY <1>2, <1>5, RegisterOf
  <2> QED BY <1>2, <1>6, <2>1
<1>8. callers' \in [Method -> SUBSET Dependent] /\ UNCHANGED << reads, readers >>
  BY <1>1, <1>2 DEF AddCaller, IInv, EdgesAgree, TypeOK
<1>9. /\ methods' \in [Method -> MethodType] /\ changed' \in [methods : SUBSET Method, shared : SUBSET Key]
      /\ \A n \in Method : methods'[n].ret = methods[n].ret
  BY <1>1, ArgumentTyped
<1>10. TypeOK'
  BY <1>1, <1>6, <1>7, <1>8, <1>9 DEF IInv, EdgesAgree, TypeOK, RegType, MethodType
<1>11. Contracts'
  BY <1>6, <1>9 DEF Contracts, IInv
<1> QED BY <1>8, <1>10, <1>11 DEF IInv, EdgesAgree

(* Calls, and sends that may be dispatched nowhere. *)
LEMMA CallsGood == IInv /\ (Call \/ Send) => IInv'
<1> SUFFICES ASSUME IInv, Call \/ Send PROVE IInv'
  OBVIOUS
<1>1. Running
  BY DEF Call, Send, Here
<1>2. Now.method \in Method /\ reg.type \in Type /\ Now.type \in Type
  BY <1>1, OperationTyped
<1>3. CASE CallWith(Now.method, reg.type) \/ CallWith(Now.method, Now.type)
  BY <1>1, <1>2, <1>3, CallWithGood
<1>4. CASE Step(Any) /\ UNCHANGED << tables, edges, changed >>
  BY <1>4, StepGood, LocalGood, KindsAssumption
<1> QED BY <1>3, <1>4 DEF Call, Send

(* The end of a unit records its result. *)
LEMMA EndGood == IInv /\ End => IInv'
<1> SUFFICES ASSUME IInv, End PROVE IInv'
  OBVIOUS
<1> DEFINE ResultType == [type : Slot, terminates : BOOLEAN, raises : Slot]
<1>1. TypeOK /\ todo # << >>
  BY DEF IInv, EdgesAgree, End, AtEnd
<1>2. Tail(todo) \in Seq(Unit) /\ (Kind0 = "method" => Self \in Method)
  BY <1>1, CurrentUnit
<1>3. /\ reg.type \in Type /\ reg.early \in Slot /\ reg.raised \in Type /\ reg.stopped \in BOOLEAN
      /\ results \in [Method -> ResultType]
  BY <1>1 DEF TypeOK
<1>4. results' \in [Method -> ResultType]
  <2>1. CASE results' = results
    BY <1>3, <2>1
  <2>2. CASE results' # results
    <3> DEFINE r == results[Self]
               type == Widen(r.type, Returned)
               terminates == r.terminates /\ reg.stopped /\ reg.early = None
               raises == IF reg.raised = Never THEN r.raises ELSE Widen(r.raises, reg.raised)
    <3>1. Self \in Method
      BY <1>2, <2>2 DEF End
    <3>2. r.type \in Slot /\ r.terminates \in BOOLEAN /\ r.raises \in Slot
      BY <1>3, <3>1
    <3>3. Returned \in Type
      BY <1>3, KindsAssumption DEF Returned, Slot
    <3>4. type \in Slot /\ terminates \in BOOLEAN /\ raises \in Slot
      <4> HIDE DEF r
      <4>1. type \in Slot /\ raises \in Slot
        BY <1>3, <3>2, <3>3, KindsAssumption DEF Widen, Slot
      <4>2. terminates \in BOOLEAN
        OBVIOUS
      <4> QED BY <4>1, <4>2
    <3>5. results' = [results EXCEPT ![Self] = [type |-> type, terminates |-> terminates, raises |-> raises]]
      BY <2>2 DEF End
    <3> HIDE DEF type, terminates, raises
    <3>6. [type |-> type, terminates |-> terminates, raises |-> raises] \in ResultType
      BY <3>4
    <3> QED BY <1>3, <3>1, <3>5, <3>6
  <2> QED BY <2>1, <2>2
<1>5. reg' \in RegType
  BY KindsAssumption DEF End, Idle, RegType, Slot
<1>6. pc' \in Nat /\ todo' = Tail(todo) /\ UNCHANGED << program, phase, tables, edges, changed >>
  BY DEF End
<1>7. TypeOK'
  BY <1>1, <1>2, <1>4, <1>5, <1>6 DEF TypeOK, RegType, tables, edges
<1> QED BY <1>6, <1>7 DEF IInv, EdgesAgree, Contracts, tables, edges

(* Every step keeps the invariant. *)
LEMMA NextGood == IInv /\ [Next]_vars => IInv'
<1> SUFFICES ASSUME IInv, [Next]_vars PROVE IInv'
  OBVIOUS
<1>1. CASE UNCHANGED vars
  BY <1>1 DEF vars, tables, edges, IInv, EdgesAgree, TypeOK, Contracts
<1>2. CASE Begin \/ End
  BY <1>2, BeginGood, EndGood
<1>3. CASE Const \/ Param \/ Raise \/ Guard
  BY <1>3, LocalStepsGood
<1>4. CASE Call \/ Send
  BY <1>4, CallsGood
<1>5. CASE Read \/ Write \/ Set
  BY <1>5, ReadGood, WriteGood, SetGood
<1>6. CASE EndSeed \/ EndRound \/ EndFinal
  BY <1>6, PassesGood
<1> QED BY <1>1, <1>2, <1>3, <1>4, <1>5, <1>6 DEF Next, Stopped

(* The inductive invariant holds in every state. *)
THEOREM InvariantCorrect == Spec => []IInv
BY InitGood, NextGood, PTL DEF Spec

(***************************************************************************)
(* record_shared_read and begin_method_evaluation keep method_shared_reads *)
(* and shared_readers the two views of one relation, whatever is           *)
(* evaluated, and every table is well typed.                               *)
(***************************************************************************)
THEOREM EdgesCorrect == Spec => []EdgesAgree
BY InvariantCorrect, PTL DEF IInv

-----------------------------------------------------------------------------
(* The action RefinementKept is about. *)
Refined ==
    \A m \in Method : program.explicit[m] =>
        /\ methods[m].ret # Any => methods'[m].ret # Any
        /\ methods[m].param \notin {None, Any} => methods'[m].param # Any

(* Evidence does not take a filled contract back to T.untyped. *)
LEMMA CombineKeeps ==
    ASSUME NEW current \in Type \ {Any}, NEW actual \in Type
    PROVE  Combine(TRUE, current, actual) # Any
BY GradualAssumption DEF Combine

(* The commit of a pass keeps what evidence has filled in. *)
LEMMA CommittedKeeps ==
    ASSUME IInv, NEW m \in Method, program.explicit[m]
    PROVE  /\ methods[m].ret # Any => Committed(m).ret # Any
           /\ Committed(m).param = methods[m].param
<1> DEFINE old == methods[m]  new == results[m]
<1>1. /\ old \in MethodType /\ new.type \in Slot
      /\ old.ret \in Type
  BY DEF IInv, EdgesAgree, TypeOK, Contracts, MethodType, Slot
<1> HIDE DEF old, new
<1>2. CASE new.type = None
  BY <1>2 DEF Committed, old, new
<1>3. CASE new.type # None
  <2>1. old.ret # Any => Combine(TRUE, old.ret, new.type) # Any
    BY <1>1, <1>3, CombineKeeps DEF Slot
  <2>2. Committed(m).ret = Combine(TRUE, old.ret, new.type) /\ Committed(m).param = old.param
    BY <1>1, <1>3 DEF Committed, MethodType, old, new
  <2> QED BY <2>1, <2>2 DEF old
<1> QED BY <1>2, <1>3

(* A call is evidence about one parameter, and keeps what it has. *)
LEMMA CallKeeps ==
    ASSUME IInv, NEW m \in Method, NEW actual \in Type, CallWith(m, actual)
    PROVE  Refined
<1> SUFFICES ASSUME NEW n \in Method, program.explicit[n]
             PROVE  /\ methods[n].ret # Any => methods'[n].ret # Any
                    /\ methods[n].param \notin {None, Any} => methods'[n].param # Any
  BY DEF Refined
<1>1. /\ methods'[n].ret = methods[n].ret
      /\ n # m => methods'[n] = methods[n]
      /\ program.explicit[m] =>
            methods'[m].param = IF methods[m].param = None THEN actual
                                ELSE Combine(TRUE, methods[m].param, actual)
  BY ArgumentTyped DEF CallWith
<1>2. methods[n].param \in Slot
  BY DEF IInv, EdgesAgree, TypeOK
<1>3. CASE n # m
  BY <1>1, <1>3
<1>4. CASE n = m
  BY <1>1, <1>2, <1>4, CombineKeeps DEF Slot
<1> QED BY <1>3, <1>4

(* Every step keeps what evidence has filled in. *)
LEMMA NextKeeps == IInv /\ [Next]_vars => [Refined]_vars
<1> SUFFICES ASSUME IInv, Next PROVE Refined \/ UNCHANGED vars
  OBVIOUS
<1>1. CASE UNCHANGED methods
  BY <1>1 DEF Refined
<1>2. CASE methods' = [m \in Method |-> Committed(m)]
  BY <1>2, CommittedKeeps DEF Refined
<1>3. CASE Call \/ Send
  <2>1. Running
    BY <1>3 DEF Call, Send, Here
  <2>2. Now.method \in Method /\ reg.type \in Type /\ Now.type \in Type
    BY <2>1, OperationTyped
  <2>3. CASE CallWith(Now.method, reg.type) \/ CallWith(Now.method, Now.type)
    BY <2>2, <2>3, CallKeeps
  <2>4. CASE UNCHANGED << tables, edges, changed >>
    BY <1>1, <2>4 DEF tables
  <2> QED BY <1>3, <2>3, <2>4 DEF Call, Send
<1>4. Begin \/ End \/ Const \/ Param \/ Raise \/ Guard \/ Read \/ EndFinal => UNCHANGED methods
  BY DEF Begin, End, Const, Param, Raise, Guard, Read, EndFinal, tables
<1>5. Write \/ Set => UNCHANGED methods
  BY DEF Write, Set, Observe, tables
<1>6. EndSeed \/ EndRound => methods' = [m \in Method |-> Committed(m)]
  BY DEF EndSeed, EndRound
<1> QED BY <1>1, <1>2, <1>3, <1>4, <1>5, <1>6 DEF Next, Stopped

(***************************************************************************)
(* A return or a parameter that evidence has filled in is never untyped    *)
(* again: observe_call and commit_inferred_returns only go through         *)
(* combine_observed_type for an explicit contract.                         *)
(***************************************************************************)
THEOREM RefinementCorrect == Spec => RefinementKept
<1>1. IInv /\ [Next]_vars => [Refined]_vars
  BY NextKeeps
<1> QED BY <1>1, InvariantCorrect, PTL DEF Spec, RefinementKept, Refined

-----------------------------------------------------------------------------
(***************************************************************************)
(* What the final pass finds.  The register of a unit after an operation,  *)
(* and what it would take of the tables for the operation to change none   *)
(* of them.                                                                *)
(***************************************************************************)

\* What a call answers when no method calls itself.
Answer(m) == IF methods[m].ret = None THEN Any ELSE methods[m].ret
Raised(m) == IF methods[m].raises = None THEN Never ELSE methods[m].raises
Calls(I, g) == I.op = "call" \/ (I.op = "send" /\ Known(g.type))
Argument(I, g) == IF I.op = "call" THEN g.type ELSE I.type

\* The register after an operation of a unit.
AfterCall(u, I, g) ==
    [ type |-> IF I.alt = None THEN Answer(I.method) ELSE Join(Answer(I.method), I.alt),
      provisional |-> FALSE, early |-> g.early,
      raised |-> IF Answer(I.method) # Never \/ program.key[u] = None THEN g.raised
                 ELSE Join(g.raised, Raised(I.method)),
      stopped |-> Answer(I.method) = Never /\ I.alt = None /\ program.key[u] # None ]
AfterRaise(u, I, g) ==
    [ type |-> IF I.alt = None THEN Never ELSE I.alt, provisional |-> FALSE, early |-> g.early,
      raised |-> IF program.key[u] = None THEN g.raised ELSE Join(g.raised, I.type),
      stopped |-> I.alt = None /\ program.key[u] # None ]
AfterGuard(I, g) ==
    [g EXCEPT !.type = NonNil(g.type), !.stopped = NonNil(g.type) = Never,
              !.early = IF g.type # Never /\ Join(g.type, Nil) = g.type THEN Widen(g.early, I.type) ELSE g.early]
AfterParam(u, g) ==
    LET slot == methods[program.key[u]].param
    IN  [g EXCEPT !.type = IF slot = None THEN Any ELSE slot, !.provisional = slot \in {None, Any}]
Becomes(g, t) == [g EXCEPT !.type = t, !.provisional = FALSE]
After(u, I, g) ==
    IF Calls(I, g) THEN AfterCall(u, I, g)
    ELSE IF I.op = "raise" THEN AfterRaise(u, I, g)
    ELSE IF I.op = "guard" THEN AfterGuard(I, g)
    ELSE IF I.op = "param" THEN AfterParam(u, g)
    ELSE Becomes(g, IF I.op = "send" THEN Any ELSE IF I.op = "read" THEN ReadType(I.key)
                    ELSE IF I.op = "write" THEN g.type ELSE I.type)

\* The tables hold what it says: evidence for a parameter, a value written.
Taken(m, a) ==
    /\ methods[m].param # None
    /\ program.explicit[m] /\ a # Any => methods[m].param # Any
    /\ ~ (program.explicit[m] /\ a = Any) => Join(methods[m].param, a) = methods[m].param
Holds(k, t) == shared[k] # None /\ k \notin provisional /\ Join(shared[k], t) = shared[k]
Guess(k, g) == program.storage[k] = "ivar" /\ g.provisional /\ g.type = Any
Written(u, k, g) ==
    /\ Guess(k, g) => shared[k] # None
    /\ ~ Guess(k, g) => Holds(k, g.type)
    /\ program.storage[k] = "ivar" /\ program.initializer[u] => k \in initialized
Quiet(u, I, g) ==
    /\ Calls(I, g) => Taken(I.method, Argument(I, g))
    /\ I.op = "set" /\ Known(g.type) => Holds(I.key, I.type)
    /\ I.op = "write" => Written(u, I.key, g)
    /\ I.op = "param" => program.kind[u] = "method"

\* Who hears of a change of what an operation depends on.
Writes(u, k) == \E i \in DOMAIN program.code[u] :
    program.code[u][i].op \in {"write", "set"} /\ program.code[u][i].key = k
Reads(u, k) == \E i \in DOMAIN program.code[u] :
    program.code[u][i].op = "read" /\ program.code[u][i].key = k
Unwritten(k) == \A u \in Unit : ~ Writes(u, k)
Linked(u, I, g) ==
    program.key[u] # None =>
        /\ Calls(I, g) => program.key[u] \in callers[I.method]
        /\ I.op = "read" => program.key[u] \in readers[I.key] \/ Unwritten(I.key)

\* The first n registers of an evaluation that changes nothing.
Runs(u, tr, n) ==
    /\ n \in Nat \ {0} /\ tr \in [1 .. n -> RegType] /\ tr[1] = Idle
    /\ \A i \in 1 .. n - 1 :
          /\ i \in DOMAIN program.code[u] /\ ~ tr[i].stopped
          /\ tr[i + 1] = After(u, program.code[u][i], tr[i])
          /\ Quiet(u, program.code[u][i], tr[i])
LinkedRun(u, tr, n) == \A i \in 1 .. n - 1 : Linked(u, program.code[u][i], tr[i])
Complete(u, g, n) == g.stopped \/ n > Len(program.code[u])

\* Eval::method_return_type, and the summary that will cover it.
Result(g) ==
    CASE g.early = None -> g.type
      [] g.early # None /\ g.stopped -> g.early
      [] OTHER -> Join(g.type, g.early)
Summary(m) == IF results[m].type = None THEN methods[m].ret ELSE results[m].type
Covered(u, g) ==
    program.kind[u] = "method" /\ ~ program.explicit[program.key[u]] =>
        /\ Summary(program.key[u]) # None
        /\ Join(Summary(program.key[u]), Result(g)) = Summary(program.key[u])

Settled(u) == \E n \in Nat : \E tr \in [1 .. n -> RegType] :
    Runs(u, tr, n) /\ LinkedRun(u, tr, n) /\ Complete(u, tr[n], n) /\ Covered(u, tr[n])
Replayable(u) == \E n \in Nat : \E tr \in [1 .. n -> RegType] :
    Runs(u, tr, n) /\ Complete(u, tr[n], n) /\ Covered(u, tr[n])
Outdated(u) ==
    \/ program.key[u] \in changed.methods
    \/ \E k \in changed.shared : Reads(u, k) /\ (program.key[u] = None \/ program.key[u] \in readers[k])
-----------------------------------------------------------------------------
(***************************************************************************)
(* What the theorems ask of a program and its run: that whoever depends on *)
(* a change hears of it.  Each part is a place where the code does not see *)
(* to it by itself, and without which the final pass may find something    *)
(* new (README, section 3).                                                *)
(***************************************************************************)

\* An inferred method does not call itself.
NoSelfCall ==
    \A u \in Unit : program.kind[u] = "method" /\ ~ program.explicit[program.key[u]] =>
        \A i \in DOMAIN program.code[u] :
            program.code[u][i].op \in {"call", "send"} => program.code[u][i].method # program.key[u]
\* An ivar that is read before it is written is never written.
ReadsWritten ==
    phase = "round" /\ Here("read") /\ Self # None
        /\ program.storage[Now.key] = "ivar" /\ shared[Now.key] = None => Unwritten(Now.key)
\* Of several definitions of a key only the last reads shared variables.
LastReads ==
    phase = "round" /\ pc = 0 /\ todo # << >> /\ Self # None =>
        \A v \in Range(program.order) \ {Unit0} :
            program.key[v] = Self /\ (\E k \in Key : Reads(v, k)) => v \in Range(Tail(todo))
\* When no method is scheduled, no body is, and the last round changed nothing the top level reads.
NextAffected == Affected(changed.methods \union CommitChanges, changed.shared)
RoundsSettle ==
    phase = "round" /\ todo = << >> /\ NextAffected \intersect Method = {} =>
        /\ NextAffected \intersect Body = {}
        /\ \A u \in Range(program.order) : program.kind[u] = "top" => \A k \in changed.shared : ~ Reads(u, k)
\* A guess is not written over evidence that is untyped.
GuessesFirst ==
    phase # "seed" /\ Here("write") /\ Guess(Now.key, reg) => shared[Now.key] # Any \/ Now.key \in provisional
\* instance_variable_set does not meet a guess.
SetsSettled ==
    phase # "seed" /\ Here("set") /\ Known(reg.type) => Now.key \notin provisional

Heard == NoSelfCall /\ ReadsWritten /\ LastReads /\ RoundsSettle /\ GuessesFirst /\ SetsSettled

(***************************************************************************)
(* What they ask of Type::join: a join absorbs what it was given, and      *)
(* keeps what it has absorbed.  TypeLattice says where the two gradual     *)
(* tops break it.                                                          *)
(***************************************************************************)
Absorbing ==
    \A s, t, u \in Type :
        /\ Join(t, t) = t
        /\ Join(Join(s, t), t) = Join(s, t)
        /\ Join(s, t) = s => Join(Join(s, u), t) = Join(s, u)
-----------------------------------------------------------------------------
(* A widened slot holds what it was given. *)
LEMMA WidenHolds ==
    ASSUME Absorbing, NEW slot \in Slot, NEW t \in Type
    PROVE  Widen(slot, t) \in Type /\ Widen(slot, t) # None /\ Join(Widen(slot, t), t) = Widen(slot, t)
BY KindsAssumption DEF Absorbing, Widen, Slot

(* A widened slot keeps what it held. *)
LEMMA WidenKeeps ==
    ASSUME Absorbing, NEW s \in Type, NEW t \in Type, NEW u \in Type, Join(s, t) = s
    PROVE  Widen(s, u) \in Type /\ Widen(s, u) # None /\ Join(Widen(s, u), t) = Widen(s, u)
<1>1. s # None /\ None \notin Type /\ Join(s, u) \in Type
  BY KindsAssumption
<1>2. Widen(s, u) = Join(s, u)
  BY <1>1 DEF Widen
<1>3. Join(Join(s, u), t) = Join(s, u)
  BY DEF Absorbing
<1> QED BY <1>1, <1>2, <1>3

(* The tables a step leaves alone leave the runs of every unit alone. *)
LEMMA FrameKeeps ==
    ASSUME NEW u, NEW I, NEW g, methods' = methods, shared' = shared, initialized' = initialized,
           provisional' \subseteq provisional, program' = program
    PROVE  After(u, I, g)' = After(u, I, g) /\ (Quiet(u, I, g) => Quiet(u, I, g)')
<1>1. After(u, I, g)' = After(u, I, g)
  BY DEF After, AfterCall, AfterParam, AfterRaise, AfterGuard, Answer, Raised, Calls, ReadType
<1>2. Taken(I.method, Argument(I, g))' <=> Taken(I.method, Argument(I, g))
  BY DEF Taken, Argument
<1>3. \A k, t : Holds(k, t) => Holds(k, t)'
  BY DEF Holds
<1>4. Written(u, I.key, g) => Written(u, I.key, g)'
  BY <1>3 DEF Written, Guess
<1>5. Quiet(u, I, g) => Quiet(u, I, g)'
  BY <1>2, <1>3, <1>4 DEF Quiet
<1> QED BY <1>1, <1>5

(* Where an operation is evaluated. *)
LEMMA HereNow ==
    ASSUME NEW op PROVE Here(op) <=> Running /\ Now.op = op
BY DEF Here, Now

\* One operation of the current unit.
Operation == Const \/ Param \/ Call \/ Send \/ Raise \/ Guard \/ Read \/ Write \/ Set

(* An operation is evaluated where the unit stands, and ends no pass. *)
LEMMA OperationHere ==
    ASSUME Operation
    PROVE  /\ Running
           /\ Now.op \in {"const", "param", "call", "send", "read", "write", "set", "raise", "guard"}
           /\ UNCHANGED << program, phase, todo, results >>
<1>1. /\ Running
      /\ Now.op \in {"const", "param", "call", "send", "read", "write", "set", "raise", "guard"}
  BY HereNow DEF Operation, Const, Param, Call, Send, Raise, Guard, Read, Write, Set
<1>2. UNCHANGED << program, phase, todo, results >>
  BY DEF Operation, Const, Param, Call, Send, Raise, Guard, Read, Write, Set, Step, CallWith, FinishCall
<1> QED BY <1>1, <1>2

(* No call meets the case of a recursive one. *)
LEMMA NotRecursive ==
    ASSUME IInv, NoSelfCall, Running, Now.op \in {"call", "send"}
    PROVE  ~ Recursive(Now.method)
<1>1. /\ TypeOK /\ Unit0 \in Unit /\ Now.method \in Method /\ pc \in Nat
      /\ program.code[Unit0] \in Seq(Instruction)
  BY OperationTyped, CurrentUnit DEF IInv, EdgesAgree, Running
<1>2. pc \in DOMAIN program.code[Unit0]
  BY <1>1 DEF Running
<1>3. /\ program.kind[Unit0] = "body" => program.key[Unit0] \in Body
      /\ program.kind[Unit0] = "top" => program.key[Unit0] = None
      /\ program.kind[Unit0] \in {"top", "body", "method"}
  BY <1>1, ProgramAssumption, ProgramTyped DEF TypeOK
<1>4. program.key[Unit0] = Now.method => program.kind[Unit0] = "method"
  BY <1>1, <1>3, KindsAssumption DEF Dependent
<1> QED BY <1>1, <1>2, <1>4 DEF NoSelfCall, Recursive, Self, Now

(* An operation moves the register as After says. *)
LEMMA MovesOn ==
    ASSUME IInv, NoSelfCall, Operation
    PROVE  reg' = After(Unit0, Now, reg) /\ (pc' = pc + 1 \/ reg'.stopped)
<1>1. Running /\ reg \in RegType
  BY OperationHere, OperationTyped
<1>2. CASE Const \/ Read \/ Write \/ Set
  <2>1. CASE Const
    BY <2>1, HereNow DEF Const, Step, After, Calls, Becomes
  <2>2. CASE Read
    BY <2>2, HereNow DEF Read, Step, After, Calls, Becomes
  <2>3. CASE Write
    BY <2>3, HereNow DEF Write, Step, After, Calls, Becomes
  <2>4. CASE Set
    BY <2>4, HereNow DEF Set, Step, After, Calls, Becomes
  <2> QED BY <1>2, <2>1, <2>2, <2>3, <2>4
<1>3. CASE Param
  BY <1>3, HereNow DEF Param, After, Calls, AfterParam, Self
<1>4. CASE Raise
  BY <1>4, HereNow DEF Raise, After, Calls, AfterRaise, Self
<1>5. CASE Guard
  <2> DEFINE goesOn == NonNil(reg.type) # Never
             leaves == reg.type # Never /\ Join(reg.type, Nil) = reg.type
             early == IF leaves THEN Widen(reg.early, Now.type) ELSE reg.early
  <2>1. /\ Now.op = "guard"
        /\ pc' = IF goesOn THEN pc + 1 ELSE Len(program.code[Unit0]) + 1
        /\ reg' = [reg EXCEPT !.type = NonNil(reg.type), !.stopped = ~ goesOn, !.early = early]
    BY <1>5, HereNow DEF Guard
  <2>2. After(Unit0, Now, reg) = AfterGuard(Now, reg)
    BY <2>1 DEF After, Calls
  <2>3. AfterGuard(Now, reg) = [reg EXCEPT !.type = NonNil(reg.type), !.stopped = NonNil(reg.type) = Never, !.early = early]
    BY DEF AfterGuard
  <2>4. (~ goesOn) = (NonNil(reg.type) = Never)
    OBVIOUS
  <2>5. reg'.stopped = ~ goesOn
    <3> HIDE DEF goesOn, early
    <3> QED BY <1>1, <2>1 DEF RegType
  <2> QED BY <2>1, <2>2, <2>3, <2>4, <2>5
<1>6. CASE Call \/ (Send /\ Known(reg.type))
  <2> DEFINE m == Now.method
             type == CallType(m)
  <2>1. Now.op \in {"call", "send"} /\ Calls(Now, reg) /\ FinishCall(m, CallType(m))
    BY <1>6, HereNow DEF Call, Send, CallWith, Calls
  <2>2. ~ Recursive(m)
    BY <1>1, <2>1, NotRecursive
  <2>3. CallType(m) = Answer(m)
    BY <2>2 DEF CallType, Answer
  <2>4. FinishCall(m, Answer(m))
    BY <2>1, <2>3
  <2>5. pc' = pc + 1 /\ reg' = AfterCall(Unit0, Now, reg)
    BY <2>2, <2>4 DEF FinishCall, AfterCall, Raised, Self
  <2> QED BY <2>1, <2>5 DEF After
<1>7. CASE Send /\ ~ Known(reg.type)
  BY <1>7, HereNow DEF Send, Step, After, Calls, Becomes
<1> QED BY <1>2, <1>3, <1>4, <1>5, <1>6, <1>7 DEF Operation

(* What a call was given as evidence is taken. *)
LEMMA ObservedTakes ==
    ASSUME IInv, Absorbing, NEW m \in Method, NEW a \in Type, ~ Recursive(m), ObserveArgument(m, a), program' = program
    PROVE  Taken(m, a)'
<1> DEFINE old == methods[m].param
           new == IF old = None THEN a ELSE Combine(program.explicit[m], old, a)
<1>1. /\ methods \in [Method -> MethodType] /\ old \in Slot /\ program.explicit[m] \in BOOLEAN
  BY ProgramTyped DEF IInv, EdgesAgree, TypeOK, MethodType
<1>2. methods' = [methods EXCEPT ![m].param = new]
  BY DEF ObserveArgument
<1> HIDE DEF new
<1>3. methods'[m].param = new
  BY <1>1, <1>2 DEF MethodType
<1>4. Join(a, a) = a /\ a # None
  BY KindsAssumption DEF Absorbing
<1>5. CASE old = None
  BY <1>3, <1>4, <1>5 DEF Taken, new
<1>6. CASE old # None
  <2>1. old \in Type
    BY <1>1, <1>6 DEF Slot
  <2>2. Join(old, a) \in Type /\ Join(old, a) # None /\ Join(Join(old, a), a) = Join(old, a)
    <3>1. Join(old, a) \in Type /\ Join(old, a) # None
      BY <2>1, KindsAssumption
    <3>2. Join(Join(old, a), a) = Join(old, a)
      BY <2>1 DEF Absorbing
    <3> QED BY <3>1, <3>2
  <2>3. CASE ~ program.explicit[m]
    BY <1>1, <1>3, <1>6, <2>2, <2>3 DEF Taken, new, Combine
  <2>4. CASE program.explicit[m] /\ a = Any
    <3>1. new = old
      BY <1>6, <2>4 DEF new, Combine
    <3> QED BY <1>3, <1>6, <2>4, <3>1 DEF Taken
  <2>5. CASE program.explicit[m] /\ a # Any
    <3>1. new = IF old = Any THEN a ELSE Join(old, a)
      BY <1>6, <2>5 DEF new, Combine
    <3>2. old # Any => Join(old, a) # Any
      BY <2>1, <2>5, GradualAssumption
    <3>3. new # None /\ new # Any /\ Join(new, a) = new
      BY <1>4, <2>2, <2>5, <3>1, <3>2
    <3> QED BY <1>3, <3>3 DEF Taken
  <2> QED BY <1>1, <2>3, <2>4, <2>5
<1> QED BY <1>5, <1>6

(* Evidence that was taken is not undone by more evidence. *)
LEMMA ObservedKeeps ==
    ASSUME IInv, Absorbing, NEW m \in Method, NEW a \in Type, ~ Recursive(m), ObserveArgument(m, a), program' = program,
           NEW n \in Method, NEW b \in Type, Taken(n, b)
    PROVE  Taken(n, b)'
<1> DEFINE old == methods[m].param
           new == IF old = None THEN a ELSE Combine(program.explicit[m], old, a)
<1>1. /\ methods \in [Method -> MethodType] /\ old \in Slot /\ program.explicit[m] \in BOOLEAN
  BY ProgramTyped DEF IInv, EdgesAgree, TypeOK, MethodType
<1>2. methods' = [methods EXCEPT ![m].param = new]
  BY DEF ObserveArgument
<1> HIDE DEF new
<1>3. methods'[m].param = new /\ \A x \in Method : x # m => methods'[x] = methods[x]
  BY <1>1, <1>2 DEF MethodType
<1>4. CASE n # m
  BY <1>3, <1>4 DEF Taken
<1>5. CASE n = m
  <2>1. old # None /\ old \in Type /\ Taken(m, b)
    BY <1>1, <1>5 DEF Taken, Slot
  <2>2. Join(old, a) \in Type /\ Join(old, a) # None
    BY <2>1, KindsAssumption
  <2>3. Join(old, b) = old => Join(Join(old, a), b) = Join(old, a)
    BY <2>1 DEF Absorbing
  <2>4. new = old \/ (program.explicit[m] /\ old = Any /\ a # Any /\ new = a) \/ new = Join(old, a)
    BY <2>1 DEF new, Combine
  <2>5. CASE new = old
    BY <1>3, <1>5, <2>1, <2>5 DEF Taken
  <2>6. CASE program.explicit[m] /\ old = Any /\ a # Any /\ new = a
    <3>1. b = Any /\ a # None
      BY <2>1, <2>6, KindsAssumption DEF Taken
    <3> QED BY <1>3, <1>5, <2>6, <3>1 DEF Taken
  <2>7. CASE new = Join(old, a) /\ ~ program.explicit[m]
    BY <1>1, <1>3, <1>5, <2>1, <2>2, <2>3, <2>7 DEF Taken
  <2>8. CASE new = Join(old, a) /\ program.explicit[m] /\ new # old
    <3>1. (a # Any /\ old # Any) \/ (new = a /\ a # Any /\ old = Any)
      BY <2>1, <2>8 DEF new, Combine
    <3>2. a # Any /\ old # Any => Join(old, a) # Any
      BY <2>1, GradualAssumption
    <3> QED BY <1>3, <1>5, <2>1, <2>2, <2>3, <2>6, <2>8, <3>1, <3>2 DEF Taken
  <2> QED BY <1>1, <2>4, <2>5, <2>6, <2>7, <2>8
<1> QED BY <1>4, <1>5

(* What a round evaluates: the top level, the active bodies and the scheduled methods. *)
LEMMA RoundRange ==
    ASSUME IInv, NEW scheduled, NEW active
    PROVE  Range(RoundUnits(program, scheduled, active)) =
             { u \in Range(program.order) :
                  \/ program.kind[u] = "top"
                  \/ program.kind[u] = "body" /\ program.key[u] \in active
                  \/ program.kind[u] = "method" /\ program.key[u] \in scheduled }
<1>1. program.order \in Seq(Unit)
  BY ProgramTyped DEF IInv, EdgesAgree
<1>2. Range(program.order) \subseteq Unit
  BY <1>1 DEF Range
<1> DEFINE first == { u \in Unit : program.kind[u] = "top" \/ (program.kind[u] = "body" /\ program.key[u] \in active) }
           second == { u \in Unit : program.kind[u] = "method" /\ program.key[u] \in scheduled }
<1>3. RoundUnits(program, scheduled, active) = InOrder(program.order, first) \o InOrder(program.order, second)
  BY DEF RoundUnits
<1>4. Range(RoundUnits(program, scheduled, active)) = (Range(program.order) \intersect first) \union (Range(program.order) \intersect second)
  <2> HIDE DEF first, second
  <2> QED BY <1>1, <1>3, InOrderRange, ConcatRange
<1> QED BY <1>2, <1>4

(***************************************************************************)
(* What an operation does to what other evaluations depend on: whatever it *)
(* changes is marked, and what the tables hold they go on holding.         *)
(***************************************************************************)
Grows ==
    /\ program' = program
    /\ \A m \in Method :
          /\ methods'[m].ret = methods[m].ret /\ methods'[m].raises = methods[m].raises
          /\ methods'[m].param = methods[m].param \/ m \in changed'.methods
          /\ callers[m] \subseteq callers'[m]
          /\ \A a \in Type : Taken(m, a) => Taken(m, a)'
    /\ \A k \in Key :
          /\ \/ shared'[k] = shared[k] /\ (k \in initialized' <=> k \in initialized)
             \/ k \in changed'.shared /\ Writes(Unit0, k)
          /\ readers[k] \subseteq readers'[k]
          /\ shared[k] # None => shared'[k] # None
          /\ k \in initialized => k \in initialized'
          /\ \A t \in Type : Holds(k, t) => Holds(k, t)'
    /\ changed.methods \subseteq changed'.methods /\ changed.shared \subseteq changed'.shared

(* What an instruction is made of, and the unit it stands in. *)
LEMMA InstructionTyped ==
    ASSUME IInv, NEW v \in Unit, NEW i \in DOMAIN program.code[v]
    PROVE  LET I == program.code[v][i] IN
           /\ I \in Instruction
           /\ I.method \in Method /\ I.key \in Key /\ I.type \in Type /\ I.alt \in Slot
           /\ program.kind[v] = "method" => program.key[v] \in Method
           /\ program.kind[v] \in {"top", "body", "method"}
<1>1. program.code[v] \in Seq(Instruction)
  BY ProgramTyped DEF IInv, EdgesAgree
<1>2. program.code[v][i] \in Instruction
  BY <1>1, ElementOfSeq
<1>3. program.kind[v] \in {"top", "body", "method"} /\ (program.kind[v] = "method" => program.key[v] \in Method)
  BY ProgramTyped DEF IInv, EdgesAgree
<1> QED BY <1>2, <1>3 DEF Instruction, Slot

(* An operation marks who depends on what it changes, and leaves the rest. *)
LEMMA KeptByOperation ==
    ASSUME IInv, Grows, Unit0 \in Unit, NEW v \in Unit, NEW I, NEW g \in RegType,
           NEW i \in DOMAIN program.code[v], I = program.code[v][i], Quiet(v, I, g), Linked(v, I, g)
    PROVE  \/ Outdated(v)'
           \/ Quiet(v, I, g)' /\ Linked(v, I, g)' /\ After(v, I, g)' = After(v, I, g)
<1>1. /\ I.method \in Method /\ I.key \in Key /\ I.type \in Type
      /\ program.kind[v] = "method" => program.key[v] \in Method
  BY InstructionTyped
<1>2. g.type \in Type /\ Argument(I, g) \in Type
  BY <1>1 DEF RegType, Argument
<1>3. program' = program
  BY DEF Grows
<1>4. Quiet(v, I, g)'
  <2>1. Calls(I, g) => Taken(I.method, Argument(I, g))'
    BY <1>1, <1>2 DEF Grows, Quiet
  <2>2. I.op = "set" /\ Known(g.type) => Holds(I.key, I.type)'
    BY <1>1, <1>2 DEF Grows, Quiet
  <2>3. Written(v, I.key, g) => Written(v, I.key, g)'
    <3>1. Holds(I.key, g.type) => Holds(I.key, g.type)'
      BY <1>1, <1>2 DEF Grows
    <3>2. /\ shared[I.key] # None => shared'[I.key] # None
          /\ I.key \in initialized => I.key \in initialized'
      BY <1>1 DEF Grows
    <3> QED BY <1>3, <3>1, <3>2 DEF Written, Guess
  <2> QED BY <1>3, <2>1, <2>2, <2>3 DEF Quiet, Calls, Argument
<1>5. Linked(v, I, g)'
  <2>1. callers[I.method] \subseteq callers'[I.method] /\ readers[I.key] \subseteq readers'[I.key]
    BY <1>1 DEF Grows
  <2>2. Unwritten(I.key)' <=> Unwritten(I.key)
    BY <1>3 DEF Unwritten, Writes
  <2> QED BY <1>3, <2>1, <2>2 DEF Linked, Calls
<1>6. CASE I.op = "read" /\ ReadType(I.key)' # ReadType(I.key)
  <2>1. I.key \in changed'.shared /\ Writes(Unit0, I.key)
    <3>1. ~ (shared'[I.key] = shared[I.key] /\ (I.key \in initialized' <=> I.key \in initialized))
      BY <1>3, <1>6 DEF ReadType
    <3> QED BY <1>1, <3>1 DEF Grows
  <2>2. ~ Unwritten(I.key)
    BY <2>1 DEF Unwritten
  <2>3. program.key[v] = None \/ program.key[v] \in readers'[I.key]
    BY <1>1, <1>6, <2>2 DEF Linked, Grows
  <2>4. Reads(v, I.key)'
    BY <1>3, <1>6 DEF Reads
  <2> QED BY <1>3, <2>1, <2>3, <2>4 DEF Outdated
<1>7. CASE I.op = "param" /\ methods'[program.key[v]].param # methods[program.key[v]].param
  <2>1. program.key[v] \in Method
    BY <1>1, <1>7 DEF Quiet
  <2> QED BY <1>3, <1>7, <2>1 DEF Grows, Outdated
<1>8. CASE /\ I.op = "read" => ReadType(I.key)' = ReadType(I.key)
           /\ I.op = "param" => methods'[program.key[v]].param = methods[program.key[v]].param
  <2>1. Answer(I.method)' = Answer(I.method) /\ Raised(I.method)' = Raised(I.method)
    BY <1>1 DEF Grows, Answer, Raised
  <2>2. AfterCall(v, I, g)' = AfterCall(v, I, g)
    BY <1>3, <2>1 DEF AfterCall
  <2>3. AfterRaise(v, I, g)' = AfterRaise(v, I, g)
    BY <1>3 DEF AfterRaise
  <2>4. I.op = "param" => AfterParam(v, g)' = AfterParam(v, g)
    BY <1>3, <1>8 DEF AfterParam
  <2>5. After(v, I, g)' = After(v, I, g)
    BY <1>3, <1>8, <2>2, <2>3, <2>4 DEF After, Calls, AfterGuard, Becomes
  <2> QED BY <1>4, <1>5, <2>5
<1> QED BY <1>6, <1>7, <1>8

(* An operation that touches no table. *)
LEMMA LocalGrows ==
    ASSUME IInv, UNCHANGED << program, tables, changed >>,
           \A m \in Method : callers[m] \subseteq callers'[m],
           \A k \in Key : readers[k] \subseteq readers'[k]
    PROVE  Grows
<1>1. UNCHANGED << program, methods, shared, initialized, provisional, changed >>
  BY DEF tables
<1>2. \A m, a : Taken(m, a) => Taken(m, a)'
  BY <1>1 DEF Taken
<1>3. \A k, t : Holds(k, t) => Holds(k, t)'
  BY <1>1 DEF Holds
<1> QED BY <1>1, <1>2, <1>3 DEF Grows

(* A call is evidence about one parameter, and marks its method. *)
LEMMA CallGrows ==
    ASSUME IInv, Absorbing, NEW m \in Method, NEW a \in Type, ~ Recursive(m), CallWith(m, a)
    PROVE  Grows
<1>1. /\ AddCaller(m) /\ ObserveArgument(m, a)
      /\ UNCHANGED << program, shared, initialized, provisional >>
  BY DEF CallWith, FinishCall
<1>2. /\ methods \in [Method -> MethodType] /\ callers \in [Method -> SUBSET Dependent]
      /\ changed \in [methods : SUBSET Method, shared : SUBSET Key]
  BY DEF IInv, EdgesAgree, TypeOK, MethodType
<1> DEFINE old == methods[m].param
           new == CASE Recursive(m) /\ a = Any -> old
                    [] old = None -> a
                    [] OTHER -> Combine(program.explicit[m], old, a)
<1>3. /\ methods' = [methods EXCEPT ![m].param = new]
      /\ changed' = IF new = old THEN changed ELSE [changed EXCEPT !.methods = @ \union {m}]
  BY <1>1 DEF ObserveArgument
<1> HIDE DEF new
<1>4. \A n \in Method :
          /\ methods'[n].ret = methods[n].ret /\ methods'[n].raises = methods[n].raises
          /\ methods'[n].param = methods[n].param \/ n \in changed'.methods
  <2> SUFFICES ASSUME NEW n \in Method
               PROVE  /\ methods'[n].ret = methods[n].ret /\ methods'[n].raises = methods[n].raises
                      /\ methods'[n].param = methods[n].param \/ n \in changed'.methods
    OBVIOUS
  <2>1. CASE n # m
    BY <1>2, <1>3, <2>1 DEF MethodType
  <2>2. CASE n = m
    <3>1. /\ methods'[m].ret = methods[m].ret /\ methods'[m].raises = methods[m].raises
          /\ methods'[m].param = new
      BY <1>2, <1>3 DEF MethodType
    <3>2. new = old \/ m \in changed'.methods
      BY <1>2, <1>3
    <3> QED BY <2>2, <3>1, <3>2
  <2> QED BY <2>1, <2>2
<1>5. changed.methods \subseteq changed'.methods /\ changed.shared = changed'.shared
  BY <1>2, <1>3
<1>6. \A n \in Method : callers[n] \subseteq callers'[n]
  BY <1>1, <1>2 DEF AddCaller
<1>7. readers' = readers
  BY <1>1 DEF AddCaller
<1>8. \A n \in Method, b \in Type : Taken(n, b) => Taken(n, b)'
  BY <1>1, ObservedKeeps
<1>9. \A k, t : Holds(k, t) => Holds(k, t)'
  BY <1>1 DEF Holds
<1> QED BY <1>1, <1>4, <1>5, <1>6, <1>7, <1>8, <1>9 DEF Grows

(* The operation stands in the code of the unit. *)
LEMMA InCode ==
    ASSUME IInv, Running
    PROVE  Unit0 \in Unit /\ pc \in DOMAIN program.code[Unit0] /\ Now = program.code[Unit0][pc]
<1>1. Unit0 \in Unit /\ pc \in Nat /\ program.code[Unit0] \in Seq(Instruction)
  BY OperationTyped, CurrentUnit DEF IInv, EdgesAgree, Running
<1> QED BY <1>1 DEF Running, Now

(* Observing a value of a shared variable keeps what is held of the others. *)
LEMMA SharedGrows ==
    ASSUME IInv, NEW k \in Key, NEW new \in Type, Writes(Unit0, k),
           shared' = [shared EXCEPT ![k] = new],
           initialized \subseteq initialized', initialized' \subseteq initialized \union {k},
           changed.shared \subseteq changed'.shared, changed'.methods = changed.methods,
           k \in changed'.shared \/ (new = shared[k] /\ initialized' = initialized),
           provisional' \subseteq provisional \union {k},
           \A t \in Type : Holds(k, t) => k \notin provisional' /\ Join(new, t) = new,
           UNCHANGED << program, methods, edges >>
    PROVE  Grows
<1>1. shared \in [Key -> Slot] /\ new # None
  BY KindsAssumption DEF IInv, EdgesAgree, TypeOK
<1>2. shared'[k] = new /\ \A j \in Key : j # k => shared'[j] = shared[j]
  BY <1>1
<1>3. \A m, a : Taken(m, a) => Taken(m, a)'
  BY DEF Taken
<1>4. \A j \in Key :
          /\ \/ shared'[j] = shared[j] /\ (j \in initialized' <=> j \in initialized)
             \/ j \in changed'.shared /\ Writes(Unit0, j)
          /\ shared[j] # None => shared'[j] # None
          /\ j \in initialized => j \in initialized'
  <2> SUFFICES ASSUME NEW j \in Key
               PROVE  /\ \/ shared'[j] = shared[j] /\ (j \in initialized' <=> j \in initialized)
                         \/ j \in changed'.shared /\ Writes(Unit0, j)
                      /\ shared[j] # None => shared'[j] # None
                      /\ j \in initialized => j \in initialized'
    OBVIOUS
  <2>1. CASE j = k
    BY <1>1, <1>2, <2>1
  <2>2. CASE j # k
    BY <1>2, <2>2
  <2> QED BY <2>1, <2>2
<1>5. \A j \in Key, t \in Type : Holds(j, t) => Holds(j, t)'
  <2> SUFFICES ASSUME NEW j \in Key, NEW t \in Type, Holds(j, t) PROVE Holds(j, t)'
    OBVIOUS
  <2>1. CASE j = k
    BY <1>1, <1>2, <2>1 DEF Holds
  <2>2. CASE j # k
    BY <1>2, <2>2 DEF Holds
  <2> QED BY <2>1, <2>2
<1> QED BY <1>3, <1>4, <1>5 DEF Grows, edges

(* A write keeps what is held, unless it is a guess over untyped evidence. *)
LEMMA WriteGrows ==
    ASSUME IInv, Absorbing, Write, ~ Guess(Now.key, reg) \/ shared[Now.key] # Any \/ Now.key \in provisional
    PROVE  Grows
<1> DEFINE k == Now.key
           actual == reg.type
           ivar == program.storage[k] = "ivar"
           guess == ivar /\ reg.provisional /\ actual = Any
           kept == guess /\ shared[k] \notin {None, Any}
           new == CASE kept -> shared[k]
                    [] ~ kept /\ ivar /\ actual # Any /\ k \in provisional /\ shared[k] = Any -> actual
                    [] OTHER -> Widen(shared[k], actual)
<1>1. Running /\ Observe(k, actual, reg.provisional, program.initializer[Unit0])
      /\ UNCHANGED << program, methods, edges >> /\ Now.op = "write"
  BY HereNow DEF Write, Step, Observe
<1>2. k \in Key /\ actual \in Type
  BY <1>1, OperationTyped
<1>3. /\ shared \in [Key -> Slot] /\ shared[k] \in Slot
      /\ changed \in [methods : SUBSET Method, shared : SUBSET Key]
  BY <1>2 DEF IInv, EdgesAgree, TypeOK
<1>4. /\ shared' = [shared EXCEPT ![k] = new]
      /\ provisional' = IF guess /\ ~ kept THEN provisional \union {k} ELSE provisional \ {k}
      /\ initialized' = initialized \union {k} \/ initialized' = initialized
      /\ changed' = IF new = shared[k] /\ initialized' = initialized THEN changed
                    ELSE [changed EXCEPT !.shared = @ \union {k}]
  BY <1>1 DEF Observe
<1>5. Guess(k, reg) <=> guess
  BY DEF Guess
<1>6. Writes(Unit0, k)
  BY <1>1, InCode DEF Writes
<1>7. shared[k] # None => shared[k] \in Type
  BY <1>3 DEF Slot
<1>8. Widen(shared[k], actual) \in Type
  BY <1>2, <1>3, WidenHolds
<1>9. new \in Type
  BY <1>2, <1>7, <1>8
<1>10. \A t \in Type : Holds(k, t) => k \notin provisional' /\ Join(new, t) = new
  <2> SUFFICES ASSUME NEW t \in Type, Holds(k, t) PROVE k \notin provisional' /\ Join(new, t) = new
    OBVIOUS
  <2>1. shared[k] \in Type /\ k \notin provisional /\ Join(shared[k], t) = shared[k] /\ shared[k] # None
    BY <1>7 DEF Holds
  <2>2. ~ guess \/ kept
    BY <1>5, <2>1
  <2>3. k \notin provisional'
    BY <1>4, <2>2
  <2>4. new = shared[k] \/ new = Widen(shared[k], actual)
    BY <2>1
  <2>5. Join(Widen(shared[k], actual), t) = Widen(shared[k], actual)
    BY <1>2, <2>1, WidenKeeps
  <2> HIDE DEF new
  <2> QED BY <2>1, <2>3, <2>4, <2>5
<1> HIDE DEF new, k
<1>11. /\ changed.shared \subseteq changed'.shared /\ changed'.methods = changed.methods
       /\ k \in changed'.shared \/ (new = shared[k] /\ initialized' = initialized)
  BY <1>3, <1>4
<1> QED BY <1>1, <1>2, <1>4, <1>6, <1>9, <1>10, <1>11, SharedGrows

(* instance_variable_set joins. *)
LEMMA SetGrows ==
    ASSUME IInv, Absorbing, Set, Known(reg.type)
    PROVE  Grows
<1> DEFINE k == Now.key
           new == Widen(shared[k], Now.type)
<1>1. Running /\ Now.op = "set" /\ UNCHANGED << program, methods, initialized, provisional, edges >>
      /\ shared' = [shared EXCEPT ![k] = new]
      /\ changed' = IF new = shared[k] THEN changed ELSE [changed EXCEPT !.shared = @ \union {k}]
  BY HereNow DEF Set, Step
<1>2. k \in Key /\ Now.type \in Type
  BY <1>1, OperationTyped
<1>3. /\ shared[k] \in Slot /\ changed \in [methods : SUBSET Method, shared : SUBSET Key]
  BY <1>2 DEF IInv, EdgesAgree, TypeOK
<1>4. new \in Type
  BY <1>2, <1>3, WidenHolds
<1>5. \A t \in Type : Holds(k, t) => k \notin provisional' /\ Join(new, t) = new
  <2> SUFFICES ASSUME NEW t \in Type, Holds(k, t) PROVE k \notin provisional' /\ Join(new, t) = new
    OBVIOUS
  <2>1. shared[k] \in Type /\ k \notin provisional /\ Join(shared[k], t) = shared[k]
    BY <1>3 DEF Holds, Slot
  <2> QED BY <1>1, <1>2, <2>1, WidenKeeps
<1>6. Writes(Unit0, k)
  BY <1>1, InCode DEF Writes
<1> HIDE DEF new, k
<1>7. /\ changed.shared \subseteq changed'.shared /\ changed'.methods = changed.methods
      /\ k \in changed'.shared \/ new = shared[k]
  BY <1>1, <1>3
<1> QED BY <1>1, <1>2, <1>4, <1>5, <1>6, <1>7, SharedGrows

(* An operation after the seed. *)
LEMMA OperationGrows ==
    ASSUME IInv, Absorbing, Heard, phase # "seed", Operation
    PROVE  Grows
<1>1. Running /\ UNCHANGED program
  BY OperationHere
<1>2. Now.method \in Method /\ Now.type \in Type /\ reg.type \in Type /\ Now.key \in Key
      /\ Self \in Dependent \union {None}
  BY <1>1, OperationTyped
<1>3. callers \in [Method -> SUBSET Dependent] /\ readers \in [Key -> SUBSET Dependent]
  BY DEF IInv, EdgesAgree, TypeOK
<1>4. CASE UNCHANGED << tables, edges, changed >>
  BY <1>1, <1>4, LocalGrows DEF edges
<1>5. CASE Call \/ (Send /\ Known(reg.type))
  <2>1. Now.op \in {"call", "send"}
    BY <1>5, HereNow DEF Call, Send
  <2>2. ~ Recursive(Now.method)
    BY <1>1, <2>1, NotRecursive DEF Heard
  <2>3. CASE Call
    BY <1>2, <2>2, <2>3, CallGrows DEF Call
  <2>4. CASE Send /\ Known(reg.type)
    BY <1>2, <2>2, <2>4, CallGrows DEF Send
  <2> QED BY <1>5, <2>3, <2>4
<1>6. CASE Read
  <2>1. UNCHANGED << tables, changed, callers >> /\ (readers' = readers \/ readers' = [readers EXCEPT ![Now.key] = @ \union {Self}])
    BY <1>6 DEF Read, AddRead, edges
  <2>2. \A k \in Key : readers[k] \subseteq readers'[k]
    BY <1>3, <2>1
  <2> QED BY <1>1, <2>1, <2>2, LocalGrows
<1>7. CASE Write
  <2>1. Here("write")
    BY <1>7 DEF Write
  <2> QED BY <1>7, <2>1, WriteGrows DEF Heard, GuessesFirst
<1>8. CASE Set /\ Known(reg.type)
  BY <1>8, SetGrows
<1>9. Const \/ Param \/ Raise \/ Guard \/ (Send /\ ~ Known(reg.type)) \/ (Set /\ ~ Known(reg.type))
        => UNCHANGED << tables, edges, changed >>
  BY DEF Const, Param, Raise, Guard, Send, Set
<1> QED BY <1>4, <1>5, <1>6, <1>7, <1>8, <1>9 DEF Operation

(* What was written is held, or known to be a guess. *)
LEMMA WriteTakes ==
    ASSUME IInv, Absorbing, Write, NEW k, k = Now.key, NEW g, g = reg, NEW u, u = Unit0
    PROVE  Written(u, k, g)'
<1> DEFINE actual == reg.type
           ivar == program.storage[k] = "ivar"
           guess == ivar /\ reg.provisional /\ actual = Any
           kept == guess /\ shared[k] \notin {None, Any}
           new == CASE kept -> shared[k]
                    [] ~ kept /\ ivar /\ actual # Any /\ k \in provisional /\ shared[k] = Any -> actual
                    [] OTHER -> Widen(shared[k], actual)
<1>1. Running /\ Observe(k, actual, reg.provisional, program.initializer[Unit0]) /\ program' = program
  BY HereNow DEF Write, Step
<1>2. k \in Key /\ actual \in Type
  BY <1>1, OperationTyped
<1>3. shared \in [Key -> Slot] /\ shared[k] \in Slot
  BY <1>2 DEF IInv, EdgesAgree, TypeOK
<1>4. /\ shared' = [shared EXCEPT ![k] = new]
      /\ provisional' = IF guess /\ ~ kept THEN provisional \union {k} ELSE provisional \ {k}
      /\ initialized' = IF ivar /\ program.initializer[Unit0] THEN initialized \union {k} ELSE initialized
  BY <1>1 DEF Observe
<1>5. Guess(k, g)' <=> guess
  BY <1>1 DEF Guess
<1>6. /\ Widen(shared[k], actual) \in Type
      /\ Join(Widen(shared[k], actual), actual) = Widen(shared[k], actual)
  BY <1>2, <1>3, WidenHolds
<1>7. new \in Type
  BY <1>2, <1>3, <1>6 DEF Slot
<1>8. ~ guess => new = actual \/ new = Widen(shared[k], actual)
  OBVIOUS
<1>9. Join(actual, actual) = actual
  BY <1>2 DEF Absorbing
<1> HIDE DEF new
<1>10. shared'[k] = new /\ new # None
  BY <1>2, <1>3, <1>4, <1>7, KindsAssumption
<1>11. ~ guess => Holds(k, g.type)'
  BY <1>4, <1>6, <1>8, <1>9, <1>10 DEF Holds
<1>12. (program.storage[k] = "ivar" /\ program.initializer[u] => k \in initialized)'
  BY <1>1, <1>4
<1> QED BY <1>5, <1>10, <1>11, <1>12 DEF Written

(* What instance_variable_set gave is held. *)
LEMMA SetTakes ==
    ASSUME IInv, Absorbing, Set, Known(reg.type), NEW k, k = Now.key, k \notin provisional, NEW t, t = Now.type
    PROVE  Holds(k, t)'
<1>1. Running /\ UNCHANGED provisional /\ shared' = [shared EXCEPT ![k] = Widen(shared[k], t)]
  BY HereNow DEF Set
<1>2. k \in Key /\ t \in Type
  BY <1>1, OperationTyped
<1>3. shared \in [Key -> Slot] /\ shared[k] \in Slot
  BY <1>2 DEF IInv, EdgesAgree, TypeOK
<1>4. /\ Widen(shared[k], t) # None
      /\ Join(Widen(shared[k], t), t) = Widen(shared[k], t)
  BY <1>2, <1>3, WidenHolds
<1>5. shared'[k] = Widen(shared[k], t)
  BY <1>1, <1>2, <1>3
<1> QED BY <1>1, <1>4, <1>5 DEF Holds

(* The operation that was evaluated would now change nothing. *)
LEMMA DoneByOperation ==
    ASSUME IInv, Absorbing, Heard, phase # "seed", Operation,
           NEW u, u = Unit0, NEW I, I = Now, NEW g, g = reg
    PROVE  /\ Quiet(u, I, g)'
           /\ phase = "round" => Linked(u, I, g)'
           /\ After(u, I, g)' = After(u, I, g)
<1>1. Running /\ program' = program
  BY OperationHere
<1>2. /\ u \in Unit /\ I.type \in Type /\ I.method \in Method /\ I.key \in Key
      /\ g.type \in Type /\ program.key[u] \in Dependent \union {None} /\ Self = program.key[u]
  BY <1>1, OperationTyped DEF Self
<1>3. /\ callers \in [Method -> SUBSET Dependent] /\ readers \in [Key -> SUBSET Dependent]
  BY DEF IInv, EdgesAgree, TypeOK
<1> DEFINE Done == /\ Quiet(u, I, g)'
                   /\ phase = "round" => Linked(u, I, g)'
                   /\ After(u, I, g)' = After(u, I, g)
<1>4. CASE Call \/ (Send /\ Known(reg.type))
  <2>1. I.op \in {"call", "send"} /\ Calls(I, g) /\ CallWith(I.method, Argument(I, g))
    BY <1>4, HereNow DEF Call, Send, Calls, Argument
  <2>2. ~ Recursive(I.method)
    BY <1>1, <2>1, NotRecursive DEF Heard
  <2>3. Argument(I, g) \in Type
    BY <1>2 DEF Argument
  <2>4. Taken(I.method, Argument(I, g))'
    BY <1>1, <1>2, <2>1, <2>2, <2>3, ObservedTakes DEF CallWith
  <2>5. Quiet(u, I, g)'
    BY <2>1, <2>4 DEF Quiet, Calls, Argument
  <2>6. Linked(u, I, g)'
    <3>1. program.key[u] # None => program.key[u] \in callers'[I.method]
      BY <1>2, <1>3, <2>1 DEF CallWith, AddCaller
    <3> QED BY <1>1, <2>1, <3>1 DEF Linked
  <2>7. Grows
    BY <1>2, <2>1, <2>2, <2>3, CallGrows
  <2>8. Answer(I.method)' = Answer(I.method) /\ Raised(I.method)' = Raised(I.method)
    BY <1>2, <2>7 DEF Grows, Answer, Raised
  <2>9. After(u, I, g)' = After(u, I, g)
    BY <1>1, <2>1, <2>8 DEF After, AfterCall, Calls
  <2> QED BY <2>5, <2>6, <2>9
<1>5. CASE Write
  <2>1. I.op = "write" /\ ~ Calls(I, g)
    BY <1>5, HereNow DEF Write, Calls
  <2>2. Quiet(u, I, g)'
    BY <1>5, <2>1, WriteTakes DEF Quiet, Calls
  <2>3. Linked(u, I, g)'
    BY <2>1 DEF Linked, Calls
  <2>4. After(u, I, g)' = After(u, I, g)
    BY <2>1 DEF After, Calls, Becomes
  <2> QED BY <2>2, <2>3, <2>4
<1>6. CASE Set
  <2>1. I.op = "set" /\ ~ Calls(I, g) /\ Here("set")
    BY <1>6, HereNow DEF Set, Calls
  <2>2. Known(g.type) => Holds(I.key, I.type)'
    BY <1>6, <2>1, SetTakes DEF Heard, SetsSettled
  <2>3. Quiet(u, I, g)'
    BY <2>1, <2>2 DEF Quiet, Calls
  <2>4. Linked(u, I, g)'
    BY <2>1 DEF Linked, Calls
  <2>5. After(u, I, g)' = After(u, I, g)
    BY <2>1 DEF After, Calls, Becomes
  <2> QED BY <2>3, <2>4, <2>5
<1>7. CASE Read
  <2>1. I.op = "read" /\ ~ Calls(I, g) /\ Here("read") /\ UNCHANGED tables
    BY <1>7, HereNow DEF Read, Calls
  <2>2. Quiet(u, I, g)'
    BY <2>1 DEF Quiet, Calls
  <2>3. phase = "round" => Linked(u, I, g)'
    <3> SUFFICES ASSUME phase = "round", program.key[u] # None
                 PROVE  program.key[u] \in readers'[I.key] \/ Unwritten(I.key)'
      BY <1>1, <2>1 DEF Linked, Calls
    <3>1. CASE shared[I.key] = None /\ program.storage[I.key] = "ivar"
      <4>1. Unwritten(I.key)
        BY <1>2, <2>1, <3>1 DEF Heard, ReadsWritten
      <4> QED BY <1>1, <4>1 DEF Unwritten, Writes
    <3>2. CASE ~ (shared[I.key] = None /\ program.storage[I.key] = "ivar")
      <4>1. AddRead(I.key)
        BY <1>7, <3>2 DEF Read
      <4> QED BY <1>2, <1>3, <4>1 DEF AddRead
    <3> QED BY <3>1, <3>2
  <2>4. ReadType(I.key)' = ReadType(I.key)
    BY <1>1, <2>1 DEF ReadType, tables
  <2>5. After(u, I, g)' = After(u, I, g)
    BY <2>1, <2>4 DEF After, Calls, Becomes
  <2> QED BY <2>2, <2>3, <2>5
<1>8. CASE Param
  <2>1. I.op = "param" /\ ~ Calls(I, g) /\ program.kind[u] = "method" /\ UNCHANGED tables
    BY <1>8, HereNow DEF Param, Calls, Kind0
  <2>2. Quiet(u, I, g)' /\ Linked(u, I, g)'
    BY <1>1, <2>1 DEF Quiet, Linked, Calls
  <2>3. AfterParam(u, g)' = AfterParam(u, g)
    BY <1>1, <2>1 DEF AfterParam, tables
  <2>4. After(u, I, g)' = After(u, I, g)
    BY <2>1, <2>3 DEF After, Calls
  <2> QED BY <2>2, <2>4
<1>9. CASE Const \/ Raise \/ Guard \/ (Send /\ ~ Known(reg.type))
  <2>1. I.op \in {"const", "raise", "guard", "send"} /\ ~ Calls(I, g)
    BY <1>9, HereNow DEF Const, Raise, Guard, Send, Calls
  <2>2. Quiet(u, I, g)' /\ Linked(u, I, g)'
    BY <2>1 DEF Quiet, Linked, Calls
  <2>3. AfterRaise(u, I, g)' = AfterRaise(u, I, g)
    BY <1>1 DEF AfterRaise
  <2>4. After(u, I, g)' = After(u, I, g)
    BY <2>1, <2>3 DEF After, Calls, AfterGuard, Becomes
  <2> QED BY <2>2, <2>4
<1> QED BY <1>4, <1>5, <1>6, <1>7, <1>8, <1>9 DEF Operation

(* A run of operations the tables go on answering alike is a run after the step. *)
LEMMA RunsKept ==
    ASSUME NEW u, NEW n, NEW tr, Runs(u, tr, n), program' = program,
           \A i \in 1 .. n - 1 : \A I : I = program.code[u][i] =>
               Quiet(u, I, tr[i])' /\ After(u, I, tr[i])' = After(u, I, tr[i])
    PROVE  Runs(u, tr, n)'
<1>1. n \in Nat \ {0} /\ tr \in [1 .. n -> RegType] /\ tr[1] = Idle
  BY DEF Runs
<1>2. ASSUME NEW i \in 1 .. n - 1
      PROVE  (/\ i \in DOMAIN program.code[u] /\ ~ tr[i].stopped
              /\ tr[i + 1] = After(u, program.code[u][i], tr[i])
              /\ Quiet(u, program.code[u][i], tr[i]))'
  <2>1. PICK I : I = program.code[u][i]
    OBVIOUS
  <2>2. i \in DOMAIN program.code[u] /\ ~ tr[i].stopped /\ tr[i + 1] = After(u, I, tr[i])
    BY <2>1 DEF Runs
  <2>3. Quiet(u, I, tr[i])' /\ After(u, I, tr[i])' = After(u, I, tr[i])
    BY <2>1
  <2>4. program'.code[u][i] = I
    BY <2>1
  <2> QED BY <2>2, <2>3, <2>4
<1> QED BY <1>1, <1>2 DEF Runs

(* A run whose edges the step keeps. *)
LEMMA LinkedKept ==
    ASSUME NEW u, NEW n, NEW tr, program' = program,
           \A i \in 1 .. n - 1 : \A I : I = program.code[u][i] => Linked(u, I, tr[i])'
    PROVE  LinkedRun(u, tr, n)'
<1>1. ASSUME NEW i \in 1 .. n - 1
      PROVE  Linked(u, program.code[u][i], tr[i])'
  <2>1. PICK I : I = program.code[u][i]
    OBVIOUS
  <2>2. program'.code[u][i] = I /\ Linked(u, I, tr[i])'
    BY <2>1
  <2> QED BY <2>2
<1> QED BY <1>1 DEF LinkedRun

(* The run of a unit after an operation: kept, or out of date. *)
LEMMA RunAfterOperation ==
    ASSUME IInv, Grows, Unit0 \in Unit, NEW v \in Unit, NEW n, NEW tr, Runs(v, tr, n), LinkedRun(v, tr, n)
    PROVE  Outdated(v)' \/ (Runs(v, tr, n)' /\ LinkedRun(v, tr, n)')
<1> SUFFICES ASSUME ~ Outdated(v)' PROVE Runs(v, tr, n)' /\ LinkedRun(v, tr, n)'
  OBVIOUS
<1>1. program' = program
  BY DEF Grows
<1>2. ASSUME NEW i \in 1 .. n - 1, NEW I, I = program.code[v][i]
      PROVE  Quiet(v, I, tr[i])' /\ Linked(v, I, tr[i])' /\ After(v, I, tr[i])' = After(v, I, tr[i])
  <2>1. i \in DOMAIN program.code[v] /\ tr[i] \in RegType /\ Quiet(v, I, tr[i])
    BY <1>2 DEF Runs
  <2>2. Linked(v, I, tr[i])
    BY <1>2 DEF LinkedRun
  <2> QED BY <1>2, <2>1, <2>2, KeptByOperation
<1>3. Runs(v, tr, n)'
  BY <1>1, <1>2, RunsKept
<1>4. LinkedRun(v, tr, n)'
  BY <1>1, <1>2, LinkedKept
<1> QED BY <1>3, <1>4

(* One operation more, in the state after a step. *)
LEMMA RunsOn ==
    ASSUME NEW u, NEW n, NEW tr, NEW g \in RegType, NEW I, Runs(u, tr, n)', program' = program,
           n \in DOMAIN program.code[u], I = program.code[u][n], ~ tr[n].stopped,
           g = After(u, I, tr[n])', Quiet(u, I, tr[n])'
    PROVE  \E tr2 : /\ Runs(u, tr2, n + 1)' /\ tr2[n + 1] = g
                    /\ \A i \in 1 .. n : tr2[i] = tr[i]
<1> DEFINE tr2 == [i \in 1 .. n + 1 |-> IF i = n + 1 THEN g ELSE tr[i]]
<1>1. n \in Nat \ {0} /\ tr \in [1 .. n -> RegType] /\ tr[1] = Idle
  BY DEF Runs, Idle
<1>2. /\ tr2[n + 1] = g /\ \A i \in 1 .. n : tr2[i] = tr[i]
      /\ tr2 \in [1 .. n + 1 -> RegType] /\ tr2[1] = Idle
  BY <1>1
<1> HIDE DEF tr2
<1>3. ASSUME NEW i \in 1 .. n + 1 - 1
      PROVE  (/\ i \in DOMAIN program.code[u] /\ ~ tr2[i].stopped
              /\ tr2[i + 1] = After(u, program.code[u][i], tr2[i])
              /\ Quiet(u, program.code[u][i], tr2[i]))'
  <2>1. i \in 1 .. n /\ tr2[i] = tr[i]
    BY <1>1, <1>2
  <2>2. CASE i = n
    <3>1. program'.code[u][i] = I
      BY <2>2
    <3> QED BY <1>2, <2>1, <2>2, <3>1
  <2>3. CASE i # n
    <3>1. i \in 1 .. n - 1 /\ i + 1 \in 1 .. n
      BY <1>1, <2>1, <2>3
    <3>2. tr2[i + 1] = tr[i + 1]
      BY <1>2, <3>1
    <3>3. (/\ i \in DOMAIN program.code[u] /\ ~ tr[i].stopped
           /\ tr[i + 1] = After(u, program.code[u][i], tr[i])
           /\ Quiet(u, program.code[u][i], tr[i]))'
      BY <3>1 DEF Runs
    <3> QED BY <2>1, <3>2, <3>3
  <2> QED BY <2>2, <2>3
<1>4. n + 1 \in Nat \ {0}
  BY <1>1
<1>5. tr2[1] = Idle'
  BY <1>2 DEF Idle
<1>6. Runs(u, tr2, n + 1)'
  BY <1>2, <1>3, <1>4, <1>5 DEF Runs
<1> QED BY <1>2, <1>6

(* What a quiet operation leaves as it is. *)
LEMMA QuietChangesNothing ==
    ASSUME IInv, Absorbing, Heard, phase # "seed", Operation, Quiet(Unit0, Now, reg)
    PROVE  /\ UNCHANGED << methods, shared, initialized >>
           /\ provisional' \subseteq provisional
<1>1. Running
  BY OperationHere
<1>2. Now.method \in Method /\ Now.type \in Type /\ reg.type \in Type /\ Now.key \in Key
  BY <1>1, OperationTyped
<1>3. /\ methods \in [Method -> MethodType] /\ shared \in [Key -> Slot] /\ provisional \subseteq Key
      /\ shared[Now.key] \in Slot
  BY <1>2 DEF IInv, EdgesAgree, TypeOK, MethodType
<1>4. CASE Call \/ (Send /\ Known(reg.type))
  <2> DEFINE m == Now.method
             a == Argument(Now, reg)
  <2>1. Now.op \in {"call", "send"} /\ Calls(Now, reg) /\ CallWith(m, a)
    BY <1>4, HereNow DEF Call, Send, Calls, Argument
  <2>2. ~ Recursive(m)
    BY <1>1, <2>1, NotRecursive DEF Heard
  <2>3. Taken(m, a) /\ a \in Type
    BY <1>2, <2>1 DEF Quiet, Argument
  <2>4. ObserveArgument(m, a) /\ UNCHANGED << shared, initialized, provisional >>
    BY <2>1 DEF CallWith
  <2> HIDE DEF m, a
  <2>5. methods[m].param # None
    BY <2>3 DEF Taken
  <2>6. Combine(program.explicit[m], methods[m].param, a) = methods[m].param
    BY <2>3 DEF Taken, Combine
  <2>7. methods' = [methods EXCEPT ![m].param = methods[m].param]
    BY <2>2, <2>4, <2>5, <2>6 DEF ObserveArgument
  <2>8. methods' = methods
    BY <1>2, <1>3, <2>7 DEF MethodType, m
  <2> QED BY <2>4, <2>8
<1>5. CASE Write
  <2> DEFINE k == Now.key
             guess == program.storage[k] = "ivar" /\ reg.provisional /\ reg.type = Any
             kept == guess /\ shared[k] \notin {None, Any}
             new == CASE kept -> shared[k]
                      [] ~ kept /\ program.storage[k] = "ivar" /\ reg.type # Any /\ k \in provisional /\ shared[k] = Any -> reg.type
                      [] OTHER -> Widen(shared[k], reg.type)
  <2>1. Here("write") /\ Now.op = "write" /\ Observe(k, reg.type, reg.provisional, program.initializer[Unit0]) /\ UNCHANGED methods
    BY <1>5, HereNow DEF Write, Observe
  <2>2. /\ shared' = [shared EXCEPT ![k] = new]
        /\ provisional' = IF guess /\ ~ kept THEN provisional \union {k} ELSE provisional \ {k}
        /\ initialized' = IF program.storage[k] = "ivar" /\ program.initializer[Unit0] THEN initialized \union {k} ELSE initialized
    BY <2>1 DEF Observe
  <2>3. Written(Unit0, k, reg) /\ (Guess(k, reg) <=> guess)
    BY <2>1 DEF Quiet, Guess
  <2>4. CASE guess
    <3>1. shared[k] # None /\ (shared[k] # Any \/ k \in provisional)
      BY <2>1, <2>3, <2>4 DEF Written, Heard, GuessesFirst
    <3>2. Join(Any, Any) = Any
      BY KindsAssumption DEF Absorbing
    <3>3. new = shared[k]
      BY <2>4, <3>1, <3>2 DEF Widen
    <3>4. provisional' \subseteq provisional
      BY <2>2, <3>1
    <3> QED BY <1>2, <1>3, <2>1, <2>2, <2>3, <3>3, <3>4 DEF Written
  <2>5. CASE ~ guess
    <3>1. shared[k] # None /\ k \notin provisional /\ Join(shared[k], reg.type) = shared[k]
      BY <2>3, <2>5 DEF Written, Holds
    <3>2. new = shared[k]
      BY <2>5, <3>1 DEF Widen
    <3>3. provisional' \subseteq provisional
      BY <2>2, <2>5
    <3> QED BY <1>2, <1>3, <2>1, <2>2, <2>3, <3>2, <3>3 DEF Written
  <2> QED BY <2>4, <2>5
<1>6. CASE Set /\ Known(reg.type)
  <2>1. Now.op = "set" /\ UNCHANGED << methods, initialized, provisional >>
        /\ shared' = [shared EXCEPT ![Now.key] = Widen(shared[Now.key], Now.type)]
    BY <1>6, HereNow DEF Set
  <2>2. Widen(shared[Now.key], Now.type) = shared[Now.key]
    BY <1>6, <2>1 DEF Quiet, Holds, Widen
  <2> QED BY <1>2, <1>3, <2>1, <2>2
<1>7. Const \/ Read \/ Param \/ Raise \/ Guard \/ (Send /\ ~ Known(reg.type)) \/ (Set /\ ~ Known(reg.type))
        => UNCHANGED tables
  BY DEF Const, Read, Param, Raise, Guard, Send, Set
<1> QED BY <1>4, <1>5, <1>6, <1>7 DEF Operation, tables

-----------------------------------------------------------------------------
(* The units of a pass are units of the program. *)
Scheduled == Range(todo) \subseteq Range(program.order)
(* A unit is still to be evaluated, or out of date and marked, or settled. *)
Marked == \A v \in Range(program.order) : v \in Range(todo) \/ Outdated(v) \/ Settled(v)
(* Of the definitions of a key one that was evaluated has left a result. *)
Recorded == \A v \in Range(program.order), w \in Range(todo) :
    v \notin Range(todo) /\ program.kind[v] = "method" /\ program.key[v] = program.key[w] =>
        results[program.key[v]].type # None
(* The evaluation under way has been quiet so far, or is out of date. *)
Evaluating == todo # << >> /\ pc > 0
InRun(u) == \E n \in Nat : \E tr \in [1 .. n -> RegType] :
    Runs(u, tr, n) /\ LinkedRun(u, tr, n) /\ tr[n] = reg /\ (reg.stopped \/ pc = n)
Followed == Evaluating => Outdated(Unit0) \/ InRun(Unit0)
RoundInv == phase = "round" => Scheduled /\ Marked /\ Recorded /\ Followed

(* The final pass replays a run it knows. *)
NoneRecorded == \A m \in Method : results[m].type = None
AllReplayable == \A v \in Range(program.order) : Replayable(v)
InReplay(u) == \E n \in Nat : \E tr \in [1 .. n -> RegType] :
    /\ Runs(u, tr, n) /\ Complete(u, tr[n], n) /\ Covered(u, tr[n])
    /\ \E i \in 1 .. n : tr[i] = reg /\ (reg.stopped \/ pc = i)
Replayed == Evaluating => InReplay(Unit0)
FinalInv == phase = "final" =>
    Scheduled /\ (SourceMethods(program) # {} => NoneRecorded /\ AllReplayable /\ Replayed)

(* The units of the program are units. *)
LEMMA OrderTyped ==
    ASSUME IInv
    PROVE  /\ Range(program.order) \subseteq Unit
           /\ \A v \in Range(program.order) :
                 /\ program.kind[v] \in {"top", "body", "method"}
                 /\ program.kind[v] = "method" => program.key[v] \in Method
                 /\ program.kind[v] = "body" => program.key[v] \in Body
                 /\ program.kind[v] = "top" => program.key[v] = None
<1>1. program.order \in Seq(Unit) /\ program \in Program
  BY ProgramTyped DEF IInv, EdgesAgree, TypeOK
<1>2. Range(program.order) \subseteq Unit
  BY <1>1 DEF Range
<1>3. /\ program.kind \in [Unit -> {"top", "body", "method"}]
      /\ \A u \in Unit : /\ program.kind[u] = "method" => program.key[u] \in Method
                         /\ program.kind[u] = "body" => program.key[u] \in Body
                         /\ program.kind[u] = "top" => program.key[u] = None
  BY <1>1, ProgramAssumption
<1> QED BY <1>2, <1>3

(* What is out of date stays so. *)
LEMMA OutdatedStays ==
    ASSUME IInv, Grows, NEW v, Outdated(v)
    PROVE  Outdated(v)'
<1>1. program' = program /\ changed.methods \subseteq changed'.methods /\ changed.shared \subseteq changed'.shared
  BY DEF Grows
<1>2. CASE program.key[v] \in changed.methods
  BY <1>1, <1>2 DEF Outdated
<1>3. CASE \E k \in changed.shared : Reads(v, k) /\ (program.key[v] = None \/ program.key[v] \in readers[k])
  <2>1. PICK k \in changed.shared : Reads(v, k) /\ (program.key[v] = None \/ program.key[v] \in readers[k])
    BY <1>3
  <2>2. k \in Key
    BY DEF IInv, EdgesAgree, TypeOK
  <2>3. readers[k] \subseteq readers'[k]
    BY <2>2 DEF Grows
  <2>4. Reads(v, k)'
    BY <1>1, <2>1 DEF Reads
  <2> QED BY <1>1, <2>1, <2>3, <2>4 DEF Outdated
<1> QED BY <1>2, <1>3 DEF Outdated

(* The summary that covers a unit is not an operation's to change. *)
LEMMA CoveredStays ==
    ASSUME IInv, Grows, results' = results, NEW v \in Range(program.order), NEW g, Covered(v, g)
    PROVE  Covered(v, g)'
<1>1. program' = program /\ \A m \in Method : methods'[m].ret = methods[m].ret
  BY DEF Grows
<1>2. program.kind[v] = "method" => Summary(program.key[v])' = Summary(program.key[v])
  BY <1>1, OrderTyped DEF Summary
<1> QED BY <1>1, <1>2 DEF Covered, Result

(* An operation of a round. *)
LEMMA RoundOperation ==
    ASSUME IInv, IInv', Absorbing, Heard, RoundInv, phase = "round", Operation
    PROVE  RoundInv'
<1>1. Running /\ UNCHANGED << program, phase, todo, results >>
  BY OperationHere
<1>2. PICK u : u = Unit0
  OBVIOUS
<1>3. Unit0' = u /\ u \in Unit
  BY <1>1, <1>2, OperationTyped DEF Unit0
<1>4. Grows
  BY OperationGrows
<1>5. Scheduled /\ Marked /\ Recorded /\ Followed
  BY DEF RoundInv
<1>6. Scheduled' /\ Recorded'
  BY <1>1, <1>5 DEF Scheduled, Recorded
<1>7. Marked'
  <2> SUFFICES ASSUME NEW v \in Range(program.order), v \notin Range(todo), ~ Outdated(v)'
               PROVE  Settled(v)'
    BY <1>1 DEF Marked
  <2>1. v \in Unit /\ Settled(v)
    BY <1>4, <1>5, OutdatedStays, OrderTyped DEF Marked
  <2>2. PICK n \in Nat : \E tr \in [1 .. n -> RegType] :
               Runs(v, tr, n) /\ LinkedRun(v, tr, n) /\ Complete(v, tr[n], n) /\ Covered(v, tr[n])
    BY <2>1 DEF Settled
  <2>3. PICK tr \in [1 .. n -> RegType] :
               Runs(v, tr, n) /\ LinkedRun(v, tr, n) /\ Complete(v, tr[n], n) /\ Covered(v, tr[n])
    BY <2>2
  <2>4. Runs(v, tr, n)' /\ LinkedRun(v, tr, n)'
    BY <1>2, <1>3, <1>4, <2>1, <2>3, RunAfterOperation
  <2>5. Complete(v, tr[n], n)'
    BY <1>1, <2>3 DEF Complete
  <2>6. Covered(v, tr[n])'
    BY <1>1, <1>4, <2>3, CoveredStays
  <2> QED BY <2>4, <2>5, <2>6 DEF Settled
<1>8. Followed'
  <2> SUFFICES ASSUME ~ Outdated(u)' PROVE InRun(u)'
    BY <1>3 DEF Followed
  <2>1. InRun(u)
    BY <1>1, <1>2, <1>4, <1>5, OutdatedStays DEF Followed, Evaluating, Running
  <2>2. PICK n \in Nat : \E tr \in [1 .. n -> RegType] :
               Runs(u, tr, n) /\ LinkedRun(u, tr, n) /\ tr[n] = reg /\ (reg.stopped \/ pc = n)
    BY <2>1 DEF InRun
  <2>3. PICK tr \in [1 .. n -> RegType] :
               Runs(u, tr, n) /\ LinkedRun(u, tr, n) /\ tr[n] = reg /\ (reg.stopped \/ pc = n)
    BY <2>2
  <2>4. ~ reg.stopped /\ pc = n
    BY <1>1, <2>3 DEF Running
  <2>5. Runs(u, tr, n)' /\ LinkedRun(u, tr, n)'
    BY <1>2, <1>3, <1>4, <2>3, RunAfterOperation
  <2>6. PICK I : I = Now
    OBVIOUS
  <2>7. PICK g : g = reg
    OBVIOUS
  <2>8. n \in DOMAIN program.code[u] /\ I = program.code[u][n]
    BY <1>1, <1>2, <2>4, <2>6, InCode
  <2>9. Quiet(u, I, g)' /\ Linked(u, I, g)' /\ After(u, I, g)' = After(u, I, g)
    BY <1>2, <2>6, <2>7, DoneByOperation
  <2>10. reg' = After(u, I, g) /\ (pc' = pc + 1 \/ reg'.stopped)
    BY <1>2, <2>6, <2>7, MovesOn DEF Heard
  <2>11. reg' \in RegType
    BY DEF IInv, EdgesAgree, TypeOK, RegType
  <2>12. PICK h : h = reg'
    OBVIOUS
  <2>13. \E tr2 : /\ Runs(u, tr2, n + 1)' /\ tr2[n + 1] = h
                  /\ \A i \in 1 .. n : tr2[i] = tr[i]
    <3>1. h \in RegType /\ h = After(u, I, tr[n])' /\ Quiet(u, I, tr[n])' /\ ~ tr[n].stopped
      BY <2>3, <2>4, <2>7, <2>9, <2>10, <2>11, <2>12
    <3> QED BY <1>1, <2>5, <2>8, <3>1, RunsOn
  <2>14. PICK tr2 : /\ Runs(u, tr2, n + 1)' /\ tr2[n + 1] = h
                    /\ \A i \in 1 .. n : tr2[i] = tr[i]
    BY <2>13
  <2>15. LinkedRun(u, tr2, n + 1)'
    <3>1. ASSUME NEW i \in 1 .. n + 1 - 1, NEW J, J = program.code[u][i]
          PROVE  Linked(u, J, tr2[i])'
      <4>1. i \in 1 .. n /\ tr2[i] = tr[i]
        BY <2>14
      <4>2. CASE i = n
        BY <2>3, <2>7, <2>8, <2>9, <3>1, <4>1, <4>2
      <4>3. CASE i # n
        <5>1. i \in 1 .. n - 1
          BY <4>1, <4>3
        <5>2. Linked(u, program.code[u][i], tr[i])'
          BY <2>5, <5>1 DEF LinkedRun
        <5>3. program'.code[u][i] = J
          BY <1>1, <3>1
        <5> QED BY <4>1, <5>2, <5>3
      <4> QED BY <4>2, <4>3
    <3> QED BY <1>1, <3>1, LinkedKept
  <2>16. tr2 \in [1 .. n + 1 -> RegType] /\ n + 1 \in Nat
    BY <2>14 DEF Runs
  <2> QED BY <2>4, <2>10, <2>12, <2>14, <2>15, <2>16 DEF InRun
<1> QED BY <1>6, <1>7, <1>8 DEF RoundInv

(* The units a pass has still to evaluate. *)
LEMMA HeadTail ==
    ASSUME IInv, todo # << >>
    PROVE  /\ Unit0 \in Unit /\ Range(todo) = {Unit0} \union Range(Tail(todo))
           /\ Tail(todo) \in Seq(Unit)
<1>1. todo \in Seq(Unit)
  BY DEF IInv, EdgesAgree, TypeOK
<1>2. /\ Len(todo) \in Nat /\ Len(todo) # 0 /\ DOMAIN todo = 1 .. Len(todo)
      /\ Unit0 = todo[1] /\ Unit0 \in Unit
  BY <1>1 DEF Unit0
<1>3. /\ Tail(todo) \in Seq(Unit) /\ DOMAIN Tail(todo) = 1 .. Len(todo) - 1
      /\ \A i \in 1 .. Len(todo) - 1 : Tail(todo)[i] = todo[i + 1]
  BY <1>1
<1>4. \A x \in Range(todo) : x \in {Unit0} \union Range(Tail(todo))
  <2> SUFFICES ASSUME NEW i \in 1 .. Len(todo), todo[i] # Unit0 PROVE todo[i] \in Range(Tail(todo))
    BY <1>2 DEF Range
  <2>1. i - 1 \in 1 .. Len(todo) - 1 /\ (i - 1) + 1 = i
    BY <1>2
  <2>2. Tail(todo)[i - 1] = todo[i]
    BY <1>3, <2>1
  <2> QED BY <1>3, <2>1, <2>2 DEF Range
<1>5. \A x \in Range(Tail(todo)) : x \in Range(todo)
  <2> SUFFICES ASSUME NEW i \in 1 .. Len(todo) - 1 PROVE Tail(todo)[i] \in Range(todo)
    BY <1>3 DEF Range
  <2>1. i + 1 \in 1 .. Len(todo)
    BY <1>2
  <2> QED BY <1>2, <1>3, <2>1 DEF Range
<1>6. Unit0 \in Range(todo)
  BY <1>2 DEF Range
<1> QED BY <1>2, <1>3, <1>4, <1>5, <1>6

(* Runs survive a step that leaves the tables alone. *)
LEMMA FrameRuns ==
    ASSUME UNCHANGED << program, methods, shared, initialized >>, provisional' \subseteq provisional,
           NEW v, NEW n, NEW tr, Runs(v, tr, n)
    PROVE  Runs(v, tr, n)'
<1>1. ASSUME NEW i \in 1 .. n - 1, NEW I, I = program.code[v][i]
      PROVE  Quiet(v, I, tr[i])' /\ After(v, I, tr[i])' = After(v, I, tr[i])
  <2>1. Quiet(v, I, tr[i])
    BY <1>1 DEF Runs
  <2> QED BY <2>1, FrameKeeps
<1> QED BY <1>1, RunsKept

(* The register a unit starts with is a run of length one. *)
LEMMA IdleRun ==
    ASSUME NEW u
    PROVE  \E tr \in [1 .. 1 -> RegType] : Runs(u, tr, 1)' /\ LinkedRun(u, tr, 1)' /\ tr[1] = Idle
<1> DEFINE tr == [i \in 1 .. 1 |-> Idle]
<1>1. Idle \in RegType
  BY KindsAssumption DEF Idle, RegType, Slot
<1>2. tr \in [1 .. 1 -> RegType] /\ tr[1] = Idle /\ Idle' = Idle
  BY <1>1 DEF Idle
<1> HIDE DEF tr
<1>3. 1 .. 1 - 1 = {}
  OBVIOUS
<1>4. Runs(u, tr, 1)'
  BY <1>2, <1>3 DEF Runs
<1>5. LinkedRun(u, tr, 1)'
  BY <1>3 DEF LinkedRun
<1> QED BY <1>2, <1>4, <1>5

(* Beginning a unit forgets only edges of definitions evaluated before the last. *)
LEMMA RoundBegin ==
    ASSUME IInv, Heard, RoundInv, phase = "round", Begin
    PROVE  RoundInv'
<1>1. /\ todo # << >> /\ pc = 0 /\ pc' = 1 /\ reg' = Idle
      /\ UNCHANGED << program, phase, todo, tables, callers, results, changed >>
  BY DEF Begin
<1>2. PICK u : u = Unit0
  OBVIOUS
<1>3. Unit0' = u /\ u \in Unit /\ u \in Range(todo) /\ Range(Tail(todo)) \subseteq Range(todo)
  BY <1>1, <1>2, HeadTail DEF Unit0
<1>4. Scheduled /\ Marked /\ Recorded
  BY DEF RoundInv
<1>5. Scheduled' /\ Recorded'
  BY <1>1, <1>4 DEF Scheduled, Recorded
<1>6. readers \in [Key -> SUBSET Dependent] /\ changed.shared \subseteq Key
  BY DEF IInv, EdgesAgree, TypeOK
<1>7. ASSUME NEW v \in Range(program.order), v \notin Range(todo), NEW k \in Key, Reads(v, k),
             program.key[v] # None
      PROVE  program.key[v] \in readers[k] => program.key[v] \in readers'[k]
  <2>1. CASE Self = None
    BY <1>1, <2>1 DEF Begin
  <2>2. CASE Self # None
    <3>1. v # Unit0 /\ v \notin Range(Tail(todo))
      BY <1>2, <1>3, <1>7
    <3>2. program.key[v] # Self
      BY <1>1, <1>7, <2>2, <3>1 DEF Heard, LastReads
    <3>3. readers'[k] = readers[k] \ (IF k \in reads[Self] THEN {Self} ELSE {})
      BY <1>7, <2>2 DEF Begin
    <3> QED BY <3>2, <3>3
  <2> QED BY <2>1, <2>2
<1>8. Marked'
  <2> SUFFICES ASSUME NEW v \in Range(program.order), v \notin Range(todo)
               PROVE  Outdated(v)' \/ Settled(v)'
    BY <1>1 DEF Marked
  <2>1. v \in Unit
    BY OrderTyped
  <2>2. CASE Outdated(v)
    <3>1. CASE program.key[v] \in changed.methods
      BY <1>1, <3>1 DEF Outdated
    <3>2. CASE \E k \in changed.shared : Reads(v, k) /\ (program.key[v] = None \/ program.key[v] \in readers[k])
      <4>1. PICK k \in changed.shared : Reads(v, k) /\ (program.key[v] = None \/ program.key[v] \in readers[k])
        BY <3>2
      <4>2. program.key[v] = None \/ program.key[v] \in readers'[k]
        BY <1>6, <1>7, <4>1
      <4>3. Reads(v, k)'
        BY <1>1, <4>1 DEF Reads
      <4> QED BY <1>1, <4>1, <4>2, <4>3 DEF Outdated
    <3> QED BY <2>2, <3>1, <3>2 DEF Outdated
  <2>3. CASE Settled(v)
    <3>1. PICK n \in Nat : \E tr \in [1 .. n -> RegType] :
                 Runs(v, tr, n) /\ LinkedRun(v, tr, n) /\ Complete(v, tr[n], n) /\ Covered(v, tr[n])
      BY <2>3 DEF Settled
    <3>2. PICK tr \in [1 .. n -> RegType] :
                 Runs(v, tr, n) /\ LinkedRun(v, tr, n) /\ Complete(v, tr[n], n) /\ Covered(v, tr[n])
      BY <3>1
    <3>3. Runs(v, tr, n)'
      BY <1>1, <3>2, FrameRuns DEF tables
    <3>4. LinkedRun(v, tr, n)'
      <4>1. ASSUME NEW i \in 1 .. n - 1, NEW I, I = program.code[v][i]
            PROVE  Linked(v, I, tr[i])'
        <5>1. Linked(v, I, tr[i]) /\ i \in DOMAIN program.code[v]
          BY <3>2, <4>1 DEF LinkedRun, Runs
        <5>2. I.op = "read" => Reads(v, I.key)
          BY <4>1, <5>1 DEF Reads
        <5>3. I.key \in Key
          BY <2>1, <4>1, <5>1, InstructionTyped
        <5>4. Unwritten(I.key)' <=> Unwritten(I.key)
          BY <1>1 DEF Unwritten, Writes
        <5> QED BY <1>1, <1>7, <5>1, <5>2, <5>3, <5>4 DEF Linked, Calls
      <4> QED BY <1>1, <4>1, LinkedKept
    <3>5. Complete(v, tr[n], n)' /\ Covered(v, tr[n])'
      BY <1>1, <3>2 DEF Complete, Covered, Summary, Result, tables
    <3> QED BY <3>3, <3>4, <3>5 DEF Settled
  <2> QED BY <1>4, <2>2, <2>3 DEF Marked
<1>9. InRun(u)'
  <2>1. PICK tr \in [1 .. 1 -> RegType] : Runs(u, tr, 1)' /\ LinkedRun(u, tr, 1)' /\ tr[1] = Idle
    BY IdleRun
  <2> QED BY <1>1, <2>1 DEF InRun
<1> QED BY <1>3, <1>5, <1>8, <1>9 DEF RoundInv, Followed

(* The value of an evaluation is a type. *)
LEMMA ResultTyped ==
    ASSUME NEW g \in RegType
    PROVE  Result(g) \in Type
BY KindsAssumption DEF Result, RegType, Slot

(* The result of a unit covers it and what it covered before. *)
LEMMA RoundEnd ==
    ASSUME IInv, Absorbing, RoundInv, phase = "round", End
    PROVE  RoundInv'
<1>1. /\ todo # << >> /\ pc > 0 /\ ~ Running /\ todo' = Tail(todo) /\ pc' = 0
      /\ UNCHANGED << program, phase, tables, edges, changed >>
  BY DEF End, AtEnd
<1>2. PICK u : u = Unit0
  OBVIOUS
<1>3. u \in Unit /\ Range(todo) = {u} \union Range(Tail(todo))
  BY <1>1, <1>2, HeadTail
<1>4. Scheduled /\ Marked /\ Recorded /\ Followed
  BY DEF RoundInv
<1>5. Scheduled'
  BY <1>1, <1>3, <1>4 DEF Scheduled
<1>6. /\ \A m \in Method : results[m].type \in Slot
      /\ results \in [Method -> [type : Slot, terminates : BOOLEAN, raises : Slot]]
      /\ reg \in RegType /\ Result(reg) \in Type
  BY ResultTyped DEF IInv, EdgesAgree, TypeOK, RegType
<1>7. u \in Range(program.order)
  BY <1>3, <1>4 DEF Scheduled
<1>8. Kind0 = "method" =>
        /\ program.key[u] \in Method
        /\ results'[program.key[u]].type = Widen(results[program.key[u]].type, Result(reg))
        /\ \A m \in Method : m # program.key[u] => results'[m].type = results[m].type
  <2> SUFFICES ASSUME Kind0 = "method"
               PROVE  /\ program.key[u] \in Method
                      /\ results'[program.key[u]].type = Widen(results[program.key[u]].type, Result(reg))
                      /\ \A m \in Method : m # program.key[u] => results'[m].type = results[m].type
    OBVIOUS
  <2>1. program.key[u] \in Method /\ Self = program.key[u]
    BY <1>2, <1>7, OrderTyped DEF Kind0, Self
  <2>2. Returned = Result(reg)
    BY DEF Returned, Result
  <2>3. PICK t, r : results' = [results EXCEPT ![Self] = [type |-> Widen(results[Self].type, Returned), terminates |-> t, raises |-> r]]
    BY DEF End, Collecting
  <2> QED BY <1>6, <2>1, <2>2, <2>3
<1>9. Kind0 # "method" => results' = results
  BY DEF End
<1>13. Kind0 = "method" => results'[program.key[u]].type # None
  BY <1>6, <1>8, WidenHolds
<1>10. \A m \in Method : results[m].type # None => results'[m].type # None
  BY <1>8, <1>9, <1>13
<1>11. Recorded'
  <2> SUFFICES ASSUME NEW v \in Range(program.order), NEW w \in Range(Tail(todo)), v \notin Range(Tail(todo)),
                      program.kind[v] = "method", program.key[v] = program.key[w]
               PROVE  results'[program.key[v]].type # None
    BY <1>1 DEF Recorded
  <2>1. program.key[v] \in Method
    BY OrderTyped
  <2>2. CASE v = u
    <3>1. Kind0 = "method"
      BY <1>2, <2>2 DEF Kind0
    <3> QED BY <1>13, <2>2, <3>1
  <2>3. CASE v # u
    BY <1>3, <1>4, <1>10, <2>1, <2>3 DEF Recorded
  <2> QED BY <2>2, <2>3
<1>12. Marked'
  <2> SUFFICES ASSUME NEW v \in Range(program.order), v \notin Range(Tail(todo)), ~ Outdated(v)
               PROVE  Settled(v)'
    <3>1. \A v : Outdated(v)' <=> Outdated(v)
      BY <1>1 DEF Outdated, Reads, edges
    <3> QED BY <1>1, <3>1 DEF Marked
  <2>1. v \in Unit /\ (program.kind[v] = "method" => program.key[v] \in Method)
    BY OrderTyped
  <2>2. PICK n \in Nat : \E tr \in [1 .. n -> RegType] :
               Runs(v, tr, n) /\ LinkedRun(v, tr, n) /\ Complete(v, tr[n], n) /\ Covered(v, tr[n])'
    <3>1. CASE v = u
      <4>1. InRun(u)
        BY <1>1, <1>2, <1>4, <3>1 DEF Followed, Evaluating
      <4>2. PICK n \in Nat : \E tr \in [1 .. n -> RegType] :
                   Runs(u, tr, n) /\ LinkedRun(u, tr, n) /\ tr[n] = reg /\ (reg.stopped \/ pc = n)
        BY <4>1 DEF InRun
      <4>3. PICK tr \in [1 .. n -> RegType] :
                   Runs(u, tr, n) /\ LinkedRun(u, tr, n) /\ tr[n] = reg /\ (reg.stopped \/ pc = n)
        BY <4>2
      <4>4. Complete(u, reg, n)
        <5>1. program.code[u] \in Seq(Instruction)
          BY <1>3, ProgramTyped DEF IInv, EdgesAgree
        <5> QED BY <1>1, <1>2, <4>3, <5>1 DEF Complete, Running
      <4>5. PICK g : g = reg
        OBVIOUS
      <4>6. Covered(u, g)'
        <5> SUFFICES ASSUME program.kind[u] = "method"
                     PROVE  /\ Summary(program.key[u])' # None
                            /\ Join(Summary(program.key[u])', Result(g)) = Summary(program.key[u])'
          BY <1>1 DEF Covered, Result
        <5>1. Kind0 = "method"
          BY <1>2 DEF Kind0
        <5>2. /\ program.key[u] \in Method
              /\ results'[program.key[u]].type = Widen(results[program.key[u]].type, Result(g))
          BY <1>8, <4>5, <5>1
        <5>3. Widen(results[program.key[u]].type, Result(g)) # None
              /\ Join(Widen(results[program.key[u]].type, Result(g)), Result(g)) = Widen(results[program.key[u]].type, Result(g))
          BY <1>6, <4>5, <5>2, WidenHolds
        <5>4. Summary(program.key[u])' = Widen(results[program.key[u]].type, Result(g))
          BY <1>1, <5>2, <5>3 DEF Summary
        <5> QED BY <5>3, <5>4
      <4> QED BY <3>1, <4>3, <4>4, <4>5, <4>6
    <3>2. CASE v # u
      <4>1. v \notin Range(todo) /\ Settled(v)
        BY <1>3, <1>4, <3>2 DEF Marked
      <4>2. PICK n \in Nat : \E tr \in [1 .. n -> RegType] :
                   Runs(v, tr, n) /\ LinkedRun(v, tr, n) /\ Complete(v, tr[n], n) /\ Covered(v, tr[n])
        BY <4>1 DEF Settled
      <4>3. PICK tr \in [1 .. n -> RegType] :
                   Runs(v, tr, n) /\ LinkedRun(v, tr, n) /\ Complete(v, tr[n], n) /\ Covered(v, tr[n])
        BY <4>2
      <4>4. PICK g : g = tr[n]
        OBVIOUS
      <4>5. Covered(v, g)'
        <5> SUFFICES ASSUME program.kind[v] = "method", ~ program.explicit[program.key[v]]
                     PROVE  /\ Summary(program.key[v])' # None
                            /\ Join(Summary(program.key[v])', Result(g)) = Summary(program.key[v])'
          BY <1>1 DEF Covered, Result
        <5>1. /\ program.key[v] \in Method /\ Summary(program.key[v]) # None
              /\ Join(Summary(program.key[v]), Result(g)) = Summary(program.key[v])
          BY <2>1, <4>3, <4>4 DEF Covered
        <5>2. CASE program.key[v] = program.key[u]
          <6>1. Kind0 = "method"
            BY <1>2, <1>7, <5>1, <5>2, OrderTyped, KindsAssumption DEF Kind0, Dependent
          <6>2. results[program.key[v]].type # None
            BY <1>3, <1>4, <4>1, <5>2 DEF Recorded
          <6>3. results[program.key[v]].type \in Type /\ Summary(program.key[v]) = results[program.key[v]].type
            BY <1>6, <5>1, <6>2 DEF Slot, Summary
          <6>4. Result(g) \in Type
            <7>1. n \in 1 .. n
              BY <4>3 DEF Runs
            <7> QED BY <4>4, <7>1, ResultTyped
          <6>5. Join(results[program.key[v]].type, Result(g)) = results[program.key[v]].type
            BY <5>1, <6>3
          <6>6. Widen(results[program.key[v]].type, Result(reg)) # None
                /\ Join(Widen(results[program.key[v]].type, Result(reg)), Result(g)) = Widen(results[program.key[v]].type, Result(reg))
            BY <1>6, <6>3, <6>4, <6>5, WidenKeeps
          <6>7. Summary(program.key[v])' = Widen(results[program.key[v]].type, Result(reg))
            BY <1>1, <1>8, <5>2, <6>1, <6>6 DEF Summary
          <6> QED BY <6>6, <6>7
        <5>3. CASE program.key[v] # program.key[u]
          <6>1. results'[program.key[v]].type = results[program.key[v]].type
            BY <1>8, <1>9, <5>1, <5>3
          <6>2. Summary(program.key[v])' = Summary(program.key[v])
            BY <1>1, <6>1 DEF Summary, tables
          <6> QED BY <5>1, <6>2
        <5> QED BY <5>2, <5>3
      <4> QED BY <4>3, <4>4, <4>5
    <3> QED BY <3>1, <3>2
  <2>3. PICK tr \in [1 .. n -> RegType] :
               Runs(v, tr, n) /\ LinkedRun(v, tr, n) /\ Complete(v, tr[n], n) /\ Covered(v, tr[n])'
    BY <2>2
  <2>4. Runs(v, tr, n)'
    BY <1>1, <2>3, FrameRuns DEF tables
  <2>5. LinkedRun(v, tr, n)' /\ Complete(v, tr[n], n)'
    BY <1>1, <2>3 DEF LinkedRun, Linked, Complete, Calls, Unwritten, Writes, edges
  <2> QED BY <2>3, <2>4, <2>5 DEF Settled
<1> QED BY <1>1, <1>5, <1>11, <1>12 DEF RoundInv, Followed, Evaluating

(* A commit keeps the run of a unit that calls nothing it changes. *)
LEMMA CommitRuns ==
    ASSUME IInv, methods' = [m \in Method |-> Committed(m)],
           UNCHANGED << program, shared, initialized, provisional >>,
           NEW v \in Range(program.order), NEW n, NEW tr, Runs(v, tr, n),
           \A i \in 1 .. n - 1 : \A I : I = program.code[v][i] /\ Calls(I, tr[i]) => I.method \notin CommitChanges
    PROVE  Runs(v, tr, n)'
<1>1. v \in Unit /\ (program.kind[v] = "method" => program.key[v] \in Method)
  BY OrderTyped
<1>2. \A m \in Method : methods'[m].param = methods[m].param
  <2> SUFFICES ASSUME NEW m \in Method PROVE Committed(m).param = methods[m].param
    OBVIOUS
  <2>1. methods[m] \in MethodType
    BY DEF IInv, EdgesAgree, TypeOK, MethodType
  <2> QED BY <2>1 DEF Committed, MethodType
<1>3. \A m \in Method \ CommitChanges : methods'[m] = methods[m]
  BY DEF CommitChanges
<1>4. ASSUME NEW i \in 1 .. n - 1, NEW I, I = program.code[v][i]
      PROVE  Quiet(v, I, tr[i])' /\ After(v, I, tr[i])' = After(v, I, tr[i])
  <2>1. Quiet(v, I, tr[i]) /\ i \in DOMAIN program.code[v]
    BY <1>4 DEF Runs
  <2>2. I.method \in Method
    BY <1>1, <1>4, <2>1, InstructionTyped
  <2>3. Taken(I.method, Argument(I, tr[i])) => Taken(I.method, Argument(I, tr[i]))'
    BY <1>2, <2>2 DEF Taken, Argument
  <2>4. \A k, t : Holds(k, t) => Holds(k, t)'
    BY DEF Holds
  <2>5. Written(v, I.key, tr[i]) => Written(v, I.key, tr[i])'
    BY <2>4 DEF Written, Guess
  <2>6. Quiet(v, I, tr[i])'
    BY <2>1, <2>3, <2>4, <2>5 DEF Quiet, Calls
  <2>7. CASE Calls(I, tr[i])
    <3>1. methods'[I.method] = methods[I.method]
      BY <1>3, <1>4, <2>2, <2>7
    <3>2. Answer(I.method)' = Answer(I.method) /\ Raised(I.method)' = Raised(I.method)
      BY <3>1 DEF Answer, Raised
    <3>3. AfterCall(v, I, tr[i])' = AfterCall(v, I, tr[i])
      BY <3>2 DEF AfterCall
    <3> QED BY <2>6, <2>7, <3>3 DEF After, Calls
  <2>8. CASE ~ Calls(I, tr[i])
    <3>1. AfterRaise(v, I, tr[i])' = AfterRaise(v, I, tr[i])
      BY DEF AfterRaise
    <3>2. I.op = "param" => AfterParam(v, tr[i])' = AfterParam(v, tr[i])
      BY <1>1, <1>2, <2>1 DEF Quiet, AfterParam
    <3>3. ReadType(I.key)' = ReadType(I.key)
      BY DEF ReadType
    <3> QED BY <2>6, <2>8, <3>1, <3>2, <3>3 DEF After, Calls, AfterGuard, Becomes
  <2> QED BY <2>7, <2>8
<1> QED BY <1>4, RunsKept

(* What covered the value of a unit before the commit covers it after. *)
LEMMA CommitCovers ==
    ASSUME IInv, methods' = [m \in Method |-> Committed(m)], results' = NoResults, program' = program,
           NEW v \in Range(program.order), NEW g, Covered(v, g)
    PROVE  Covered(v, g)'
<1> SUFFICES ASSUME program.kind[v] = "method", ~ program.explicit[program.key[v]]
             PROVE  /\ Summary(program.key[v])' # None
                    /\ Join(Summary(program.key[v])', Result(g)) = Summary(program.key[v])'
  BY DEF Covered, Result
<1> DEFINE m == program.key[v]
<1>1. m \in Method
  BY OrderTyped
<1>2. methods[m] \in MethodType
  BY <1>1 DEF IInv, EdgesAgree, TypeOK, MethodType
<1>3. Summary(m) # None /\ Join(Summary(m), Result(g)) = Summary(m)
  BY DEF Covered
<1>4. Committed(m).ret = Summary(m)
  BY <1>1, <1>2 DEF Committed, Summary, MethodType
<1>5. Summary(m)' = methods'[m].ret
  BY <1>1 DEF Summary, NoResults
<1> QED BY <1>1, <1>3, <1>4, <1>5

(* Who is evaluated again. *)
LEMMA AffectedMeans ==
    \A x : x \in NextAffected <=>
        \/ x \in changed.methods \union CommitChanges
        \/ \E m \in changed.methods \union CommitChanges : x \in callers[m]
        \/ \E k \in changed.shared : x \in readers[k]
<1> SUFFICES ASSUME NEW x
             PROVE  x \in NextAffected <=>
                      \/ x \in changed.methods \union CommitChanges
                      \/ \E m \in changed.methods \union CommitChanges : x \in callers[m]
                      \/ \E k \in changed.shared : x \in readers[k]
  OBVIOUS
<1> DEFINE M == changed.methods \union CommitChanges
           C == UNION { callers[m] : m \in M }
           R == UNION { readers[k] : k \in changed.shared }
<1>1. NextAffected = (M \union C) \union R
  BY DEF NextAffected, Affected
<1>2. x \in C <=> \E m \in M : x \in callers[m]
  <2> HIDE DEF M
  <2> QED OBVIOUS
<1>3. x \in R <=> \E k \in changed.shared : x \in readers[k]
  OBVIOUS
<1> HIDE DEF C, R
<1> QED BY <1>1, <1>2, <1>3

(* Everything that is scheduled has a dependency key. *)
LEMMA AffectedTyped ==
    ASSUME IInv
    PROVE  NextAffected \subseteq Dependent
<1>1. /\ changed.methods \union CommitChanges \subseteq Method /\ changed.shared \subseteq Key
      /\ callers \in [Method -> SUBSET Dependent] /\ readers \in [Key -> SUBSET Dependent]
  BY DEF CommitChanges, IInv, EdgesAgree, TypeOK
<1> QED BY <1>1, AffectedMeans DEF Dependent

(* A unit that is not in the next pass has settled. *)
LEMMA SettledOn ==
    ASSUME IInv, RoundInv, EndRound, NEW v \in Range(program.order), program.key[v] \notin NextAffected,
           program.key[v] = None => CommitChanges = {} /\ ~ Outdated(v)
    PROVE  Settled(v)'
<1>1. /\ phase = "round" /\ todo = << >> /\ methods' = [m \in Method |-> Committed(m)]
      /\ UNCHANGED << program, shared, initialized, provisional, edges >> /\ results' = NoResults
  BY DEF EndRound, StartPass
<1>2. Range(todo) = {}
  BY <1>1 DEF Range
<1>3. Marked
  BY <1>1 DEF RoundInv
<1>4. ~ Outdated(v)
  <2> SUFFICES ASSUME Outdated(v), program.key[v] # None PROVE FALSE
    OBVIOUS
  <2>1. program.key[v] \in changed.methods \/ \E k \in changed.shared : program.key[v] \in readers[k]
    BY DEF Outdated
  <2>2. changed.methods \subseteq NextAffected /\ \A k \in changed.shared : readers[k] \subseteq NextAffected
    BY AffectedMeans
  <2> QED BY <2>1, <2>2
<1>5. PICK n \in Nat : \E tr \in [1 .. n -> RegType] :
             Runs(v, tr, n) /\ LinkedRun(v, tr, n) /\ Complete(v, tr[n], n) /\ Covered(v, tr[n])
  BY <1>2, <1>3, <1>4 DEF Marked, Settled
<1>6. PICK tr \in [1 .. n -> RegType] :
             Runs(v, tr, n) /\ LinkedRun(v, tr, n) /\ Complete(v, tr[n], n) /\ Covered(v, tr[n])
  BY <1>5
<1>7. ASSUME NEW i \in 1 .. n - 1, NEW I, I = program.code[v][i], Calls(I, tr[i])
      PROVE  I.method \notin CommitChanges
  <2>1. Linked(v, I, tr[i])
    BY <1>6, <1>7 DEF LinkedRun
  <2>2. program.key[v] # None => program.key[v] \in callers[I.method]
    BY <1>7, <2>1 DEF Linked
  <2>3. I.method \in CommitChanges => callers[I.method] \subseteq NextAffected
    BY AffectedMeans
  <2> QED BY <2>2, <2>3
<1>8. Runs(v, tr, n)'
  BY <1>1, <1>6, <1>7, CommitRuns
<1>9. LinkedRun(v, tr, n)' /\ Complete(v, tr[n], n)'
  BY <1>1, <1>6 DEF LinkedRun, Linked, Complete, Calls, Unwritten, Writes, edges
<1>10. Covered(v, tr[n])'
  BY <1>1, <1>6, CommitCovers
<1> QED BY <1>8, <1>9, <1>10 DEF Settled

(* A round that schedules another one, and the seed. *)
LEMMA RoundStarts ==
    ASSUME IInv, NEW scheduled, NEW active, StartPass("round", scheduled, active), program' = program,
           \A v \in Range(program.order) :
               \/ program.kind[v] = "top"
               \/ program.kind[v] = "body" /\ program.key[v] \in active
               \/ program.kind[v] = "method" /\ program.key[v] \in scheduled
               \/ Settled(v)'
    PROVE  RoundInv' /\ FinalInv'
<1>1. phase' = "round" /\ pc' = 0 /\ todo' = RoundUnits(program, scheduled, active)
  BY DEF StartPass
<1>2. Range(todo)' = { u \in Range(program.order) :
                  \/ program.kind[u] = "top"
                  \/ program.kind[u] = "body" /\ program.key[u] \in active
                  \/ program.kind[u] = "method" /\ program.key[u] \in scheduled }
  BY <1>1, RoundRange
<1>3. Scheduled' /\ Marked'
  BY <1>2 DEF Scheduled, Marked
<1>4. Recorded'
  <2> SUFFICES ASSUME NEW v \in Range(program.order), NEW w \in Range(todo)', v \notin Range(todo)',
                      program.kind[v] = "method", program.key[v] = program.key[w]
               PROVE  FALSE
    BY DEF Recorded
  <2>1. program.key[v] \in Method /\ w \in Range(program.order)
    BY <1>2, OrderTyped
  <2>2. program.kind[w] = "method"
    BY <2>1, OrderTyped, KindsAssumption DEF Dependent
  <2> QED BY <1>2, <2>1, <2>2
<1> QED BY <1>1, <1>3, <1>4 DEF RoundInv, FinalInv, Followed, Evaluating

(* After the seed every definition is evaluated. *)
LEMMA SeedEnds ==
    ASSUME IInv, EndSeed
    PROVE  RoundInv' /\ FinalInv'
<1>1. program' = program /\ StartPass(IF SourceMethods(program) = {} THEN "final" ELSE "round",
                                      SourceMethods(program), SourceBodies(program))
  BY DEF EndSeed
<1>2. CASE SourceMethods(program) = {}
  <2>1. phase' = "final" /\ todo' = program.order
    BY <1>1, <1>2 DEF StartPass
  <2> QED BY <1>1, <1>2, <2>1 DEF RoundInv, FinalInv, Scheduled
<1>3. CASE SourceMethods(program) # {}
  <2>1. StartPass("round", SourceMethods(program), SourceBodies(program))
    BY <1>1, <1>3
  <2>2. \A v \in Range(program.order) :
               \/ program.kind[v] = "top"
               \/ program.kind[v] = "body" /\ program.key[v] \in SourceBodies(program)
               \/ program.kind[v] = "method" /\ program.key[v] \in SourceMethods(program)
    BY OrderTyped DEF SourceBodies, SourceMethods
  <2> QED BY <1>1, <2>1, <2>2, RoundStarts
<1> QED BY <1>2, <1>3

(* The end of a round: another one for what was affected, or the final pass. *)
LEMMA RoundEnds ==
    ASSUME IInv, Heard, RoundInv, EndRound
    PROVE  RoundInv' /\ FinalInv'
<1>1. /\ phase = "round" /\ todo = << >> /\ program' = program
      /\ StartPass(IF NextAffected \intersect Method = {} THEN "final" ELSE "round",
                   NextAffected \intersect Method, NextAffected \intersect Body)
  BY DEF EndRound, NextAffected
<1>2. CASE NextAffected \intersect Method # {}
  <2>1. StartPass("round", NextAffected \intersect Method, NextAffected \intersect Body)
    BY <1>1, <1>2
  <2>2. ASSUME NEW v \in Range(program.order), program.kind[v] # "top",
               ~ (program.kind[v] = "body" /\ program.key[v] \in NextAffected \intersect Body),
               ~ (program.kind[v] = "method" /\ program.key[v] \in NextAffected \intersect Method)
        PROVE  Settled(v)'
    <3>1. program.key[v] \notin NextAffected /\ program.key[v] # None
      BY <2>2, OrderTyped, KindsAssumption DEF Dependent
    <3> QED BY <3>1, SettledOn
  <2> QED BY <1>1, <2>1, <2>2, RoundStarts
<1>3. CASE NextAffected \intersect Method = {}
  <2>1. /\ phase' = "final" /\ todo' = program.order /\ pc' = 0 /\ results' = NoResults
    BY <1>1, <1>3 DEF StartPass
  <2>2. CommitChanges = {} /\ changed.methods = {} /\ NextAffected \subseteq Dependent
    <3>1. CommitChanges \subseteq Method /\ changed.methods \subseteq Method
      BY DEF CommitChanges, IInv, EdgesAgree, TypeOK
    <3>2. CommitChanges \union changed.methods \subseteq NextAffected
      BY AffectedMeans
    <3> QED BY <1>3, <3>1, <3>2, AffectedTyped
  <2>3. NextAffected = {}
    BY <1>1, <1>3, <2>2 DEF Heard, RoundsSettle, Dependent
  <2>4. ASSUME NEW v \in Range(program.order) PROVE Settled(v)'
    <3>1. program.key[v] = None => ~ Outdated(v)
      <4> SUFFICES ASSUME program.key[v] = None, Outdated(v) PROVE FALSE
        OBVIOUS
      <4>1. program.kind[v] = "top"
        BY OrderTyped, KindsAssumption DEF Dependent
      <4>2. \A k \in changed.shared : ~ Reads(v, k)
        BY <1>1, <1>3, <4>1 DEF Heard, RoundsSettle
      <4> QED BY <2>2, <4>2 DEF Outdated
    <3> QED BY <2>2, <2>3, <3>1, SettledOn
  <2>5. AllReplayable'
    <3>1. \A v : Settled(v)' => Replayable(v)'
      BY DEF Settled, Replayable
    <3> QED BY <1>1, <2>4, <3>1 DEF AllReplayable
  <2>6. NoneRecorded'
    BY <2>1 DEF NoneRecorded, NoResults
  <2> QED BY <1>1, <2>1, <2>5, <2>6 DEF RoundInv, FinalInv, Scheduled, Replayed, Evaluating
<1> QED BY <1>2, <1>3

(* The final pass steps through the run it knows and changes nothing. *)
LEMMA FinalOperation ==
    ASSUME IInv, Absorbing, Heard, FinalInv, phase = "final", Operation
    PROVE  /\ FinalInv'
           /\ SourceMethods(program) # {} => UNCHANGED << methods, shared, initialized >>
<1>1. Running /\ UNCHANGED << program, phase, todo, results >>
  BY OperationHere
<1>2. PICK u : u = Unit0
  OBVIOUS
<1>3. Unit0' = u /\ Scheduled'
  BY <1>1, <1>2 DEF Unit0, FinalInv, Scheduled
<1> SUFFICES ASSUME SourceMethods(program) # {}
             PROVE  (NoneRecorded /\ AllReplayable /\ Replayed)' /\ UNCHANGED << methods, shared, initialized >>
  BY <1>1, <1>3 DEF FinalInv
<1>4. NoneRecorded /\ AllReplayable /\ InReplay(u)
  BY <1>1, <1>2 DEF FinalInv, Replayed, Evaluating, Running
<1>5. PICK n \in Nat : \E tr \in [1 .. n -> RegType] :
             /\ Runs(u, tr, n) /\ Complete(u, tr[n], n) /\ Covered(u, tr[n])
             /\ \E i \in 1 .. n : tr[i] = reg /\ (reg.stopped \/ pc = i)
  BY <1>4 DEF InReplay
<1>6. PICK tr \in [1 .. n -> RegType] :
             /\ Runs(u, tr, n) /\ Complete(u, tr[n], n) /\ Covered(u, tr[n])
             /\ \E i \in 1 .. n : tr[i] = reg /\ (reg.stopped \/ pc = i)
  BY <1>5
<1>7. PICK i \in 1 .. n : tr[i] = reg /\ pc = i /\ ~ reg.stopped
  BY <1>1, <1>6 DEF Running
<1>8. i \in 1 .. n - 1
  <2>1. i # n
    <3>1. program.code[u] \in Seq(Instruction)
      BY <1>1, <1>2, CurrentUnit DEF IInv, EdgesAgree, Running
    <3> QED BY <1>1, <1>2, <1>6, <1>7, <3>1 DEF Complete, Running
  <2> QED BY <2>1
<1>9. /\ tr[i + 1] = After(u, program.code[u][i], tr[i]) /\ Quiet(u, program.code[u][i], tr[i])
  BY <1>6, <1>8 DEF Runs
<1>10. tr[i + 1] = After(Unit0, Now, reg) /\ Quiet(Unit0, Now, reg)
  BY <1>2, <1>7, <1>9 DEF Now
<1>11. UNCHANGED << methods, shared, initialized >> /\ provisional' \subseteq provisional
  BY <1>10, QuietChangesNothing
<1>12. reg' = tr[i + 1] /\ (pc' = i + 1 \/ reg'.stopped)
  BY <1>7, <1>10, MovesOn DEF Heard
<1>13. \A v, h : Covered(v, h)' <=> Covered(v, h)
  BY <1>1, <1>11 DEF Covered, Summary, Result
<1>14. \A v, h, k : Complete(v, h, k)' <=> Complete(v, h, k)
  BY <1>1 DEF Complete
<1>15. \A v, s, k : Runs(v, s, k) => Runs(v, s, k)'
  BY <1>1, <1>11, FrameRuns
<1>16. AllReplayable'
  BY <1>1, <1>4, <1>13, <1>14, <1>15 DEF AllReplayable, Replayable
<1>17. InReplay(u)'
  <2>1. i + 1 \in 1 .. n
    BY <1>8
  <2> QED BY <1>6, <1>12, <1>13, <1>14, <1>15, <2>1 DEF InReplay
<1> QED BY <1>1, <1>3, <1>4, <1>11, <1>16, <1>17 DEF NoneRecorded, Replayed

(* Steps that leave the tables alone leave what is known of every unit alone. *)
LEMMA FrameKnown ==
    ASSUME UNCHANGED << program, tables, results >>
    PROVE  /\ AllReplayable => AllReplayable'
           /\ \A v, g : Covered(v, g)' <=> Covered(v, g)
           /\ \A v, g, n : Complete(v, g, n)' <=> Complete(v, g, n)
           /\ \A v, tr, n : Runs(v, tr, n) => Runs(v, tr, n)'
<1>1. UNCHANGED << methods, shared, initialized, provisional >>
  BY DEF tables
<1>2. \A v, g : Covered(v, g)' <=> Covered(v, g)
  BY <1>1 DEF Covered, Summary, Result
<1>3. \A v, g, n : Complete(v, g, n)' <=> Complete(v, g, n)
  BY DEF Complete
<1>4. \A v, tr, n : Runs(v, tr, n) => Runs(v, tr, n)'
  BY <1>1, FrameRuns
<1> QED BY <1>2, <1>3, <1>4 DEF AllReplayable, Replayable

(* A unit begins the run that is known of it. *)
LEMMA FinalBegin ==
    ASSUME IInv, FinalInv, phase = "final", Begin
    PROVE  FinalInv'
<1>1. todo # << >> /\ pc' = 1 /\ reg' = Idle /\ UNCHANGED << program, phase, todo, tables, results >>
  BY DEF Begin
<1>2. PICK u : u = Unit0
  OBVIOUS
<1>3. Unit0' = u /\ u \in Range(program.order) /\ Scheduled'
  BY <1>1, <1>2, HeadTail DEF Unit0, FinalInv, Scheduled
<1>4. CASE SourceMethods(program) = {}
  BY <1>1, <1>3, <1>4 DEF FinalInv
<1>5. CASE SourceMethods(program) # {}
  <2>1. NoneRecorded' /\ AllReplayable' /\ Replayable(u)'
    BY <1>1, <1>3, <1>5, FrameKnown DEF FinalInv, NoneRecorded, AllReplayable
  <2>2. InReplay(u)'
    <3>1. PICK n \in Nat : \E tr \in [1 .. n -> RegType] :
                 (Runs(u, tr, n) /\ Complete(u, tr[n], n) /\ Covered(u, tr[n]))'
      BY <2>1 DEF Replayable
    <3>2. PICK tr \in [1 .. n -> RegType] :
                 (Runs(u, tr, n) /\ Complete(u, tr[n], n) /\ Covered(u, tr[n]))'
      BY <3>1
    <3>3. 1 \in 1 .. n /\ tr[1] = reg' /\ pc' = 1
      BY <1>1, <3>2 DEF Runs, Idle
    <3> QED BY <3>2, <3>3 DEF InReplay
  <2> QED BY <1>3, <2>1, <2>2 DEF FinalInv, Replayed
<1> QED BY <1>4, <1>5

(* The final pass records nothing. *)
LEMMA FinalEnd ==
    ASSUME IInv, FinalInv, phase = "final", End
    PROVE  FinalInv'
<1>1. todo # << >> /\ pc' = 0 /\ todo' = Tail(todo) /\ UNCHANGED << program, phase, tables, results >>
  BY DEF End, AtEnd, Collecting
<1>2. Scheduled'
  BY <1>1, HeadTail DEF FinalInv, Scheduled
<1>3. AllReplayable => AllReplayable'
  BY <1>1, FrameKnown
<1> QED BY <1>1, <1>2, <1>3 DEF FinalInv, NoneRecorded, Replayed, Evaluating

(* A step that changes nothing. *)
LEMMA StutterKeeps ==
    ASSUME RoundInv, FinalInv, UNCHANGED vars
    PROVE  RoundInv' /\ FinalInv'
<1>1. UNCHANGED << program, phase, todo, pc, reg, tables, edges, results, changed >>
  BY DEF vars
<1>2. /\ AllReplayable => AllReplayable'
      /\ \A v, g : Covered(v, g)' <=> Covered(v, g)
      /\ \A v, g, n : Complete(v, g, n)' <=> Complete(v, g, n)
      /\ \A v, tr, n : Runs(v, tr, n) => Runs(v, tr, n)'
  BY <1>1, FrameKnown
<1>3. PICK u : u = Unit0
  OBVIOUS
<1>4. Unit0' = u
  BY <1>1, <1>3 DEF Unit0
<1>5. \A v : Outdated(v)' <=> Outdated(v)
  BY <1>1 DEF Outdated, Reads, edges
<1>6. \A v, tr, n : LinkedRun(v, tr, n)' <=> LinkedRun(v, tr, n)
  BY <1>1 DEF LinkedRun, Linked, Calls, Unwritten, Writes, edges
<1>7. \A v : Settled(v) => Settled(v)'
  BY <1>2, <1>6 DEF Settled
<1>8. InRun(u) => InRun(u)'
  BY <1>1, <1>2, <1>6 DEF InRun
<1>9. InReplay(u) => InReplay(u)'
  BY <1>1, <1>2 DEF InReplay
<1>10. RoundInv'
  BY <1>1, <1>3, <1>4, <1>5, <1>7, <1>8 DEF RoundInv, Scheduled, Marked, Recorded, Followed, Evaluating
<1>11. FinalInv'
  BY <1>1, <1>2, <1>3, <1>4, <1>9 DEF FinalInv, Scheduled, NoneRecorded, Replayed, Evaluating
<1> QED BY <1>10, <1>11

(* Every step keeps what the rounds are for. *)
LEMMA RoundsKept ==
    ASSUME IInv, IInv', Absorbing, Heard, RoundInv, FinalInv, [Next]_vars
    PROVE  RoundInv' /\ FinalInv'
<1>1. phase \in {"seed", "round", "final", "done"}
  BY DEF IInv, EdgesAgree, TypeOK
<1>2. CASE UNCHANGED vars
  BY <1>2, StutterKeeps
<1>3. CASE Operation
  <2>1. phase' = phase
    BY <1>3, OperationHere
  <2>2. phase # "round" => RoundInv'
    BY <2>1 DEF RoundInv
  <2>3. phase # "final" => FinalInv'
    BY <2>1 DEF FinalInv
  <2> QED BY <1>3, <2>2, <2>3, RoundOperation, FinalOperation
<1>4. CASE Begin
  <2>1. phase' = phase
    BY <1>4 DEF Begin
  <2>2. phase # "round" => RoundInv'
    BY <2>1 DEF RoundInv
  <2>3. phase # "final" => FinalInv'
    BY <2>1 DEF FinalInv
  <2> QED BY <1>4, <2>2, <2>3, RoundBegin, FinalBegin
<1>5. CASE End
  <2>1. phase' = phase
    BY <1>5 DEF End
  <2>2. phase # "round" => RoundInv'
    BY <2>1 DEF RoundInv
  <2>3. phase # "final" => FinalInv'
    BY <2>1 DEF FinalInv
  <2> QED BY <1>5, <2>2, <2>3, RoundEnd, FinalEnd
<1>6. CASE EndSeed \/ EndRound
  BY <1>6, SeedEnds, RoundEnds
<1>7. CASE EndFinal
  <2>1. phase' = "done"
    BY <1>7 DEF EndFinal, StartPass
  <2> QED BY <2>1 DEF RoundInv, FinalInv
<1>8. CASE Stopped
  BY <1>8, StutterKeeps DEF Stopped
<1> QED BY <1>2, <1>3, <1>4, <1>5, <1>6, <1>7, <1>8 DEF Next, Operation

(* At the end of a body of the final pass its whole run is done. *)
LEMMA FinalCovers ==
    ASSUME IInv, FinalInv
    PROVE  FinalCovered
<1> SUFFICES ASSUME phase = "final", AtEnd, Kind0 = "method", ~ program.explicit[Self]
             PROVE  methods[Self].ret # None /\ Join(methods[Self].ret, Returned) = methods[Self].ret
  BY DEF FinalCovered
<1>1. todo # << >> /\ pc > 0 /\ ~ Running
  BY DEF AtEnd
<1>2. Unit0 \in Range(program.order) /\ Self \in Method /\ program.code[Unit0] \in Seq(Instruction)
  BY <1>1, HeadTail, CurrentUnit DEF FinalInv, Scheduled, IInv, EdgesAgree
<1>3. SourceMethods(program) # {}
  BY <1>2 DEF SourceMethods, Kind0
<1>4. NoneRecorded /\ InReplay(Unit0)
  BY <1>1, <1>3 DEF FinalInv, Replayed, Evaluating
<1>5. PICK n \in Nat : \E tr \in [1 .. n -> RegType] :
             /\ Runs(Unit0, tr, n) /\ Complete(Unit0, tr[n], n) /\ Covered(Unit0, tr[n])
             /\ \E i \in 1 .. n : tr[i] = reg /\ (reg.stopped \/ pc = i)
  BY <1>4 DEF InReplay
<1>6. PICK tr \in [1 .. n -> RegType] :
             /\ Runs(Unit0, tr, n) /\ Complete(Unit0, tr[n], n) /\ Covered(Unit0, tr[n])
             /\ \E i \in 1 .. n : tr[i] = reg /\ (reg.stopped \/ pc = i)
  BY <1>5
<1>7. PICK i \in 1 .. n : tr[i] = reg /\ (reg.stopped \/ pc = i)
  BY <1>6
<1>8. i = n
  <2> SUFFICES ASSUME i \in 1 .. n - 1 PROVE FALSE
    BY <1>7
  <2>1. i \in DOMAIN program.code[Unit0] /\ ~ tr[i].stopped
    BY <1>6 DEF Runs
  <2> QED BY <1>1, <1>2, <1>7, <2>1 DEF Running
<1>9. Covered(Unit0, reg)
  BY <1>6, <1>7, <1>8
<1>10. Summary(Self) = methods[Self].ret
  BY <1>2, <1>4 DEF Summary, NoneRecorded
<1>11. Returned = Result(reg)
  BY DEF Returned, Result
<1> QED BY <1>9, <1>10, <1>11 DEF Covered, Kind0, Self

(* The final pass learns nothing. *)
LEMMA FinalLearnsNothing ==
    ASSUME IInv, Absorbing, Heard, FinalInv, SourceMethods(program) # {}, phase = "final", Next
    PROVE  UNCHANGED << methods, shared, initialized >>
<1>1. CASE Operation
  BY <1>1, FinalOperation
<1>2. Begin \/ End \/ EndFinal \/ Stopped => UNCHANGED << methods, shared, initialized >>
  BY DEF Begin, End, EndFinal, Stopped, vars, tables
<1>3. ~ EndSeed /\ ~ EndRound
  BY DEF EndSeed, EndRound
<1> QED BY <1>1, <1>2, <1>3 DEF Next, Operation

(***************************************************************************)
(* The published pass agrees with the summaries it was computed from: in   *)
(* the final pass the value of the body of a method whose return is        *)
(* inferred is covered by that return, as run_analysis leaves it at the    *)
(* end of the last round.                                                  *)
(***************************************************************************)
THEOREM FinalCoveredCorrect ==
    ASSUME Absorbing
    PROVE  Spec /\ []Heard => []FinalCovered
<1>1. Init => RoundInv /\ FinalInv
  BY DEF Init, RoundInv, FinalInv
<1>2. IInv /\ IInv' /\ Heard /\ RoundInv /\ FinalInv /\ [Next]_vars => (RoundInv /\ FinalInv)'
  BY RoundsKept
<1>3. IInv /\ FinalInv => FinalCovered
  BY FinalCovers
<1> QED BY <1>1, <1>2, <1>3, InvariantCorrect, PTL DEF Spec

(***************************************************************************)
(* The final pass of run_analysis, "re-run once with settled summaries",   *)
(* changes no summary, no parameter and no shared variable.  Without a     *)
(* method there is no round, and namespace bodies are evaluated there for  *)
(* the first time.                                                         *)
(***************************************************************************)
THEOREM FinalQuietCorrect ==
    ASSUME Absorbing
    PROVE  Spec /\ []Heard /\ SourceMethods(program) # {} => FinalQuiet
<1> DEFINE HasMethods == SourceMethods(program) # {}
           Learns == phase = "final" => UNCHANGED << methods, shared, initialized >>
<1>1. Init => RoundInv /\ FinalInv
  BY DEF Init, RoundInv, FinalInv
<1>2. IInv /\ IInv' /\ Heard /\ RoundInv /\ FinalInv /\ [Next]_vars => (RoundInv /\ FinalInv)'
  BY RoundsKept
<1>3. HasMethods /\ [Next]_vars => HasMethods'
  <2>1. [Next]_vars => program' = program
    <3>1. Operation => program' = program
      BY OperationHere
    <3>2. Begin \/ End \/ EndSeed \/ EndRound \/ EndFinal \/ Stopped \/ UNCHANGED vars => program' = program
      BY DEF Begin, End, EndSeed, EndRound, EndFinal, Stopped, vars
    <3> QED BY <3>1, <3>2 DEF Next, Operation
  <2> QED BY <2>1
<1>4. IInv /\ Heard /\ FinalInv /\ HasMethods /\ [Next]_vars => [Learns]_vars
  BY FinalLearnsNothing
<1> HIDE DEF HasMethods, Learns
<1>5. Spec /\ []Heard /\ HasMethods => [][Learns]_vars
  BY <1>1, <1>2, <1>3, <1>4, InvariantCorrect, PTL DEF Spec
<1> QED BY <1>5, PTL DEF FinalQuiet, HasMethods, Learns
=============================================================================
