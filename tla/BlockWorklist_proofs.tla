------------------------ MODULE BlockWorklist_proofs ------------------------
(***************************************************************************)
(* What TLC checks of BlockWorklist on bodies of three blocks holds of     *)
(* every body and every host that obeys DataflowLaws.                      *)
(***************************************************************************)
EXTENDS DataflowLaws, TLAPS

-----------------------------------------------------------------------------
(***************************************************************************)
(* The join as a partial order.                                            *)
(***************************************************************************)

\* Both operands of BlockState::join are below its result.
LEMMA JoinUpper ==
    ASSUME NEW s \in State, NEW t \in State
    PROVE  Join(s, t) \in State /\ Below(s, Join(s, t)) /\ Below(t, Join(s, t))
<1>1. Join(s, t) \in State /\ Join(s, t) # None
  BY HostAssumption, SizeAssumption DEF Block
<1>2. Join(s, Join(s, t)) = Join(s, t)
  BY SemilatticeAssumption DEF Semilattice
<1>3. Join(t, Join(s, t)) = Join(s, t)
  <2>1. Join(t, Join(t, s)) = Join(t, s)
    BY SemilatticeAssumption DEF Semilattice
  <2>2. Join(t, s) = Join(s, t)
    BY SemilatticeAssumption DEF Semilattice
  <2> QED BY <2>1, <2>2
<1> QED BY <1>1, <1>2, <1>3 DEF Below

\* The order is transitive.
LEMMA BelowTransitive ==
    ASSUME NEW s \in State, NEW t \in State, NEW u \in State, Below(s, t), Below(t, u)
    PROVE  Below(s, u)
<1>1. Join(s, t) = t /\ Join(t, u) = u /\ u # None
  BY DEF Below
<1>2. Join(Join(s, t), u) = Join(s, Join(t, u))
  BY SemilatticeAssumption DEF Semilattice
<1> QED BY <1>1, <1>2 DEF Below

\* What join_state returns is a state above both the current and the incoming one.
LEMMA JoinStateUpper ==
    ASSUME NEW cur \in State \union {None}, NEW s \in State
    PROVE  /\ JoinState(cur, s) \in State
           /\ Below(s, JoinState(cur, s))
           /\ cur # None => Below(cur, JoinState(cur, s))
<1>1. Below(s, s) /\ s # None
  BY SemilatticeAssumption, SizeAssumption DEF Semilattice, Below
<1>2. CASE cur = None \/ cur = s
  BY <1>1, <1>2 DEF JoinState
<1>3. CASE cur # None /\ cur # s
  <2>1. cur \in State
    BY <1>3
  <2> QED BY <1>3, <2>1, JoinUpper DEF JoinState
<1> QED BY <1>2, <1>3

-----------------------------------------------------------------------------
\* The edges of a block are edges.
LEMMA EdgesType ==
    ASSUME NEW p \in Program, NEW b \in Block, NEW s \in State
    PROVE  Edges(p, b, s) \in Seq(Edge) /\ Fails(p, b, s) \in BOOLEAN
  BY HostAssumption

\* The block and the state at the head of a non-empty sequence of edges.
LEMMA HeadEdge ==
    ASSUME NEW es \in Seq(Edge), es # << >>
    PROVE  /\ Head(es) \in Edge /\ Tail(es) \in Seq(Edge)
           /\ Head(es).target \in Int /\ Head(es).state \in State
<1>1. Head(es) \in Edge /\ Tail(es) \in Seq(Edge)
  OBVIOUS
<1> QED BY <1>1 DEF Edge

\* The first and the later elements of a path.
LEMMA PathHead ==
    ASSUME NEW ps \in Seq(Block), ps # << >>
    PROVE  /\ Head(ps) = ps[1] /\ ps[1] \in Block /\ Tail(ps) \in Seq(Block)
           /\ Len(ps) \in Nat \ {0} /\ (Len(ps) # 1 => ps[2] \in Block)
<1>1. Len(ps) \in Nat \ {0} /\ DOMAIN ps = 1 .. Len(ps)
  OBVIOUS
<1>2. ps[1] \in Block /\ (Len(ps) # 1 => ps[2] \in Block)
  BY <1>1
<1>3. Head(ps) = ps[1] /\ Tail(ps) \in Seq(Block)
  OBVIOUS
<1> QED BY <1>1, <1>2, <1>3

-----------------------------------------------------------------------------
(***************************************************************************)
(* The inductive invariant.  TypeOK and Settled are not inductive alone:   *)
(* run_straight_line relies on what straight_line_path has walked over,    *)
(* blocks with one edge that are reached only through each other.          *)
(***************************************************************************)
OneWay(b) == b \in Block /\ ~ program.body[b].unwind

Distinct(ps) == \A i, k \in DOMAIN ps : ps[i] = ps[k] => i = k

WalkShape ==
    phase = "walk" =>
        /\ IF path = << >> THEN current = program.start ELSE path[1] = program.start
        /\ \A b \in Block : states[b] # None <=> b = program.start
        /\ \A i \in DOMAIN path : OneWay(path[i]) /\ Ends(path[i], "jump")
        /\ Distinct(path)

StraightShape ==
    phase = "straight" =>
        /\ path # << >> /\ states[path[1]] # None
        /\ \A i \in DOMAIN path :
              /\ OneWay(path[i]) /\ (i > 1 => states[path[i]] = None)
              /\ Ends(path[i], IF i < Len(path) THEN "jump" ELSE "stop")
        /\ Distinct(path)

\* Off the worklist nothing is queued, and a path exists only before and on the fast path.
Quiet ==
    /\ phase \in {"walk", "straight", "done"} => edges = << >> /\ \A b \in Block : ~ queued[b]
    /\ phase \in {"worklist", "done"} => path = << >>

Grounded == Below(program.initial, states[program.start])

IInv ==
    TypeOK /\ FlagsMatchHeap /\ WalkShape /\ StraightShape /\ Quiet /\ Grounded /\ Settled

-----------------------------------------------------------------------------
\* A member of a sequence is its head or in its tail.
LEMMA HeadOrTail ==
    ASSUME NEW S, NEW es \in Seq(S), es # << >>, NEW e \in Range(es)
    PROVE  e = Head(es) \/ e \in Range(Tail(es))
<1>1. PICK i \in DOMAIN es : e = es[i]
  BY DEF Range
<1>2. /\ DOMAIN es = 1 .. Len(es) /\ Len(es) \in Nat /\ Head(es) = es[1]
      /\ DOMAIN Tail(es) = 1 .. Len(es) - 1
      /\ \A k \in 1 .. Len(es) - 1 : Tail(es)[k] = es[k + 1]
  OBVIOUS
<1>3. CASE i = 1
  BY <1>1, <1>2, <1>3
<1>4. CASE i # 1
  <2>1. i - 1 \in DOMAIN Tail(es) /\ (i - 1) + 1 = i
    BY <1>2, <1>4
  <2>2. Tail(es)[i - 1] = e
    BY <1>1, <1>2, <2>1
  <2> QED BY <2>1, <2>2 DEF Range
<1> QED BY <1>3, <1>4

\* The second element of a sequence is in its tail.
LEMMA SecondInTail ==
    ASSUME NEW S, NEW ps \in Seq(S), Len(ps) > 1
    PROVE  ps[2] \in Range(Tail(ps))
<1>1. 2 \in DOMAIN ps /\ ps # << >> /\ 2 # 1
  OBVIOUS
<1>2. 1 \in DOMAIN Tail(ps) /\ Tail(ps)[1] = ps[2]
  OBVIOUS
<1> QED BY <1>2 DEF Range

\* The head of a sequence, and what is in its tail, are in the sequence.
LEMMA HeadInRange ==
    ASSUME NEW S, NEW es \in Seq(S), es # << >>
    PROVE  Head(es) \in Range(es) /\ Head(es) = es[1]
<1>1. 1 \in DOMAIN es /\ Head(es) = es[1]
  OBVIOUS
<1> QED BY <1>1 DEF Range

LEMMA TailInRange ==
    ASSUME NEW S, NEW es \in Seq(S), es # << >>
    PROVE  Range(Tail(es)) \subseteq Range(es)
<1>1. ASSUME NEW i \in DOMAIN Tail(es) PROVE Tail(es)[i] \in Range(es)
  <2>1. i + 1 \in DOMAIN es /\ Tail(es)[i] = es[i + 1]
    OBVIOUS
  <2> QED BY <2>1 DEF Range
<1> QED BY <1>1 DEF Range

\* The states a block sends are states.
LEMMA RangeEdge ==
    ASSUME NEW p \in Program, NEW b \in Block, NEW s \in State, NEW e \in Range(Edges(p, b, s))
    PROVE  e \in Edge /\ e.state \in State
<1>1. Edges(p, b, s) \in Seq(Edge)
  BY EdgesType
<1>2. e \in Edge
  BY <1>1 DEF Range
<1> QED BY <1>2 DEF Edge

LEMMA TypeStep == TypeOK /\ StraightShape /\ [Next]_vars => TypeOK'
<1> SUFFICES ASSUME TypeOK, StraightShape, [Next]_vars PROVE TypeOK'
  OBVIOUS
<1> USE DEF TypeOK
<1>0. /\ program.start \in Block /\ program.initial \in State
      /\ \A b \in Block : program.body[b].term \in Terminator
  BY ProgramAssumption
<1>1. CASE Walk
  <2> DEFINE jumps == /\ current \in Block /\ path' = Append(path, current)
                      /\ current' = program.body[current].term.target
                      /\ UNCHANGED << phase, pending, queued >>
             stops == /\ current \in Block /\ path' = Append(path, current)
                      /\ phase' = "straight" /\ UNCHANGED << current, pending, queued >>
             queues == /\ path' = << >> /\ phase' = "worklist" /\ UNCHANGED current
                       /\ pending' = [pending EXCEPT ![program.start] = 1]
                       /\ queued' = [queued EXCEPT ![program.start] = TRUE]
  <2>1. (jumps \/ stops \/ queues) /\ UNCHANGED << program, states, edges >>
    BY <1>1 DEF Walk
  <2>2. CASE jumps
    <3>1. program.body[current].term.target \in Int
      BY <1>0, <2>2 DEF Terminator
    <3> QED BY <2>1, <2>2, <3>1
  <2>3. CASE stops
    BY <2>1, <2>3
  <2>4. CASE queues
    BY <1>0, <2>1, <2>4
  <2> QED BY <2>1, <2>2, <2>3, <2>4
<1>2. ASSUME NEW b \in Block, Pop(b) PROVE TypeOK'
  <2>1. pending' \in [Block -> Nat]
    BY <1>2 DEF Pop, IsNext
  <2>2. states[b] # None => Edges(program, b, states[b]) \in Seq(Edge)
    BY EdgesType
  <2>3. edges' \in Seq(Edge)
    BY <1>2, <2>2 DEF Pop
  <2> QED BY <1>2, <2>1, <2>3 DEF Pop, Block
<1>3. CASE Propagate
  <2> DEFINE t == Head(edges).target
             j == JoinState(states[t], Head(edges).state)
  <2>1. edges # << >> /\ edges' = Tail(edges) /\ edges' \in Seq(Edge)
    BY <1>3, HeadEdge DEF Propagate
  <2>2. CASE t \notin Block
    BY <1>3, <2>1, <2>2 DEF Propagate
  <2>3. CASE t \in Block
    <3>1. j \in State
      BY <2>1, <2>3, HeadEdge, JoinStateUpper
    <3>2. /\ phase' = phase /\ states' = [states EXCEPT ![t] = j]
          /\ UNCHANGED << program, current, path >>
          /\ \/ UNCHANGED << pending, queued >>
             \/ /\ pending' = [pending EXCEPT ![t] = @ + 1]
                /\ queued' = [queued EXCEPT ![t] = TRUE]
      BY <1>3, <2>3 DEF Propagate
    <3>3. states' \in [Block -> State \union {None}]
      BY <3>1, <3>2
    <3>4. pending' \in [Block -> Nat] /\ queued' \in [Block -> BOOLEAN]
      <4> HIDE DEF t, j
      <4>1. CASE UNCHANGED << pending, queued >>
        BY <4>1
      <4>2. CASE /\ pending' = [pending EXCEPT ![t] = @ + 1]
                 /\ queued' = [queued EXCEPT ![t] = TRUE]
        BY <2>3, <4>2
      <4> QED BY <3>2, <4>1, <4>2
    <3> QED BY <2>1, <3>2, <3>3, <3>4
  <2> QED BY <2>2, <2>3
<1>4. CASE Finish
  BY <1>4 DEF Finish
<1>5. CASE StraightStep
  <2> DEFINE b == Head(path)
             out == Edges(program, b, states[b])
  <2>1. /\ phase' \in {"straight", "done", "failed"} /\ current' = b
        /\ UNCHANGED << program, pending, queued, edges >>
    BY <1>5 DEF StraightStep
  <2>2. \/ path' \in {path, << >>} /\ UNCHANGED states
        \/ /\ path' = Tail(path) /\ Len(path) # 1 /\ out # << >>
           /\ states' = [states EXCEPT ![path[2]] = JoinState(@, out[1].state)]
    BY <1>5 DEF StraightStep
  <2>3. path # << >> /\ b \in Block /\ states[b] # None
    BY <1>5, PathHead DEF StraightStep, StraightShape
  <2>4. path' \in Seq(Block)
    <3>1. path \in Seq(Block) /\ Tail(path) \in Seq(Block) /\ << >> \in Seq(Block)
      BY <2>3, PathHead
    <3> QED BY <2>2, <3>1
  <2>5. states' \in [Block -> State \union {None}]
    <3>1. CASE UNCHANGED states
      BY <3>1
    <3>2. CASE /\ Len(path) # 1 /\ out # << >>
               /\ states' = [states EXCEPT ![path[2]] = JoinState(@, out[1].state)]
      <4>1. out \in Seq(Edge) /\ path[2] \in Block
        BY <2>3, <3>2, EdgesType, PathHead
      <4>2. out[1].state \in State
        BY <3>2, <4>1, HeadEdge
      <4>3. JoinState(states[path[2]], out[1].state) \in State
        BY <4>1, <4>2, JoinStateUpper
      <4> QED BY <3>2, <4>1, <4>3
    <3> QED BY <2>2, <3>1, <3>2
  <2>6. current' \in Int
    BY <2>1, <2>3 DEF Block
  <2> QED BY <2>1, <2>4, <2>5, <2>6
<1>6. CASE Stopped \/ UNCHANGED vars
  BY <1>6 DEF Stopped, vars
<1> QED BY <1>1, <1>2, <1>3, <1>4, <1>5, <1>6 DEF Next

LEMMA InitHolds == Init => IInv
<1> SUFFICES ASSUME Init PROVE IInv
  OBVIOUS
<1>1. program.start \in Block /\ program.initial \in State /\ program.initial # None
  BY ProgramAssumption, SizeAssumption DEF Init
<1>2. \A b \in Block : states[b] = IF b = program.start THEN program.initial ELSE None
  BY DEF Init
<1>3. states \in [Block -> State \union {None}] /\ current \in Int
  BY <1>1 DEF Init, Block
<1>4. TypeOK
  BY <1>3 DEF Init, TypeOK
<1>5. FlagsMatchHeap
  BY DEF Init, FlagsMatchHeap
<1>6. WalkShape /\ StraightShape
  BY <1>1, <1>2 DEF Init, WalkShape, StraightShape, Distinct
<1>7. Quiet
  BY DEF Init, Quiet
<1>8. Grounded
  BY <1>1, <1>2, SemilatticeAssumption DEF Semilattice, Grounded, Below
<1>9. Settled
  BY DEF Init, Settled
<1> QED BY <1>4, <1>5, <1>6, <1>7, <1>8, <1>9 DEF IInv

LEMMA FlagsStep == IInv /\ [Next]_vars => FlagsMatchHeap'
<1> SUFFICES ASSUME IInv, [Next]_vars PROVE FlagsMatchHeap'
  OBVIOUS
<1> USE DEF IInv, TypeOK, FlagsMatchHeap
<1>0. program.start \in Block
  BY ProgramAssumption
<1>1. CASE Walk
  <2>1. CASE UNCHANGED << pending, queued >>
    BY <2>1
  <2>2. CASE ~ UNCHANGED << pending, queued >>
    <3>1. /\ pending' = [pending EXCEPT ![program.start] = 1]
          /\ queued' = [queued EXCEPT ![program.start] = TRUE]
      BY <1>1, <2>2 DEF Walk
    <3> QED BY <1>0, <3>1
  <2> QED BY <2>1, <2>2
<1>2. ASSUME NEW b \in Block, Pop(b) PROVE FlagsMatchHeap'
  BY <1>2 DEF Pop, IsNext
<1>3. CASE Propagate
  <2> DEFINE t == Head(edges).target
  <2>1. CASE UNCHANGED << pending, queued >>
    BY <2>1
  <2>2. CASE ~ UNCHANGED << pending, queued >>
    <3>1. /\ ~ queued[t] /\ t \in Block
          /\ pending' = [pending EXCEPT ![t] = @ + 1]
          /\ queued' = [queued EXCEPT ![t] = TRUE]
      BY <1>3, <2>2 DEF Propagate
    <3> HIDE DEF t
    <3> QED BY <3>1
  <2> QED BY <2>1, <2>2
<1>4. CASE Finish \/ StraightStep \/ Stopped \/ UNCHANGED vars
  BY <1>4 DEF Finish, StraightStep, Stopped, vars
<1> QED BY <1>1, <1>2, <1>3, <1>4 DEF Next

LEMMA WalkShapeStep == IInv /\ [Next]_vars => WalkShape'
<1> SUFFICES ASSUME IInv, [Next]_vars, phase' = "walk" PROVE WalkShape'
  BY DEF WalkShape
<1> USE DEF IInv, TypeOK
<1>1. CASE UNCHANGED << vars >>
  BY <1>1 DEF vars, WalkShape, OneWay, Ends, Distinct
<1>2. CASE Walk /\ ~ UNCHANGED vars
  <2>1. /\ phase = "walk" /\ current \in Block \ Range(path) /\ OneWay(current)
        /\ Ends(current, "jump") /\ path' = Append(path, current)
        /\ UNCHANGED << program, states >>
    BY <1>2 DEF Walk, OneWay
  <2>2. /\ DOMAIN path' = 1 .. Len(path) + 1 /\ path'[Len(path) + 1] = current
        /\ \A i \in DOMAIN path : path'[i] = path[i]
        /\ DOMAIN path = 1 .. Len(path) /\ Len(path) \in Nat
        /\ path = << >> <=> Len(path) = 0
    BY <2>1
  <2>3. path' # << >> /\ path'[1] = program.start
    BY <2>1, <2>2 DEF WalkShape
  <2>4. \A i \in DOMAIN path' : OneWay(path'[i]) /\ Ends(path'[i], "jump")
    BY <2>1, <2>2 DEF WalkShape
  <2>5. \A i \in DOMAIN path : path[i] # current
    BY <2>1 DEF Range
  <2>6. Distinct(path')
    BY <2>1, <2>2, <2>5 DEF WalkShape, Distinct
  <2>7. \A b \in Block : states[b] # None <=> b = program.start
    BY <2>1 DEF WalkShape
  <2> QED BY <2>1, <2>3, <2>4, <2>6, <2>7 DEF WalkShape, OneWay, Ends
<1>3. CASE ~ Walk /\ ~ UNCHANGED vars
  BY <1>3 DEF Next, Pop, Propagate, Finish, StraightStep, Stopped
<1> QED BY <1>1, <1>2, <1>3

LEMMA StraightShapeStep == IInv /\ [Next]_vars => StraightShape'
<1> SUFFICES ASSUME IInv, [Next]_vars, phase' = "straight" PROVE StraightShape'
  BY DEF StraightShape
<1> USE DEF IInv, TypeOK
<1>1. CASE UNCHANGED vars
  BY <1>1 DEF vars, StraightShape, OneWay, Ends, Distinct
<1>2. CASE Walk /\ ~ UNCHANGED vars
  <2>1. /\ phase = "walk" /\ current \in Block \ Range(path) /\ OneWay(current)
        /\ Ends(current, "stop") /\ path' = Append(path, current)
        /\ UNCHANGED << program, states >>
    BY <1>2 DEF Walk, OneWay
  <2>2. /\ DOMAIN path' = 1 .. Len(path) + 1 /\ path'[Len(path) + 1] = current
        /\ \A i \in DOMAIN path : path'[i] = path[i]
        /\ DOMAIN path = 1 .. Len(path) /\ Len(path) \in Nat /\ Len(path') = Len(path) + 1
        /\ path = << >> <=> Len(path) = 0
    BY <2>1
  <2>3. path' # << >> /\ path'[1] = program.start
    BY <2>1, <2>2 DEF WalkShape
  <2>4. states[program.start] # None
    BY <2>1, ProgramAssumption DEF WalkShape
  <2>5. \A i \in DOMAIN path : path[i] # current
    BY <2>1 DEF Range
  <2>6. Distinct(path')
    BY <2>1, <2>2, <2>5 DEF WalkShape, Distinct
  <2>7. \A i \in DOMAIN path' : OneWay(path'[i]) /\ (i > 1 => states[path'[i]] = None)
    <3>1. ASSUME NEW i \in DOMAIN path', i > 1 PROVE path'[i] # program.start
      <4>1. 1 \in DOMAIN path' /\ 1 # i
        BY <2>2, <3>1
      <4> QED BY <2>3, <2>6, <4>1 DEF Distinct
    <3>2. ASSUME NEW i \in DOMAIN path' PROVE OneWay(path'[i])
      BY <2>1, <2>2, <3>2 DEF WalkShape
    <3>3. \A b \in Block : b # program.start => states[b] = None
      BY <2>1 DEF WalkShape
    <3> QED BY <3>1, <3>2, <3>3 DEF OneWay
  <2>8. \A i \in DOMAIN path' : Ends(path'[i], IF i < Len(path') THEN "jump" ELSE "stop")
    BY <2>1, <2>2 DEF WalkShape
  <2> QED BY <2>1, <2>3, <2>4, <2>6, <2>7, <2>8 DEF StraightShape, OneWay, Ends
<1>3. CASE StraightStep /\ ~ UNCHANGED vars
  <2> DEFINE out == Edges(program, Head(path), states[Head(path)])
  <2>1. /\ phase = "straight" /\ Len(path) # 1 /\ out # << >> /\ path' = Tail(path)
        /\ states' = [states EXCEPT ![path[2]] = JoinState(@, out[1].state)]
        /\ UNCHANGED program
    BY <1>3 DEF StraightStep
  <2>2. path # << >> /\ states[path[1]] # None
    BY <2>1 DEF StraightShape
  <2>3. path[1] \in Block /\ path[2] \in Block /\ Head(path) = path[1] /\ Len(path) \in Nat \ {0}
    BY <2>1, <2>2, PathHead
  <2>4. /\ DOMAIN path = 1 .. Len(path) /\ DOMAIN path' = 1 .. Len(path) - 1
        /\ Len(path') = Len(path) - 1
        /\ \A i \in DOMAIN path' : path'[i] = path[i + 1]
    BY <2>1, <2>2
  <2>5. out[1].state \in State
    <3>1. out \in Seq(Edge)
      BY <2>2, <2>3, EdgesType
    <3>2. out[1] = Head(out)
      BY <3>1, <2>1
    <3> QED BY <2>1, <3>1, <3>2, HeadEdge
  <2>6. states'[path[2]] # None
    <3>1. JoinState(states[path[2]], out[1].state) \in State
      BY <2>3, <2>5, JoinStateUpper
    <3> QED BY <2>1, <2>3, <3>1, SizeAssumption
  <2>0. \A i, k \in DOMAIN path : path[i] = path[k] => i = k
    BY <2>1 DEF StraightShape, Distinct
  <2>7. Distinct(path')
    <3>1. ASSUME NEW i \in DOMAIN path', NEW k \in DOMAIN path', path'[i] = path'[k]
          PROVE  i = k
      <4>1. i + 1 \in DOMAIN path /\ k + 1 \in DOMAIN path
        BY <2>3, <2>4
      <4>2. path[i + 1] = path[k + 1]
        BY <2>4, <3>1
      <4>3. i + 1 = k + 1
        BY <2>0, <4>1, <4>2
      <4> QED BY <2>3, <2>4, <4>3
    <3> QED BY <3>1 DEF Distinct
  <2>8. path' # << >> /\ path'[1] = path[2] /\ 2 \in DOMAIN path
    <3>1. 2 \in DOMAIN path /\ 1 \in DOMAIN path'
      BY <2>1, <2>3, <2>4
    <3>2. ASSUME NEW i \in DOMAIN path', i = 1 PROVE path'[i] = path[2]
      <4>1. path'[i] = path[i + 1]
        BY <2>4
      <4>2. i + 1 = 2
        BY <3>2
      <4> QED BY <4>1, <4>2
    <3> QED BY <3>1, <3>2
  <2>9. ASSUME NEW i \in DOMAIN path'
        PROVE  /\ OneWay(path'[i]) /\ (i > 1 => states'[path'[i]] = None)
               /\ Ends(path'[i], IF i < Len(path') THEN "jump" ELSE "stop")
    <3>1. i + 1 \in DOMAIN path /\ i + 1 > 1 /\ path'[i] = path[i + 1] /\ i \in Nat \ {0}
      BY <2>4, <2>3
    <3>2. /\ OneWay(path[i + 1]) /\ states[path[i + 1]] = None
          /\ Ends(path[i + 1], IF i + 1 < Len(path) THEN "jump" ELSE "stop")
      BY <2>1, <3>1 DEF StraightShape
    <3>3. i > 1 => path[i + 1] # path[2]
      BY <2>0, <2>8, <3>1
    <3>4. i > 1 => states'[path[i + 1]] = None
      BY <2>1, <3>2, <3>3 DEF OneWay
    <3> QED BY <2>3, <2>4, <3>1, <3>2, <3>4
  <2> QED BY <2>1, <2>6, <2>7, <2>8, <2>9 DEF StraightShape, OneWay, Ends
<1>4. CASE ~ Walk /\ ~ StraightStep /\ ~ UNCHANGED vars
  BY <1>4 DEF Next, Pop, Propagate, Finish, Stopped
<1> QED BY <1>1, <1>2, <1>3, <1>4

LEMMA QuietStep == IInv /\ [Next]_vars => Quiet'
<1> SUFFICES ASSUME IInv, [Next]_vars PROVE Quiet'
  OBVIOUS
<1> USE DEF IInv, TypeOK
<1>1. CASE UNCHANGED vars
  BY <1>1 DEF vars, Quiet
<1>2. CASE Walk
  BY <1>2 DEF Walk, Quiet
<1>3. ASSUME NEW b \in Block, Pop(b) PROVE Quiet'
  BY <1>3 DEF Pop, Quiet
<1>4. CASE Propagate
  BY <1>4 DEF Propagate, Quiet
<1>5. CASE Finish
  BY <1>5 DEF Finish, Quiet, FlagsMatchHeap
<1>6. CASE StraightStep
  BY <1>6 DEF StraightStep, Quiet
<1>7. CASE Stopped
  BY <1>7 DEF Stopped, vars, Quiet
<1> QED BY <1>1, <1>2, <1>3, <1>4, <1>5, <1>6, <1>7 DEF Next

-----------------------------------------------------------------------------
\* A step only climbs: every reached block stays reached, with a state above the old one.
Climbs ==
    /\ program' = program
    /\ \A b \in Block : states[b] # None => states'[b] # None /\ Below(states[b], states'[b])

LEMMA StatesClimb == IInv /\ [Next]_vars => Climbs
<1> SUFFICES ASSUME IInv, [Next]_vars PROVE Climbs
  OBVIOUS
<1> USE DEF IInv, TypeOK
<1>1. \A s \in State : s # None /\ Below(s, s)
  BY SemilatticeAssumption, SizeAssumption DEF Semilattice, Below
<1>2. CASE UNCHANGED << program, states >>
  BY <1>1, <1>2 DEF Climbs
<1>3. ASSUME NEW t \in Block, NEW s \in State, program' = program,
             states' = [states EXCEPT ![t] = JoinState(@, s)]
      PROVE  Climbs
  <2>1. /\ JoinState(states[t], s) # None
        /\ states[t] # None => Below(states[t], JoinState(states[t], s))
    BY JoinStateUpper, SizeAssumption
  <2> QED BY <1>1, <1>3, <2>1 DEF Climbs
<1>4. CASE Propagate /\ ~ UNCHANGED << program, states >>
  <2>1. /\ edges # << >> /\ program' = program /\ Head(edges).target \in Block
        /\ states' = [states EXCEPT ![Head(edges).target] = JoinState(@, Head(edges).state)]
    BY <1>4 DEF Propagate
  <2> QED BY <1>3, <2>1, HeadEdge
<1>5. CASE StraightStep /\ ~ UNCHANGED << program, states >>
  <2> DEFINE out == Edges(program, Head(path), states[Head(path)])
  <2>1. /\ phase = "straight" /\ Len(path) # 1 /\ out # << >> /\ program' = program
        /\ states' = [states EXCEPT ![path[2]] = JoinState(@, out[1].state)]
    BY <1>5 DEF StraightStep
  <2>2. path # << >> /\ states[Head(path)] # None /\ Head(path) \in Block /\ path[2] \in Block
    BY <2>1, PathHead DEF StraightShape
  <2>3. out \in Seq(Edge)
    BY <2>2, EdgesType
  <2>4. out[1].state \in State
    BY <2>1, <2>3, HeadEdge
  <2> QED BY <1>3, <2>1, <2>2, <2>4
<1> QED BY <1>2, <1>4, <1>5 DEF Next, Walk, Pop, Finish, Stopped, vars

LEMMA GroundedStep == IInv /\ [Next]_vars => Grounded'
<1> SUFFICES ASSUME IInv, [Next]_vars PROVE Grounded'
  OBVIOUS
<1> USE DEF IInv, TypeOK, Grounded
<1>1. program.start \in Block /\ program.initial \in State
  BY ProgramAssumption
<1>2. states[program.start] # None /\ states[program.start] \in State
  BY <1>1 DEF Below
<1>3. /\ program' = program /\ states'[program.start] # None
      /\ Below(states[program.start], states'[program.start])
  BY <1>1, <1>2, StatesClimb DEF Climbs
<1>4. states'[program.start] \in State
  BY <1>1, <1>3, TypeStep DEF IInv, TypeOK
<1> QED BY <1>1, <1>2, <1>3, <1>4, BelowTransitive

-----------------------------------------------------------------------------
\* Edges that were absorbed stay absorbed while the states climb.
LEMMA AbsorbsClimb ==
    ASSUME TypeOK, TypeOK', Climbs, NEW e \in Edge, Absorbs(states, e)
    PROVE  Absorbs(states', e)
<1>1. /\ e.target \in Block /\ e.state \in State
      /\ states[e.target] # None /\ states[e.target] \in State /\ Below(e.state, states[e.target])
  BY DEF Absorbs, Below, TypeOK, Edge
<1>2. /\ states'[e.target] # None /\ states'[e.target] \in State
      /\ Below(states[e.target], states'[e.target])
  BY <1>1 DEF Climbs, TypeOK
<1>3. Below(e.state, states'[e.target])
  BY <1>1, <1>2, BelowTransitive
<1> QED BY <1>1, <1>3 DEF Absorbs

\* The edges a reached block sends.
Sent(b) == Range(Edges(program, b, states[b]))

\* What is sent are edges.
LEMMA SentType ==
    ASSUME TypeOK, NEW b \in Block, states[b] # None
    PROVE  Sent(b) \subseteq Edge
<1>1. Edges(program, b, states[b]) \in Seq(Edge)
  BY EdgesType DEF TypeOK
<1> QED BY <1>1 DEF Sent, Range

\* The obligation Settled puts on one block.
Owes(b) == \A e \in Sent(b) : Absorbs(states, e) \/ (b = current /\ e \in Range(edges))

\* No pop, no propagated edge and no step of the fast path leaves an update behind.
LEMMA SettledStep == IInv /\ [Next]_vars => Settled'
<1> SUFFICES ASSUME IInv, [Next]_vars,
                    NEW b \in Block, states'[b] # None, ~ queued'[b], b \notin Range(path'),
                    phase' \notin {"walk", "failed"}
             PROVE  Owes(b)'
  BY DEF Settled, Owes, Sent
<1> USE DEF IInv
<1>0. TypeOK' /\ Climbs /\ program' = program
  BY TypeStep, StatesClimb DEF Climbs
<1>a. TypeOK /\ edges \in Seq(Edge) /\ path \in Seq(Block) /\ program.start \in Block
  BY ProgramAssumption DEF TypeOK
<1>1. CASE UNCHANGED << vars >>
  BY <1>1 DEF vars, Settled, Owes, Sent, Absorbs
<1>2. CASE Walk
  <2>1. phase = "walk" /\ states' = states
    BY <1>2 DEF Walk
  <2>2. b = program.start
    BY <2>1 DEF WalkShape
  <2>3. CASE phase' = "worklist"
    <3>1. queued' = [queued EXCEPT ![program.start] = TRUE]
      BY <1>2, <2>1, <2>3 DEF Walk
    <3> QED BY <1>a, <2>2, <3>1 DEF TypeOK
  <2>4. CASE phase' = "straight"
    <3>1. path' = Append(path, current) /\ current \in Block
      BY <1>2, <2>1, <2>4 DEF Walk
    <3>2. path'[1] = program.start /\ 1 \in DOMAIN path'
      <4>1. CASE path = << >>
        BY <1>a, <2>1, <3>1, <4>1 DEF WalkShape
      <4>2. CASE path # << >>
        <5>1. path[1] = program.start
          BY <2>1, <4>2 DEF WalkShape
        <5> QED BY <1>a, <3>1, <4>2, <5>1
      <4> QED BY <4>1, <4>2
    <3> QED BY <2>2, <3>2 DEF Range
  <2> QED BY <1>2, <2>1, <2>3, <2>4 DEF Walk
<1>3. ASSUME NEW c \in Block, Pop(c) PROVE Owes(b)'
  <2>1. /\ phase = "worklist" /\ edges = << >> /\ states' = states /\ path' = path /\ current' = c
        /\ queued' = [queued EXCEPT ![c] = FALSE] /\ edges' = Edges(program, c, states[c])
    BY <1>3 DEF Pop
  <2>2. CASE b = c
    BY <1>0, <2>1, <2>2 DEF Owes, Sent
  <2>3. CASE b # c
    <3>1. ~ queued[b]
      BY <2>1, <2>3 DEF TypeOK
    <3>2. \A e \in Sent(b) : Absorbs(states, e) \/ e \in Range(<< >>)
      BY <2>1, <3>1 DEF Settled, Sent
    <3>3. Range(<< >>) = {}
      BY DEF Range
    <3> QED BY <1>0, <2>1, <3>2, <3>3 DEF Owes, Sent, Absorbs
  <2> QED BY <2>2, <2>3
<1>4. CASE Propagate
  <2> DEFINE t == Head(edges).target
             j == JoinState(states[t], Head(edges).state)
  <2>1. /\ phase = "worklist" /\ edges # << >> /\ t \in Block /\ edges' = Tail(edges)
        /\ states' = [states EXCEPT ![t] = j] /\ path' = path /\ current' = current
        /\ IF j # states[t] /\ ~ queued[t]
           THEN queued' = [queued EXCEPT ![t] = TRUE] ELSE queued' = queued
    BY <1>4 DEF Propagate
  <2>2. ~ queued[b]
    BY <2>1 DEF TypeOK
  <2>3. states'[b] = states[b]
    BY <2>1, <2>2 DEF TypeOK
  <2>4. \A e \in Sent(b) : Absorbs(states, e) \/ (b = current /\ e \in Range(edges))
    BY <2>1, <2>2, <2>3 DEF Settled, Sent
  <2>5. Sent(b)' = Sent(b) /\ Sent(b) \subseteq Edge
    BY <1>0, <2>3, SentType DEF Sent
  <2>6. ASSUME NEW e \in Sent(b), Absorbs(states, e) PROVE Absorbs(states', e)
    BY <1>0, <2>5, <2>6, AbsorbsClimb
  <2>7. Absorbs(states', Head(edges))
    <3>1. Head(edges).state \in State /\ states[t] \in State \union {None}
      BY <1>a, <2>1, HeadEdge DEF TypeOK
    <3>2. Below(Head(edges).state, j)
      BY <3>1, JoinStateUpper
    <3>3. states'[t] = j
      BY <2>1 DEF TypeOK
    <3> QED BY <2>1, <3>2, <3>3 DEF Absorbs
  <2>8. \A e \in Range(edges) : e = Head(edges) \/ e \in Range(Tail(edges))
    BY <1>a, <2>1, HeadOrTail
  <2> QED BY <2>1, <2>4, <2>5, <2>6, <2>7, <2>8 DEF Owes
<1>5. CASE Finish
  BY <1>0, <1>5 DEF Finish, Settled, Owes, Sent, Absorbs
<1>6. CASE StraightStep
  <2> DEFINE h == Head(path)
             out == Edges(program, h, states[h])
  <2>1. /\ phase = "straight" /\ path # << >> /\ h = path[1] /\ h \in Block /\ states[h] # None
        /\ Len(path) \in Nat \ {0} /\ DOMAIN path = 1 .. Len(path)
        /\ edges = << >> /\ edges' = << >> /\ UNCHANGED queued
    BY <1>a, <1>6, PathHead DEF StraightStep, StraightShape, Quiet
  <2>2. \A x \in Block : (states[x] # None /\ x \notin Range(path)) =>
            \A e \in Sent(x) : Absorbs(states, e)
    <3>1. Range(<< >>) = {} /\ \A x \in Block : ~ queued[x]
      BY <2>1 DEF Range, Quiet
    <3> QED BY <2>1, <3>1 DEF Settled, Sent
  <2>3. \A x \in Range(path) : x # h => states[x] = None
    BY <2>1 DEF StraightShape, Range
  <2>4. OneWay(h) /\ Ends(h, IF Len(path) > 1 THEN "jump" ELSE "stop")
    BY <2>1 DEF StraightShape
  <2>5. CASE phase' = "done"
    <3>1. states' = states /\ (Len(path) = 1 \/ out = << >>)
      BY <1>6, <2>5 DEF StraightStep
    <3>2. out = << >>
      <4>1. CASE Len(path) = 1
        BY <2>1, <2>4, <4>1, SingleEdgeAssumption DEF SingleEdge, OneWay, Ends, TypeOK
      <4> QED BY <3>1, <4>1
    <3>3. Sent(h) = {}
      BY <3>2 DEF Sent, Range
    <3>4. \A e \in Sent(b) : Absorbs(states, e)
      BY <2>2, <2>3, <3>1, <3>3
    <3> QED BY <1>0, <3>1, <3>4 DEF Owes, Sent, Absorbs
  <2>6. CASE phase' = "straight"
    <3>1. /\ Len(path) > 1 /\ out # << >> /\ path' = Tail(path) /\ out[1].target = path[2]
          /\ states' = [states EXCEPT ![path[2]] = JoinState(@, out[1].state)]
      BY <1>6, <2>1, <2>6 DEF StraightStep
    <3>2. path[2] \in Block /\ path[2] \in Range(path') /\ path[2] # h
      <4>1. path[2] \in Block
        BY <1>a, <2>1, <3>1, PathHead
      <4>2. path[2] \in Range(path')
        BY <1>a, <3>1, SecondInTail
      <4>3. 1 \in DOMAIN path /\ 2 \in DOMAIN path
        BY <2>1, <3>1
      <4>4. path[2] # path[1]
        BY <2>1, <4>3 DEF StraightShape, Distinct
      <4> QED BY <2>1, <4>1, <4>2, <4>4
    <3>3. b # path[2] /\ states'[b] = states[b]
      BY <3>1, <3>2 DEF TypeOK
    <3>4. out \in Seq(Edge) /\ out[1] \in Range(out)
      <4>1. out \in Seq(Edge)
        BY <1>a, <2>1, EdgesType DEF TypeOK
      <4>2. 1 \in DOMAIN out
        BY <3>1, <4>1
      <4> QED BY <4>1, <4>2 DEF Range
    <3>5. Range(out) = {out[1]}
      <4>1. out = << out[1] >>
        BY <1>a, <2>1, <2>4, <3>1, <3>4, SingleEdgeAssumption DEF SingleEdge, OneWay, Ends, TypeOK
      <4>2. DOMAIN out = {1}
        BY <4>1
      <4> QED BY <4>2 DEF Range
    <3>6. Absorbs(states', out[1])
      <4>1. out[1].state \in State
        BY <3>1, <3>4, HeadEdge
      <4>2. Below(out[1].state, states'[path[2]])
        BY <3>1, <3>2, <4>1, JoinStateUpper DEF TypeOK
      <4> QED BY <3>1, <3>2, <4>2 DEF Absorbs
    <3>7. Sent(b)' = Sent(b) /\ Sent(b) \subseteq Edge
      BY <1>0, <1>a, <3>3, SentType DEF Sent
    <3>8. CASE b = h
      BY <3>5, <3>6, <3>7, <3>8 DEF Owes, Sent
    <3>9. CASE b # h
      <4>1. b \notin Range(path)
        BY <1>0, <2>3, <3>3, <3>9
      <4>2. \A e \in Sent(b) : Absorbs(states, e)
        BY <2>2, <3>3, <4>1
      <4> QED BY <1>0, <1>a, <3>7, <4>2, AbsorbsClimb DEF Owes
    <3> QED BY <3>8, <3>9
  <2> QED BY <1>6, <2>1, <2>5, <2>6 DEF StraightStep
<1>7. CASE Stopped
  BY <1>7 DEF Stopped, vars, Settled, Owes, Sent, Absorbs
<1> QED BY <1>1, <1>2, <1>3, <1>4, <1>5, <1>6, <1>7 DEF Next

\* Once the run is done nothing is owed.
LEMMA DoneIsSolution == IInv => StableResult
<1> SUFFICES ASSUME IInv, phase = "done" PROVE IsSolution(program, states)
  BY DEF StableResult
<1>1. Range(<< >>) = {}
  BY DEF Range
<1>2. edges = << >> /\ path = << >> /\ \A b \in Block : ~ queued[b]
  BY DEF IInv, Quiet
<1>3. \A b \in Block : states[b] # None =>
          \A e \in Range(Edges(program, b, states[b])) : Absorbs(states, e)
  BY <1>1, <1>2 DEF IInv, Settled
<1> QED BY <1>3 DEF IInv, Grounded, IsSolution

LEMMA InductiveStep == IInv /\ [Next]_vars => IInv'
  BY TypeStep, FlagsStep, WalkShapeStep, StraightShapeStep, QuietStep, GroundedStep, SettledStep
  DEF IInv

THEOREM Inductive == Spec => []IInv
  BY InitHolds, InductiveStep, PTL DEF Spec

-----------------------------------------------------------------------------
\* Types: the model's variables never leave their sets, for bodies of any size.
THEOREM TypeCorrect == Spec => []TypeOK
<1>1. IInv => TypeOK
  BY DEF IInv
<1> QED BY <1>1, Inductive, PTL

\* The queued flags of transfer.rs say exactly what the heap holds.
THEOREM FlagsCorrect == Spec => []FlagsMatchHeap
<1>1. IInv => FlagsMatchHeap
  BY DEF IInv
<1> QED BY <1>1, Inductive, PTL

\* No update is lost, whatever the body, the order of the ids and the host.
THEOREM SettledCorrect == Spec => []Settled
<1>1. IInv => Settled
  BY DEF IInv
<1> QED BY <1>1, Inductive, PTL

\* When run_from returns on either path, every reached block has a stable joined state.
THEOREM StableCorrect == Spec => []StableResult
<1> QED BY DoneIsSolution, Inductive, PTL
=============================================================================
