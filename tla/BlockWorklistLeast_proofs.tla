--------------------- MODULE BlockWorklistLeast_proofs ---------------------
(***************************************************************************)
(* The order in which transfer.rs visits blocks does not show: for every   *)
(* body and every monotone host the scheduler implements chaotic           *)
(* iteration, and what it returns is the least solution.                   *)
(***************************************************************************)
EXTENDS BlockWorklist_proofs

\* The edges being propagated were sent by current, from a state it has or had.
Origin ==
    edges # << >> =>
        /\ current \in Block /\ states[current] # None
        /\ \E s \in State : /\ Below(s, states[current])
                            /\ Range(edges) \subseteq Range(Edges(program, current, s))

\* Whatever solves the body is above the states reached so far.
BelowSolutions ==
    \A m \in [Block -> State \union {None}] :
        IsSolution(program, m) => \A b \in Block : states[b] # None => Below(states[b], m[b])

LInv == IInv /\ Origin /\ BelowSolutions

\* Join is the least upper bound.
LEMMA JoinLeast ==
    ASSUME NEW s \in State, NEW t \in State, NEW u \in State, Below(s, u), Below(t, u)
    PROVE  Below(Join(s, t), u)
<1>1. Join(s, u) = u /\ Join(t, u) = u /\ u # None
  BY DEF Below
<1>2. Join(Join(s, t), u) = Join(s, Join(t, u))
  BY SemilatticeAssumption DEF Semilattice
<1> QED BY <1>1, <1>2 DEF Below

\* What join_state returns is below everything that is above both of its inputs.
LEMMA JoinStateLeast ==
    ASSUME NEW cur \in State \union {None}, NEW s \in State, NEW u \in State,
           Below(s, u), cur # None => Below(cur, u)
    PROVE  Below(JoinState(cur, s), u)
<1>1. CASE cur = None \/ cur = s
  BY <1>1 DEF JoinState
<1>2. CASE cur # None /\ cur # s
  <2>1. cur \in State
    BY <1>2
  <2> QED BY <1>2, <2>1, JoinLeast DEF JoinState
<1> QED BY <1>1, <1>2

(***************************************************************************)
(* The one kind of step that changes states, seen from outside: some block *)
(* sends an edge from a state it has or had, and its target absorbs it.    *)
(***************************************************************************)
AbsorbsOne(b, s, e) ==
    /\ b \in Block /\ s \in State /\ states[b] # None /\ Below(s, states[b])
    /\ e \in Range(Edges(program, b, s)) /\ e.target \in Block
    /\ states' = [states EXCEPT ![e.target] = JoinState(@, e.state)]
    /\ program' = program /\ phase \notin {"done", "failed"} /\ phase' = phase

LEMMA ChangeAbsorbs ==
    ASSUME IInv, Origin, [Next]_vars, states' # states
    PROVE  \E b \in Block, s \in State : \E e \in Range(Edges(program, b, s)) : AbsorbsOne(b, s, e)
<1> USE DEF IInv, TypeOK
<1>1. CASE Propagate
  <2>1. /\ phase = "worklist" /\ phase' = phase /\ edges # << >> /\ Head(edges).target \in Block
        /\ program' = program
        /\ states' = [states EXCEPT ![Head(edges).target] = JoinState(@, Head(edges).state)]
    BY <1>1 DEF Propagate
  <2>2. PICK s \in State : /\ Below(s, states[current])
                           /\ Range(edges) \subseteq Range(Edges(program, current, s))
    BY <2>1 DEF Origin
  <2>3. current \in Block /\ states[current] # None
    BY <2>1 DEF Origin
  <2>4. Head(edges) \in Range(edges)
    BY <2>1, HeadInRange
  <2>5. AbsorbsOne(current, s, Head(edges))
    BY <2>1, <2>2, <2>3, <2>4 DEF AbsorbsOne
  <2> QED BY <2>2, <2>3, <2>4, <2>5
<1>2. CASE StraightStep
  <2> DEFINE h == Head(path)
             out == Edges(program, h, states[h])
  <2>1. /\ phase = "straight" /\ phase' = phase /\ out # << >> /\ Len(path) # 1
        /\ out[1].target = path[2] /\ program' = program
        /\ states' = [states EXCEPT ![path[2]] = JoinState(@, out[1].state)]
    BY <1>2 DEF StraightStep
  <2>2. path # << >> /\ h \in Block /\ states[h] # None /\ path[2] \in Block
    BY <2>1, PathHead DEF StraightShape
  <2>3. out \in Seq(Edge) /\ states[h] \in State
    BY <2>2, EdgesType
  <2>4. Head(out) \in Range(out) /\ Head(out) = out[1]
    BY <2>1, <2>3, HeadInRange
  <2>5. Below(states[h], states[h])
    BY <2>2, <2>3, SemilatticeAssumption DEF Semilattice, Below
  <2>6. AbsorbsOne(h, states[h], out[1])
    BY <2>1, <2>2, <2>3, <2>4, <2>5 DEF AbsorbsOne
  <2> QED BY <2>2, <2>3, <2>4, <2>6
<1>3. CASE ~ Propagate /\ ~ StraightStep
  BY <1>3 DEF Next, Walk, Pop, Finish, Stopped, vars
<1> QED BY <1>1, <1>2, <1>3

-----------------------------------------------------------------------------
LEMMA OriginStep == IInv /\ Origin /\ [Next]_vars => Origin'
<1> SUFFICES ASSUME IInv, Origin, [Next]_vars, edges' # << >> PROVE Origin'
  BY DEF Origin
<1> USE DEF IInv, TypeOK
<1>0. Climbs /\ program' = program /\ TypeOK'
  BY StatesClimb, TypeStep DEF Climbs
<1>1. ASSUME NEW b \in Block, Pop(b) PROVE Origin'
  <2>1. /\ states' = states /\ current' = b /\ states[b] # None
        /\ edges' = Edges(program, b, states[b])
    BY <1>1 DEF Pop
  <2>2. states[b] \in State /\ Below(states[b], states[b])
    BY <2>1, SemilatticeAssumption DEF Semilattice, Below
  <2> QED BY <1>0, <2>1, <2>2 DEF Origin
<1>2. CASE Propagate
  <2>1. edges # << >> /\ edges' = Tail(edges) /\ current' = current
    BY <1>2 DEF Propagate
  <2>2. PICK s \in State : /\ Below(s, states[current])
                           /\ Range(edges) \subseteq Range(Edges(program, current, s))
    BY <2>1 DEF Origin
  <2>3. current \in Block /\ states[current] # None /\ states[current] \in State
    BY <2>1 DEF Origin
  <2>4. states'[current] # None /\ states'[current] \in State /\ Below(states[current], states'[current])
    BY <1>0, <2>3 DEF Climbs
  <2>5. Below(s, states'[current])
    BY <2>2, <2>3, <2>4, BelowTransitive
  <2>6. Range(Tail(edges)) \subseteq Range(edges)
    BY <2>1, TailInRange
  <2> QED BY <1>0, <2>1, <2>2, <2>3, <2>4, <2>5, <2>6 DEF Origin
<1>3. CASE UNCHANGED << program, states, current, edges >>
  BY <1>3 DEF Origin
<1>4. CASE Walk \/ StraightStep
  BY <1>4 DEF Walk, StraightStep, Quiet
<1> QED BY <1>1, <1>2, <1>3, <1>4 DEF Next, Finish, Stopped, vars

LEMMA BelowSolutionsStep == LInv /\ [Next]_vars => BelowSolutions'
<1> SUFFICES ASSUME LInv, [Next]_vars,
                    NEW m \in [Block -> State \union {None}], IsSolution(program, m)',
                    NEW c \in Block, states'[c] # None
             PROVE  Below(states'[c], m[c])
  BY DEF BelowSolutions
<1> USE DEF LInv, IInv, TypeOK
<1>0. program' = program /\ IsSolution(program, m)
  BY StatesClimb DEF Climbs, IsSolution, Absorbs
<1>1. \A b \in Block : states[b] # None => Below(states[b], m[b])
  BY <1>0 DEF BelowSolutions
<1>2. CASE states' = states
  BY <1>1, <1>2
<1>3. CASE states' # states
  <2>1. PICK b \in Block, s \in State : \E e \in Range(Edges(program, b, s)) : AbsorbsOne(b, s, e)
    BY <1>3, ChangeAbsorbs
  <2>2. PICK e \in Range(Edges(program, b, s)) : AbsorbsOne(b, s, e)
    BY <2>1
  <2>3. /\ states[b] # None /\ Below(s, states[b]) /\ e.target \in Block
        /\ states' = [states EXCEPT ![e.target] = JoinState(@, e.state)]
    BY <2>2 DEF AbsorbsOne
  <2>4. states[b] \in State /\ Below(states[b], m[b]) /\ m[b] \in State
    BY <1>1, <2>3 DEF Below
  <2>5. Below(s, m[b])
    BY <2>3, <2>4, BelowTransitive
  <2>6. PICK f \in Range(Edges(program, b, m[b])) : f.target = e.target /\ Below(e.state, f.state)
    BY <2>4, <2>5, MonotoneAssumption DEF Monotone
  <2>7. m[e.target] # None /\ Below(f.state, m[e.target])
    BY <1>0, <2>4, <2>6 DEF IsSolution, Absorbs, Below
  <2>8. e.state \in State /\ f.state \in State /\ m[e.target] \in State
    BY <2>3, <2>4, <2>7, RangeEdge
  <2>9. Below(e.state, m[e.target])
    BY <2>6, <2>7, <2>8, BelowTransitive
  <2>10. Below(JoinState(states[e.target], e.state), m[e.target])
    BY <1>1, <2>3, <2>8, <2>9, JoinStateLeast
  <2> QED BY <1>1, <2>3, <2>10
<1> QED BY <1>2, <1>3

LEMMA LInvHolds == Spec => []LInv
<1>1. Init => Origin /\ BelowSolutions
  <2> SUFFICES ASSUME Init PROVE Origin /\ BelowSolutions
    OBVIOUS
  <2>1. program.start \in Block
    BY ProgramAssumption DEF Init
  <2>2. \A b \in Block : states[b] = IF b = program.start THEN program.initial ELSE None
    BY DEF Init
  <2>3. BelowSolutions
    BY <2>1, <2>2 DEF BelowSolutions, IsSolution
  <2> QED BY <2>3 DEF Init, Origin
<1>2. LInv /\ [Next]_vars => LInv'
  BY InductiveStep, OriginStep, BelowSolutionsStep DEF LInv
<1>3. Init => LInv
  BY <1>1, InitHolds DEF LInv
<1> QED BY <1>2, <1>3, PTL DEF Spec

-----------------------------------------------------------------------------
\* The states run_from returns are the least solution of the body, whatever the block ids.
THEOREM LeastCorrect == Spec => []LeastResult
<1>1. LInv => LeastResult
  BY DoneIsSolution DEF LInv, BelowSolutions, LeastResult, IsLeastSolution, StableResult
<1> QED BY <1>1, LInvHolds, PTL

\* The scheduler implements chaotic iteration of the edges of its body.
THEOREM Refinement == Spec => RefinesChaotic
<1>1. Init => Chaotic!Init
  BY DEF Init, Chaotic!Init, Chaotic!Block, Block
<1>a. IInv' => StableResult'
  BY DoneIsSolution, PTL
<1>2. LInv /\ LInv' /\ [Next]_vars => [Chaotic!Next]_Chaotic!cvars
  <2> SUFFICES ASSUME LInv, LInv', [Next]_vars, ~ UNCHANGED << program, states, phase = "done" >>
               PROVE  Chaotic!Next
    BY DEF Chaotic!cvars
  <2>1. CASE states' # states
    <3>1. PICK b \in Block, s \in State : \E e \in Range(Edges(program, b, s)) : AbsorbsOne(b, s, e)
      BY <2>1, ChangeAbsorbs DEF LInv
    <3>2. PICK e \in Range(Edges(program, b, s)) : AbsorbsOne(b, s, e)
      BY <3>1
    <3>3. /\ phase # "done" /\ phase' # "done" /\ program' = program
          /\ states[b] # None /\ Below(s, states[b]) /\ e.target \in Block
          /\ states' = [states EXCEPT ![e.target] = JoinState(@, e.state)]
      BY <3>2 DEF AbsorbsOne
    <3>4. /\ (phase = "done") = FALSE /\ (phase = "done")' = (phase = "done")
      BY <3>3
    <3>5. states' = [states EXCEPT ![e.target] = Chaotic!JoinState(@, e.state)]
      BY <3>3 DEF JoinState, Chaotic!JoinState
    <3>6. Chaotic!Absorb(b, s)
      BY <3>2, <3>3, <3>4, <3>5
      DEF Chaotic!Absorb, Chaotic!Below, Below, Chaotic!Block, Block, Chaotic!Range, Range
    <3> QED BY <3>1, <3>6 DEF Chaotic!Next, Chaotic!Block, Block
  <2>2. CASE states' = states
    <3>1. program' = program
      BY StatesClimb DEF LInv, Climbs
    <3>2. phase' = "done" /\ phase # "done"
      BY <2>2, <3>1 DEF Next, Walk, Pop, Propagate, Finish, StraightStep, Stopped, vars
    <3>3. IsSolution(program, states)
      <4>1. IsSolution(program, states)'
        BY <1>a, <3>2 DEF LInv, StableResult
      <4> QED BY <2>2, <3>1, <4>1 DEF IsSolution, Absorbs
    <3>4. (phase = "done")' = TRUE
      BY <3>2
    <3>5. Chaotic!IsSolution(program, states)
      BY <3>3 DEF Chaotic!IsSolution, IsSolution, Chaotic!Absorbs, Absorbs,
                  Chaotic!Below, Below, Chaotic!Block, Block, Chaotic!Range, Range
    <3>6. Chaotic!Finish
      BY <2>2, <3>1, <3>4, <3>5 DEF Chaotic!Finish
    <3> QED BY <3>6 DEF Chaotic!Next
  <2> QED BY <2>1, <2>2
<1> QED BY <1>1, <1>2, LInvHolds, PTL DEF Spec, RefinesChaotic, Chaotic!Spec
=============================================================================
