-------------------------- MODULE ChaoticIteration --------------------------
(***************************************************************************)
(* What the block scheduler promises, with no order in it: states only     *)
(* climb, each time by absorbing one edge that some block sends from a     *)
(* state it has or had, and the run finishes only when nothing is left to  *)
(* absorb.  A host error may end it at any time, without a result.         *)
(***************************************************************************)
EXTENDS Dataflow

VARIABLES program, sol, finished

cvars == << program, sol, finished >>

Init ==
    /\ program \in Program
    /\ sol = [b \in Block |-> IF b = program.start THEN program.initial ELSE None]
    /\ finished = FALSE

Absorb(b, s) ==
    /\ ~ finished
    /\ sol[b] # None /\ Below(s, sol[b])
    /\ \E e \in Range(Edges(program, b, s)) :
          /\ e.target \in Block
          /\ sol' = [sol EXCEPT ![e.target] = JoinState(@, e.state)]
    /\ UNCHANGED << program, finished >>

Finish ==
    /\ IsSolution(program, sol)
    /\ finished' = TRUE
    /\ UNCHANGED << program, sol >>

Next == (\E b \in Block, s \in State : Absorb(b, s)) \/ Finish

Spec == Init /\ [][Next]_cvars

-----------------------------------------------------------------------------
\* A finished run holds a least solution: no order of absorbing edges can give another.
LeastResult == finished => IsLeastSolution(program, sol)
=============================================================================
