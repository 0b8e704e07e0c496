---------------------------- MODULE BlockWorklist ----------------------------
(***************************************************************************)
(* The generic block scheduler of src/cfg/transfer.rs: it interprets one   *)
(* CFG body until every reachable block has a stable joined state.  What a *)
(* block does to a state (operations, narrowing, exception edges) is the   *)
(* host's BlockTransfer: the constants of Dataflow, so the scheduler is    *)
(* checked and proved for every host that is a function of the state.      *)
(***************************************************************************)
EXTENDS Dataflow

VARIABLES
    program,    \* the body being interpreted
    phase,      \* "walk" | "worklist" | "straight" | "done" | "failed"
    states,     \* WorklistResult.states
    pending,    \* the BinaryHeap, as the number of copies of each block in it
    queued,     \* the flags that keep a block from being pushed twice
    current,    \* the block the walk has come to, or whose edges are being propagated
    edges,      \* the edges of current still to be propagated
    path        \* the straight-line path: what was walked, then what is left of it

vars == << program, phase, states, pending, queued, current, edges, path >>

Init ==
    /\ program \in Program
    /\ states = [b \in Block |-> IF b = program.start THEN program.initial ELSE None]
    /\ phase = "walk" /\ current = program.start /\ path = << >>
    /\ pending = [b \in Block |-> 0]
    /\ queued = [b \in Block |-> FALSE]
    /\ edges = << >>

Ends(b, kind) == program.body[b].term.kind = kind

\* Walk with one slip: a block on the path may have an unwind edge.
WalkThroughUnwind ==
    /\ phase = "walk"
    /\ LET walkable == current \in Block \ Range(path)
       IN  \/ /\ walkable /\ Ends(current, "jump")
              /\ path' = Append(path, current)
              /\ current' = program.body[current].term.target
              /\ UNCHANGED << phase, pending, queued >>
           \/ /\ walkable /\ Ends(current, "stop")
              /\ path' = Append(path, current) /\ phase' = "straight"
              /\ UNCHANGED << current, pending, queued >>
           \/ /\ walkable => Ends(current, "fork")
              /\ path' = << >> /\ phase' = "worklist"
              /\ pending' = [pending EXCEPT ![program.start] = 1]
              /\ queued' = [queued EXCEPT ![program.start] = TRUE]
              /\ UNCHANGED current
    /\ UNCHANGED << program, states, edges >>

(***************************************************************************)
(* straight_line_path, one block of its loop: the single path of Jumps     *)
(* from the start block, when it meets no unwind edge, no fork, no block   *)
(* twice and no invalid block.  Without a path the start block is queued.  *)
(***************************************************************************)
Walk ==
    /\ phase = "walk"
    /\ LET walkable == current \in Block \ Range(path) /\ ~ program.body[current].unwind
       IN  \/ /\ walkable /\ Ends(current, "jump")
              /\ path' = Append(path, current)
              /\ current' = program.body[current].term.target
              /\ UNCHANGED << phase, pending, queued >>
           \/ /\ walkable /\ Ends(current, "stop")
              /\ path' = Append(path, current) /\ phase' = "straight"
              /\ UNCHANGED << current, pending, queued >>
           \/ /\ walkable => Ends(current, "fork")
              /\ path' = << >> /\ phase' = "worklist"
              /\ pending' = [pending EXCEPT ![program.start] = 1]
              /\ queued' = [queued EXCEPT ![program.start] = TRUE]
              /\ UNCHANGED current
    /\ UNCHANGED << program, states, edges >>

\* IsNext with one slip: the heap may be empty.
IsNextUnchecked(b) == \A c \in Block : pending[c] > 0 => b <= c

\* pending.pop(): BinaryHeap<Reverse<BlockId>> yields the smallest id.
IsNext(b) == pending[b] > 0 /\ \A c \in Block : pending[c] > 0 => b <= c

Pop(b) ==
    /\ phase = "worklist" /\ edges = << >> /\ IsNext(b)
    /\ pending' = [pending EXCEPT ![b] = @ - 1]
    /\ queued' = [queued EXCEPT ![b] = FALSE]
    /\ current' = b
    /\ IF states[b] = None \/ Fails(program, b, states[b])
       THEN phase' = "failed" /\ edges' = << >>
       ELSE phase' = phase /\ edges' = Edges(program, b, states[b])
    /\ UNCHANGED << program, states, path >>

\* Propagate with one slip: only a first state queues the block.
PropagateFirstOnly ==
    /\ phase = "worklist" /\ edges # << >>
    /\ LET t == Head(edges).target
           j == JoinState(states[t], Head(edges).state)
       IN  IF t \notin Block
           THEN phase' = "failed" /\ UNCHANGED << states, pending, queued >>
           ELSE /\ phase' = phase
                /\ states' = [states EXCEPT ![t] = j]
                /\ IF states[t] = None /\ ~ queued[t]
                   THEN /\ pending' = [pending EXCEPT ![t] = @ + 1]
                        /\ queued' = [queued EXCEPT ![t] = TRUE]
                   ELSE UNCHANGED << pending, queued >>
    /\ edges' = Tail(edges)
    /\ UNCHANGED << program, current, path >>

\* Propagate with one slip: the queued flag is not looked at.
PropagatePushTwice ==
    /\ phase = "worklist" /\ edges # << >>
    /\ LET t == Head(edges).target
           j == JoinState(states[t], Head(edges).state)
       IN  IF t \notin Block
           THEN phase' = "failed" /\ UNCHANGED << states, pending, queued >>
           ELSE /\ phase' = phase
                /\ states' = [states EXCEPT ![t] = j]
                /\ IF j # states[t]
                   THEN /\ pending' = [pending EXCEPT ![t] = @ + 1]
                        /\ queued' = [queued EXCEPT ![t] = TRUE]
                   ELSE UNCHANGED << pending, queued >>
    /\ edges' = Tail(edges)
    /\ UNCHANGED << program, current, path >>

\* Propagate with one slip: the incoming state replaces the joined one.
PropagateOverwrite ==
    /\ phase = "worklist" /\ edges # << >>
    /\ LET t == Head(edges).target
           j == JoinState(states[t], Head(edges).state)
       IN  IF t \notin Block
           THEN phase' = "failed" /\ UNCHANGED << states, pending, queued >>
           ELSE /\ phase' = phase
                /\ states' = [states EXCEPT ![t] = Head(edges).state]
                /\ IF Head(edges).state # states[t] /\ ~ queued[t]
                   THEN /\ pending' = [pending EXCEPT ![t] = @ + 1]
                        /\ queued' = [queued EXCEPT ![t] = TRUE]
                   ELSE UNCHANGED << pending, queued >>
    /\ edges' = Tail(edges)
    /\ UNCHANGED << program, current, path >>

\* Propagate with one slip: a block is queued although its state did not change.
PropagateAlways ==
    /\ phase = "worklist" /\ edges # << >>
    /\ LET t == Head(edges).target
           j == JoinState(states[t], Head(edges).state)
       IN  IF t \notin Block
           THEN phase' = "failed" /\ UNCHANGED << states, pending, queued >>
           ELSE /\ phase' = phase
                /\ states' = [states EXCEPT ![t] = j]
                /\ IF ~ queued[t]
                   THEN /\ pending' = [pending EXCEPT ![t] = @ + 1]
                        /\ queued' = [queued EXCEPT ![t] = TRUE]
                   ELSE UNCHANGED << pending, queued >>
    /\ edges' = Tail(edges)
    /\ UNCHANGED << program, current, path >>

Propagate ==
    /\ phase = "worklist" /\ edges # << >>
    /\ LET t == Head(edges).target
           j == JoinState(states[t], Head(edges).state)
       IN  IF t \notin Block
           THEN phase' = "failed" /\ UNCHANGED << states, pending, queued >>
           ELSE /\ phase' = phase
                /\ states' = [states EXCEPT ![t] = j]
                /\ IF j # states[t] /\ ~ queued[t]
                   THEN /\ pending' = [pending EXCEPT ![t] = @ + 1]
                        /\ queued' = [queued EXCEPT ![t] = TRUE]
                   ELSE UNCHANGED << pending, queued >>
    /\ edges' = Tail(edges)
    /\ UNCHANGED << program, current, path >>

Finish ==
    /\ phase = "worklist" /\ edges = << >>
    /\ \A b \in Block : pending[b] = 0
    /\ phase' = "done"
    /\ UNCHANGED << program, states, pending, queued, current, edges, path >>

(***************************************************************************)
(* run_straight_line: one block of the path.  Only the first edge is       *)
(* looked at; a block without an edge ends the run.                        *)
(***************************************************************************)
StraightStep ==
    /\ phase = "straight"
    /\ LET b == Head(path)
           out == Edges(program, b, states[b])
       IN  /\ current' = b
           /\ IF Fails(program, b, states[b])
              THEN phase' = "failed" /\ UNCHANGED << states, path >>
              ELSE IF Len(path) = 1 \/ out = << >>
              THEN phase' = "done" /\ path' = << >> /\ UNCHANGED states
              ELSE IF out[1].target # path[2]
              THEN phase' = "failed" /\ UNCHANGED << states, path >>
              ELSE /\ states' = [states EXCEPT ![path[2]] = JoinState(@, out[1].state)]
                   /\ path' = Tail(path)
                   /\ phase' = phase
    /\ UNCHANGED << program, pending, queued, edges >>

Stopped == phase \in {"done", "failed"} /\ UNCHANGED vars

Next ==
    \/ Walk
    \/ \E b \in Block : Pop(b)
    \/ Propagate
    \/ Finish
    \/ StraightStep
    \/ Stopped

Spec == Init /\ [][Next]_vars

\* The loop is one thread of straight-line Rust: it keeps running.
FairSpec == Spec /\ WF_vars(Next)

-----------------------------------------------------------------------------
TypeOK ==
    /\ program \in Program
    /\ phase \in {"walk", "worklist", "straight", "done", "failed"}
    /\ states \in [Block -> State \union {None}]
    /\ pending \in [Block -> Nat]
    /\ queued \in [Block -> BOOLEAN]
    /\ current \in Int
    /\ edges \in Seq(Edge)
    /\ path \in Seq(Block)

(***************************************************************************)
(* transfer.rs keeps a heap and, beside it, flags that say what is in the  *)
(* heap.  A block is in the heap once when its flag is up and not at all   *)
(* when it is down: never queued twice, never flagged but lost.            *)
(***************************************************************************)
FlagsMatchHeap == \A b \in Block : pending[b] = IF queued[b] THEN 1 ELSE 0

(***************************************************************************)
(* No lost update: everything a reached block sends from the state it has  *)
(* now is in its successors' states, unless the block waits in the heap or *)
(* the edge is still to be propagated (or is ahead on the straight path).  *)
(***************************************************************************)
Settled ==
    \A b \in Block :
        (states[b] # None /\ ~ queued[b] /\ b \notin Range(path) /\ phase \notin {"walk", "failed"}) =>
            \A e \in Range(Edges(program, b, states[b])) :
                Absorbs(states, e) \/ (b = current /\ e \in Range(edges))

(***************************************************************************)
(* "Interpret a CFG until every reachable block has a stable joined        *)
(* state": when run_from returns, on either path, interpreting any reached *)
(* block again would change nothing.                                       *)
(***************************************************************************)
StableResult == phase = "done" => IsSolution(program, states)

\* The returned states are the least ones: the BlockId order of the heap decides nothing.
LeastResult == phase = "done" => IsLeastSolution(program, states)

(***************************************************************************)
(* The scheduler implements chaotic iteration: each of its steps absorbs   *)
(* one edge that some block sends, or is invisible.                        *)
(***************************************************************************)
Chaotic == INSTANCE ChaoticIteration WITH sol <- states, finished <- (phase = "done")
RefinesChaotic == Chaotic!Spec

\* The worklist empties: every body is interpreted in finitely many visits.
Terminates == <>(phase \in {"done", "failed"})
=============================================================================
