------------------------------ MODULE Dataflow ------------------------------
(***************************************************************************)
(* What the scheduler of src/cfg/transfer.rs and its abstract              *)
(* specification share: bodies, states, and the host that interprets one   *)
(* block (the BlockTransfer trait), as constants.                          *)
(***************************************************************************)
EXTENDS Integers, Sequences, Functions

CONSTANTS
    N,                  \* cfg.blocks.len(): BlockIds are 0 .. N-1
    State,              \* abstract states of the host
    None,               \* an unreached block
    Join(_, _),         \* the join inside join_state (BlockState::join)
    Program,            \* bodies: .start, .initial and .body[b], with .term and .unwind
    Edges(_, _, _),     \* transfer_block's edges for (program, block, state)
    Fails(_, _, _)      \* whether transfer_block reports an error instead

Block == 0 .. N - 1

(***************************************************************************)
(* What the fast path of transfer.rs looks at: whether a terminator is a   *)
(* Jump, a terminator without successor (Return, NonLocalReturn, Raise,    *)
(* Unreachable) or one with several (Branch, EnsureComplete).              *)
(***************************************************************************)
Terminator == [kind : {"jump", "stop", "fork"}, target : Int]
Edge == [target : Int, state : State]

ASSUME SizeAssumption == N \in Nat \ {0} /\ None \notin State

ASSUME ProgramAssumption ==
    \A p \in Program :
        /\ p.start \in Block /\ p.initial \in State
        /\ DOMAIN p.body = Block
        /\ \A b \in Block : p.body[b].term \in Terminator /\ p.body[b].unwind \in BOOLEAN

ASSUME HostAssumption ==
    /\ \A s, t \in State : Join(s, t) \in State
    /\ \A p \in Program, b \in Block, s \in State :
          Edges(p, b, s) \in Seq(Edge) /\ Fails(p, b, s) \in BOOLEAN

\* JoinState with one slip: the newest state wins.
JoinStateNewest(cur, incoming) == incoming

\* A first state is taken as it comes, an equal one changes nothing, others are joined.
JoinState(cur, incoming) ==
    IF cur = None \/ cur = incoming THEN incoming ELSE Join(cur, incoming)

-----------------------------------------------------------------------------
(***************************************************************************)
(* Solutions of a body: one state per block, or None, that already absorbs *)
(* everything its own states send along the edges.                         *)
(***************************************************************************)
Below(s, t) == t # None /\ Join(s, t) = t

Absorbs(m, e) == e.target \in Block /\ Below(e.state, m[e.target])

IsSolution(p, m) ==
    /\ Below(p.initial, m[p.start])
    /\ \A b \in Block : m[b] # None => \A e \in Range(Edges(p, b, m[b])) : Absorbs(m, e)

IsLeastSolution(p, m) ==
    /\ IsSolution(p, m)
    /\ \A other \in [Block -> State \union {None}] :
          IsSolution(p, other) => \A b \in Block : m[b] # None => Below(m[b], other[b])

(***************************************************************************)
(* The laws a host owes the scheduler.                                     *)
(***************************************************************************)
Semilattice ==
    /\ \A s \in State : Join(s, s) = s
    /\ \A s, t \in State : Join(s, t) = Join(t, s)
    /\ \A s, t, u \in State : Join(Join(s, t), u) = Join(s, Join(t, u))

\* A larger state sends at least as much along every edge.
Monotone ==
    \A p \in Program, b \in Block, s, t \in State :
        Below(s, t) =>
            \A e \in Range(Edges(p, b, s)) : \E f \in Range(Edges(p, b, t)) :
                f.target = e.target /\ Below(e.state, f.state)

(***************************************************************************)
(* A block whose terminator is a Jump, or has no successor, and which no   *)
(* unwind edge protects has no other outgoing edge.                        *)
(***************************************************************************)
SingleEdge ==
    \A p \in Program, b \in Block, s \in State :
        ~ p.body[b].unwind =>
            /\ p.body[b].term.kind = "stop" => Edges(p, b, s) = << >>
            /\ p.body[b].term.kind = "jump" =>
                  \A e \in Range(Edges(p, b, s)) :
                      Edges(p, b, s) = << e >> /\ e.target = p.body[b].term.target
=============================================================================
