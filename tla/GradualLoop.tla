---------------------------- MODULE GradualLoop ----------------------------
(***************************************************************************)
(* The block scheduler on the body of                                      *)
(*                                                                         *)
(*     def m(untyped, anything)     # untyped, and T.anything              *)
(*       x = nil                                                           *)
(*       while c                                                           *)
(*         if d then x = anything; next else x = untyped; next end         *)
(*       end                                                               *)
(*     end                                                                 *)
(*                                                                         *)
(* with the blocks lower_loop and lower_if make for it, the state of a     *)
(* block being the type of x, joined by the join of src/types.rs.          *)
(***************************************************************************)
EXTENDS BlockWorklist

Types == INSTANCE TypeLattice
            WITH Universe <- {}, MaxObservations <- 0, summary <- 0, seen <- {}

LoopState == { Types!TNil, Types!TAny, Types!TAnything }
LoopJoin(s, t) == Types!JoinType(s, t)

(***************************************************************************)
(* lower_loop: header, condition, body, normal exit and exit; lower_if in  *)
(* the body: then, else and a join that no arm reaches.  next jumps to the *)
(* header.                                                                 *)
(***************************************************************************)
Entry == 0
Header == 1
Condition == 2
Body == 3
NormalExit == 4
Exit == 5
Then == 6
Else == 7

Successors == [ b \in 0 .. 8 |->
    CASE b = Entry      -> << Header >>
      [] b = Header     -> << Condition >>
      [] b = Condition  -> << Body, NormalExit >>
      [] b = Body       -> << Then, Else >>
      [] b = NormalExit -> << Exit >>
      [] b \in {Then, Else} -> << Header >>
      [] OTHER          -> << >> ]

LoopTerminator(b) ==
    CASE Len(Successors[b]) = 1 -> [kind |-> "jump", target |-> Successors[b][1]]
      [] Len(Successors[b]) = 2 -> [kind |-> "fork", target |-> Successors[b][1]]
      [] OTHER                  -> [kind |-> "stop", target |-> 0]

LoopProgram ==
    { [ start   |-> Entry,
        initial |-> Types!TNil,
        body    |-> [b \in Block |-> [term |-> LoopTerminator(b), unwind |-> FALSE]] ] }

LoopEdges(p, b, s) ==
    LET out == CASE b = Then -> Types!TAnything [] b = Else -> Types!TAny [] OTHER -> s
    IN  [i \in DOMAIN Successors[b] |-> [target |-> Successors[b][i], state |-> out]]

LoopFails(p, b, s) == FALSE
=============================================================================
