--------------------------- MODULE MCBlockWorklist ---------------------------
(***************************************************************************)
(* Every body of three blocks out of the shapes below, over the states     *)
(* SUBSET {"a", "b"}: diamonds, loops, self loops, handlers reached by an  *)
(* unwind edge, branches whose second edge depends on the state, a host    *)
(* error and a jump to a block that does not exist.                        *)
(***************************************************************************)
EXTENDS DataflowLaws

MCState == {{}, {"a"}, {"b"}, {"a", "b"}}
MCJoin(s, t) == s \union t

Jump(t) == [kind |-> "jump", target |-> t]
Stop == [kind |-> "stop", target |-> 0]
Fork(t) == [kind |-> "fork", target |-> t]

Keep == [gen |-> {}, kill |-> {}]
GenA == [gen |-> {"a"}, kill |-> {}]
AtoB == [gen |-> {"b"}, kill |-> {"a"}]

\* .other is the second edge of a Fork; an unwind edge goes to block 2.
Shape(t, other, u, e) == [term |-> t, other |-> other, unwind |-> u, effect |-> e]

Shapes ==
    { Shape(t, 2, FALSE, e) : t \in {Jump(1), Jump(2), Fork(1), Fork(0), Stop},
                              e \in {Keep, GenA, AtoB} }
        \union { Shape(t, 1, TRUE, AtoB) : t \in {Jump(1), Fork(2), Stop} }
        \union { Shape(Jump(9), 9, FALSE, Keep) }

MCProgram ==
    [ start : {0}, initial : {{}}, body : [0 .. 2 -> Shapes], failing : BOOLEAN ]

To(t, s) == [target |-> t, state |-> s]

MCEdges(p, b, s) ==
    LET sh == p.body[b]
        out == (s \ sh.effect.kill) \union sh.effect.gen
        raised == IF sh.unwind THEN << To(2, s) >> ELSE << >>
        first == IF sh.term.kind = "stop" THEN << >> ELSE << To(sh.term.target, out) >>
        second == IF sh.term.kind = "fork" /\ "a" \in out THEN << To(sh.other, out) >> ELSE << >>
    IN  raised \o first \o second

MCFails(p, b, s) == p.failing /\ b = 2 /\ "b" \in s
=============================================================================
