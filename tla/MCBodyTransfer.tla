--------------------------- MODULE MCBodyTransfer ---------------------------
(***************************************************************************)
(* The bodies the transfer is checked on.  Left out of the passing run are *)
(* the shapes on which the transfer does not do what Ruby does; the README *)
(* names them and two have a run of their own below:                       *)
(*  - under an ensure, a return on some paths and normal completion on     *)
(*    others (ReturnBeside);                                               *)
(*  - a break, next or retry to a loop or begin outside of an ensure;      *)
(*  - an ensure body that begins with a loop or a begin (NestedInEnsure);  *)
(*  - a return in an ensure body only an exception reaches;                *)
(*  - a rescue no exception reaches beside an else that does not complete; *)
(*  - a logical expression used for its value whose left operand is not a  *)
(*    read and whose right operand reads x; a condition that assigns the   *)
(*    x it has tested; a for over an x its body writes;                    *)
(*  - a case in an ensure body.                                            *)
(***************************************************************************)
EXTENDS BodyTransfer

A == Lit("a")
B == Lit("b")
C == Lit("c")
SetCall == Set(Call("b"))

\* Protected bodies: no exception can arise, or one may or must arise, before or after a write.
Quiet == { A, Set(A), If(A, Set(B)) }
Risky == { Call("a"), Raise, SetCall, Seqn(<< Set(A), Call("b") >>),
           If(A, Raise), Seqn(<< If(Raise, Set(B)), Get >>) }

Handler == { B, Get, Raise, Set(B), Call("c") }
Rescues == { << Clause("all", h) >> : h \in Handler }
   \union { << Clause("Err", h) >> : h \in Handler }
   \union { << Clause("Err", h), Clause("Std", Retry) >> : h \in Handler }
Cleanup == { Set(C), Call("c"), If(Set(C), A), Raise }
Ensures == { << >> } \union { << s >> : s \in Cleanup }

Begins == { Begin(s, r, e, n) : s \in Risky, r \in Rescues, e \in { << >>, << Set(C) >>, << Raise >> }, n \in Ensures }
    \union { Begin(s, r, e, n) : s \in Quiet, r \in Rescues, e \in { << >>, << Set(C) >> }, n \in Ensures }
    \union { Begin(s, << >>, << >>, n) : s \in Quiet \union Risky, n \in Ensures }

\* Smaller sets for what is nested.
Inner == { Begin(s, r, << >>, n) :
              s \in { Seqn(<< Set(A), Call("b") >>), Raise, Set(A) },
              r \in { << >>, << Clause("all", Get) >>, << Clause("Err", Raise) >> },
              n \in { << >>, << Set(C) >>, << Call("c") >> } }
Outer == { Begin(s, r, << >>, n) : s \in Inner, r \in { << >>, << Clause("Std", Get) >> },
                                   n \in { << >>, << Set(B) >>, << Call("b") >> } }
    \union { Begin(Call("a"), << Clause("all", s) >>, << >>, n) : s \in Inner, n \in { << >>, << Set(B) >> } }

\* Every path leaves: from the protected body, or from the handler; one ensure or two.
Returning == { Return(A), Seqn(<< Set(A), Return(Call("b")) >>), If(Return(A), Return(Set(B))), If(Raise, Return(Get)) }
Leaving1(leave) ==
    { Begin(s, << >>, << >>, n) : s \in leave, n \in { << s >> : s \in Cleanup } }
    \union { Begin(Raise, << Clause("all", s) >>, << >>, << Set(C) >>) : s \in leave }
Leaving2(leave) ==
    Leaving1(leave) \union { Begin(s, << >>, << >>, << n >>) : s \in Leaving1(leave), n \in { Set(B), Call("b") } }

FromBlock == { Break(A), NextValue(Call("b")), Return(Set(A)), If(Break(A), NextValue(B)), If(Break(Set(B)), Return(A)) }

\* In a loop: a begin in its body, a begin around it, ways out of it without an ensure.
Loops == { While(s) : s \in Inner }
    \union { Seqn(<< Set(A), While(Seqn(<< s, If(t, B) >>)) >>) :
                s \in { Get, Call("c"), Set(B) }, t \in { Break(A), NextValue(Set(C)), Set(C), Raise, Return(Get) } }
    \union { Begin(While(s), r, << >>, << >>) :
                s \in { SetCall, Seqn(<< Set(A), Call("b") >>), If(Break(A), Raise) },
                r \in { << Clause("all", Get) >>, << Clause("Err", Retry) >> } }
    \union { While(Begin(s, << Clause("all", t) >>, << >>, << >>)) :
                s \in { SetCall, Seqn(<< Set(A), Call("b"), Break(Get) >>) }, t \in { Break(Get), NextValue(A), Return(B), Retry } }

\* x may be nil; conditions that read it, that assign it, that do both.
Start == Set(Find("a"))
Conditions == { Get, Find("b"), Set(Find("b")), Lit("nil"), A, And(Get, Call("b")), Or(Get, Set(Find("b"))),
                And(Set(Find("b")), Get), Seqn(<< Set(Find("b")), Get >>), SafeCall(Get, "b") }
Conditionals ==
    { IfOn(c, s, t) : c \in Conditions, s \in { Get, Set(B), Raise }, t \in { Get, Set(C) } }
    \union { IfOn(c, s, While(Set(B))) : c \in { A, Lit("nil") }, s \in { IfOn(Get, B, Raise), Begin(SetCall, << Clause("all", Get) >>, << >>, << >>) } }
    \union { WhileOn(c, s) : c \in { Get, Set(Find("b")), And(Get, Call("b")) }, s \in { Get, Set(Find("c")), If(Break(Get), NextValue(B)) } }
Logicals ==
    { Or(s, t) : s \in { Get, Set(Find("b")) }, t \in { Get, Call("c"), Set(Find("c")), Raise, Return(A) } }
    \union { And(s, t) : s \in { Get, Set(Find("b")) }, t \in { Get, Call("c"), Set(Find("c")), Raise, Return(A) } }
    \union { Or(And(Get, Call("b")), Call("c")), And(Or(Get, Call("b")), Find("c")) }

\* Operands before a call, and calls on what may be nil.
Calls ==
    { CallWith(<< Set(A), s, Set(C) >>, {"b"}) : s \in { Call("b"), Raise, Or(Get, SetCall), SafeCall(Get, "b") } }
    \union { SafeCall(s, "b") : s \in { Get, Set(Find("c")), Call("c"), Lit("nil"), SafeCall(Get, "c") } }

\* case: one class or two for an arm, an arm nothing is left for, a value assigned on the way.
OneOf == CallWith(<< >>, {"a", "b", "c", "nil"})
Arms == { << When(<< "a" >>, s) >> : s \in { Get, Set(B), Raise } }
    \union { << When(<< "a", "b" >>, s), When(<< "nil" >>, t) >> : s \in { Get, Call("c") }, t \in { Set(B), Return(A) } }
    \union { << When(<< "c" >>, Get), When(<< "c", "a" >>, Set(Lit("nil"))), When(<< "b" >>, Raise) >> }
Cases == { CaseOf(v, arms, t) : v \in { Get, Set(OneOf), OneOf, Seqn(<< SetCall, Get >>) }, arms \in Arms,
                                t \in { Lit("nil"), Get, Raise } }

\* for: the loop binds x anew in every round.
Fors == { For(Call("list"), "b", s) :
             s \in { Get, Set(C), SetCall, If(Break(Get), Set(C)), If(NextValue(A), Raise), IfOn(Get, Return(A), B),
                     Begin(SetCall, << Clause("all", Break(Get)) >>, << >>, << >>) } }

Branching == Conditionals \union Logicals \union Calls \union Cases \union Fors
Started == { Seqn(<< Start, s >>) : s \in Branching }
Rescued == { Begin(Seqn(<< Start, s >>), << Clause("all", Get) >>, << >>, << >>) : s \in Branching }
Completing == { s \in Branching : \A o \in Run(s, "a") \union Run(s, "nil") : o.kind # "return" }
Finally == { Begin(Seqn(<< Start, s >>), << >>, << >>, << n >>) : s \in Completing, n \in { Call("c"), IfOn(Get, Set(C), A) } }

Followed(statements) == { Seqn(<< s, t >>) : s \in statements, t \in { Get, C } }
As(closures, statements) == statements \X closures
Analyzed(bodies) == { BodyProgram(s[1], s[2]) : s \in bodies }

MCPrograms ==
    Analyzed(
        As({"method"}, Followed(Begins \union Outer \union Loops))
        \union As({"method"}, Followed(Started \union Rescued \union Finally))
        \union As({"method", "lambda", "block"}, Followed(Leaving2(Returning)))
        \union As({"lambda", "block"}, Followed(FromBlock \union Leaving2(FromBlock))))

\* A return on one path, and the other completes: both go through the ensure body.
ReturnBeside ==
    Analyzed(As({"method"}, Followed({ Begin(If(Return(A), s), << >>, << >>, << Set(C) >>) : s \in { B, Call("b") } })))
=============================================================================
