----------------------------- MODULE MCFixpoint -----------------------------
(***************************************************************************)
(* Small sources of one top-level chunk, one namespace body and three      *)
(* method definitions, the first at the top level, over one constant or    *)
(* class variable and one ivar.                                            *)
(***************************************************************************)
EXTENDS Fixpoint

MCUnit == {"top", "body", "m", "n", "o", "p"}
MCMethod == {"M", "N", "O"}
MCBody == {"C"}
MCKey == {"@x", "K"}

AnyT == {"any"}
NeverT == {}
NilT == {"nil"}
IntT == {"int"}
ObjT == {"obj"}
MCType ==
    { NeverT, NilT, IntT, ObjT, {"nil", "int"}, {"nil", "obj"}, {"int", "obj"},
      {"nil", "int", "obj"}, AnyT }
MCJoin(s, t) == IF "any" \in s \union t THEN AnyT ELSE s \union t

MCNonNil(t) == t \ NilT

Op(op, method, key, type, alt) ==
    [op |-> op, method |-> method, key |-> key, type |-> type, alt |-> alt]
Lit(t) == Op("const", "M", "K", t, None)
Arg == Op("param", "M", "K", NilT, None)
CallTo(m) == Op("call", m, "K", NilT, None)
CallOr(m, t) == Op("call", m, "K", NilT, t)
SendTo(m, t) == Op("send", m, "K", t, None)
Fail(alt) == Op("raise", "M", "K", ObjT, alt)
ReturnUnless(t) == Op("guard", "M", "K", t, None)
Get(k) == Op("read", "M", k, NilT, None)
Put(k) == Op("write", "M", k, NilT, None)
SetOn(k, t) == Op("set", "M", k, t, None)

Kinds == [ u \in MCUnit |-> IF u \in {"top", "body"} THEN u ELSE "method" ]

(***************************************************************************)
(* Sources in this order, with these operations in each unit; o is the     *)
(* method key of the third definition: "O", or "M" for a second definition *)
(* of M, and a fourth definition, if it is there, is O's: def O; new; end. *)
(***************************************************************************)
Source(order, o, rooted, storage, tops, bodies, ms, ns, os) ==
    [ order : {order},
      kind  : {Kinds},
      key   : {[top |-> None, body |-> "C", m |-> "M", n |-> "N", o |-> o, p |-> "O"]},
      rooted : {[u \in MCUnit |-> u \in rooted]},
      initializer : {[u \in MCUnit |-> u = "body"]},
      storage : {storage},
      explicit : {[x \in MCMethod |-> x \in e] : e \in { {}, {"O"} }},
      code  : [top : tops, body : bodies, m : ms, n : ns, o : os, p : {<< Lit(ObjT) >>}] ]

SourceOrder == << "m", "body", "n", "o", "top" >>
WithConstant == [k \in MCKey |-> IF k = "K" THEN "constant" ELSE "ivar"]

\* Calls in every shape: recursion, mutual recursion, chains, a method that only raises.
CallPrograms ==
    Source(SourceOrder, "O", {"m"}, WithConstant,
        { << CallTo("M") >>, << Lit(IntT), CallTo("M"), Put("K") >>,
          << Lit(NilT), CallTo("N"), Lit(IntT), CallTo("N") >> },
        { << >>, << Lit(NilT), Put("K"), Put("@x") >>, << Get("K"), Put("@x") >> },
        { << Lit(ObjT) >>, << Arg >>, << CallTo("N") >>, << Fail(None) >>, << Fail(IntT) >> },
        { << Lit(ObjT) >>, << Arg >>, << CallTo("O") >>, << CallTo("M"), SendTo("O", IntT) >>,
          << CallOr("N", IntT) >>, << Get("K") >>, << Arg, Put("K"), Lit(NilT) >>,
          << CallTo("M"), Lit(NilT) >> },
        { << Get("K") >>, << Arg >>, << CallOr("M", NilT) >>, << CallTo("N"), Put("@x") >>,
          << Get("@x") >>, << CallTo("M"), SetOn("@x", IntT) >> })

\* An ivar and a class variable between methods, and two definitions of M.
SharedPrograms(o, ms) ==
    Source(SourceOrder, o, {"m"} \union {u \in {"o"} : o = "M"}, [WithConstant EXCEPT !.K = "classvar"],
        { << Lit(NilT), CallTo("M") >> },
        { << Lit(NilT), Put("@x"), Put("K") >>, << CallTo("M"), Put("@x"), Put("K") >> },
        ms,
        { << Get("@x") >>, << Get("K"), Put("@x") >>, << Get("@x"), CallTo("M") >>,
          << CallTo("M"), Put("@x") >>, << CallTo("M"), SetOn("@x", IntT) >>,
          << Arg, Put("K"), Get("@x") >> },
        { << Get("@x"), CallTo("N") >>, << Get("K"), CallTo("M") >>,
          << CallTo("N"), SendTo("M", IntT) >>, << CallTo("N"), Put("K") >>,
          << Lit(IntT), Put("@x") >>, << Lit(IntT), CallTo("N") >> })

\* An ivar written from a parameter, at first provisionally, while nobody writes Any.
ParameterPrograms(order) ==
    Source(order, "O", {"m"}, WithConstant,
        { << Lit(NilT), CallTo("N") >>, << Lit(ObjT), CallTo("M") >> },
        { << Lit(NilT), Put("@x") >>, << Lit(ObjT), Put("@x"), Put("K") >> },
        { << Arg, Put("@x") >>, << Get("@x"), ReturnUnless(ObjT), Arg, Put("@x") >> },
        { << Get("@x") >>, << Arg, CallTo("M") >>, << Lit(IntT), CallTo("M") >> },
        { << Get("@x"), ReturnUnless(IntT), CallTo("N") >>, << Lit(IntT), Put("@x") >>,
          << CallTo("N"), SendTo("M", IntT) >> })

MCProgram == CallPrograms
    \union SharedPrograms("O", { << Lit(ObjT) >>, << Arg >>, << Get("@x"), Put("K") >> })
    \union SharedPrograms("M", { << Lit(ObjT) >>, << Arg >> })
    \union ParameterPrograms(SourceOrder)
    \union ParameterPrograms(<< "top", "o", "body", "n", "m" >>)

(***************************************************************************)
(* def n; m(nil); end                                                      *)
(* def m(v); return new unless v; n; end                                   *)
(* def go; m(1); end                                                       *)
(***************************************************************************)
MutualProgram ==
    Source(<< "n", "m", "o", "top" >>, "O", {}, WithConstant,
        { << >> }, { << >> },
        { << Arg, ReturnUnless(ObjT), CallTo("N") >> },
        { << Lit(NilT), CallTo("M") >> },
        { << Lit(IntT), CallTo("M") >> })
=============================================================================
