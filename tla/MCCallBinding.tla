--------------------------- MODULE MCCallBinding ---------------------------
(* Methods of every parameter shape, each with one or two calls. *)
EXTENDS CallBinding

I == {"Integer"}
S == {"String"}
NoKeys == << >>

Value(type) == [kind |-> "value", type |-> type, alias |-> NoAlias]
Read(type, variable) == [kind |-> "value", type |-> type, alias |-> variable]
Tuple(types) == [kind |-> "tuple", types |-> types]
Array(type) == [kind |-> "array", type |-> type]

Shape(required, optional, rest, post, keys, keyrest) ==
    [required |-> required, optional |-> optional, rest |-> rest, post |-> post,
     keys |-> keys, keyrest |-> keyrest]

Call(args, named, splat) ==
    [args |-> args, named |-> named, splat |-> splat, forwards |-> FALSE, block |-> FALSE, own |-> FALSE]
Forwarding(args) == [Call(args, NoKeys, {}) EXCEPT !.forwards = TRUE]
WithBlock(call) == [call EXCEPT !.block = TRUE]
FromItself(args) == [Call(args, NoKeys, {}) EXCEPT !.own = TRUE]

Inferred(shape, calls) ==
    [shape |-> shape, contracts |-> << >>, calls |-> calls, initializer |-> FALSE, inferUntyped |-> FALSE]
Declared(contracts, calls) ==
    [shape |-> contracts[1].shape, contracts |-> contracts, calls |-> calls,
     initializer |-> FALSE, inferUntyped |-> FALSE]

Contract(style, shape, types, keys) ==
    [style |-> style, shape |-> shape, types |-> types, keys |-> keys, block |-> FALSE]

-----------------------------------------------------------------------------
Shapes ==
    {Shape(1, 0, FALSE, 0, NoKeys, FALSE), Shape(1, 1, FALSE, 0, NoKeys, FALSE),
     Shape(1, 0, TRUE, 0, NoKeys, FALSE), Shape(0, 0, TRUE, 1, NoKeys, FALSE),
     Shape(1, 0, TRUE, 1, NoKeys, FALSE), Shape(1, 1, TRUE, 1, NoKeys, FALSE),
     Shape(1, 0, FALSE, 0, [k |-> TRUE], FALSE), Shape(0, 1, FALSE, 0, [k |-> FALSE], TRUE),
     Shape(0, 0, TRUE, 0, [k |-> FALSE], FALSE)}

Lists ==
    {<< >>, << Read(I, "@a") >>, << Value(S) >>, << Read(I, "@a"), Value(S) >>,
     << Value(S), Read(I, "@a") >>, << Read(I, "@a"), Read(I, "@b"), Value(S) >>,
     << Tuple(<< I, S >>) >>, << Value(S), Tuple(<< I, S >>) >>,
     << Value(I), Value(S), Value(I), Value(S) >>}

Calls ==
    {Call(args, NoKeys, {}) : args \in Lists}
        \union {Call(args, named, {}) :
                    args \in {<< Read(I, "@a") >>, << Value(S) >>, << Value(S), Tuple(<< I, S >>) >>},
                    named \in {[k |-> I], [k |-> S], [l |-> I]}}
        \union {Forwarding(<< >>), Forwarding(<< Value(S) >>)}
        \union {Call(<< UnknownArgument >>, NoKeys, {})}
        \union {FromItself(<< Value(Untyped) >>), FromItself(<< Value(I) >>)}

Optionals(shape, n) == n < shape.required + shape.optional + shape.post

\* What a summary is known not to see, see README: it is left out here.
Seen(shape, call) ==
    /\ call.forwards => shape.post = 0 /\ TakesKeywords(shape)
    /\ \A n \in {Len(p) : p \in Positionals(call.args)} :
          Optionals(shape, n) => shape.post = 0 \/ shape.optional = 0

Direct(shape, call) ==
    /\ Splats(call, "unknown") = {} /\ ~call.own /\ ~call.forwards
    /\ DOMAIN call.named = {} \/ ~TakesKeywords(shape)
    /\ shape.rest => \A n \in {Len(p) : p \in Positionals(call.args)} : ~Optionals(shape, n)

Reads(call) == \E i \in DOMAIN call.args : call.args[i].kind = "value" /\ call.args[i].alias # NoAlias

InferredSources ==
    {Inferred(shape, << a, b >>) : shape \in Shapes, a \in Calls, b \in Calls}

-----------------------------------------------------------------------------
One == Shape(1, 0, FALSE, 0, NoKeys, FALSE)
OneOrTwo == Shape(1, 1, FALSE, 0, NoKeys, FALSE)
OneAndRest == Shape(1, 0, TRUE, 0, NoKeys, FALSE)
RestAndOne == Shape(0, 0, TRUE, 1, NoKeys, FALSE)
OneAndKey == Shape(1, 0, FALSE, 0, [k |-> TRUE], FALSE)
OneAndKeys == Shape(1, 0, FALSE, 0, [k |-> FALSE], TRUE)

Rbs ==
    {Contract("rbs", One, << I >>, NoKeys), [Contract("rbs", One, << S >>, NoKeys) EXCEPT !.block = TRUE],
     Contract("rbs", One, << Untyped >>, NoKeys),
     Contract("rbs", OneOrTwo, << S, I >>, NoKeys), Contract("rbs", OneAndRest, << I, S >>, NoKeys),
     Contract("rbs", RestAndOne, << I, S >>, NoKeys), Contract("rbs", OneAndKey, << I >>, [k |-> S]),
     Contract("rbs", OneAndKeys, << S >>, [k |-> Untyped])}
Sorbet ==
    {Contract("sig", OneOrTwo, << I, S >>, NoKeys),
     Contract("sig", OneAndRest, << I >>, NoKeys), Contract("sig", OneAndRest, << I, S >>, NoKeys),
     Contract("sig", OneAndKeys, << I >>, [k |-> S])}

Untypeds ==
    {Contract("rbs", OneOrTwo, << Untyped, I >>, NoKeys), Contract("rbs", RestAndOne, << Untyped, Untyped >>, NoKeys),
     Contract("rbs", OneAndKeys, << Untyped >>, [k |-> Untyped])}

ContractLists ==
    {<< c >> : c \in Rbs \union Sorbet} \union {<< c, d >> : c \in Rbs, d \in Rbs}

DeclaredCalls ==
    {Call(args, NoKeys, {}) :
        args \in Lists \union {<< Value(I \union S) >>, << Value(I), Array(S) >>, << Value(I), Array(I) >>,
                               << UnknownArgument >>, << Value(S), Array(S), UnknownArgument >>}}
    \union {Call(args, [k |-> t], splat) :
        args \in {<< Value(I) >>, << Value(S) >>}, t \in {I, S}, splat \in {{}, I, Untyped}}
    \union {WithBlock(Call(<< Value(S) >>, NoKeys, {})), Forwarding(<< >>), Forwarding(<< Value(S) >>)}

DeclaredSources ==
    {Declared(contracts, << call >>) : contracts \in ContractLists, call \in DeclaredCalls}
    \union {[Declared(<< c >>, << a, b >>) EXCEPT !.inferUntyped = TRUE] :
                c \in Untypeds, a \in Calls, b \in Calls}

\* new passes its arguments to initialize.
Initializers ==
    {[Declared(<< c >>, << call >>) EXCEPT !.initializer = TRUE] : c \in Rbs \union Sorbet, call \in DeclaredCalls}

\* A hash nothing is known of counts as an argument where there are no keywords.
HashFits(contracts, call) ==
    IsUntyped(call.splat) => \A i \in DOMAIN contracts : TakesKeywords(contracts[i].shape)

\* The arguments of new are checked as if all were known, and an unknown keyword is not.
NewFits(shape, call) ==
    /\ Known(call) /\ Splats(call, "array") = {}
    /\ DOMAIN call.named \subseteq DOMAIN shape.keys \/ shape.keyrest \/ ~TakesKeywords(shape)

Regular(s) ==
    LET calls == ToSet(s.calls)
    IN  /\ \A call \in calls : HashFits(s.contracts, call)
        /\ s.initializer => \A call \in calls : NewFits(s.shape, call)
        /\ s.contracts = << >> \/ s.inferUntyped =>
              /\ \A call \in calls : Seen(s.shape, call)
              /\ (\E call \in calls : Reads(call)) => \A call \in calls : Direct(s.shape, call)

MCSources == {s \in InferredSources \union DeclaredSources \union Initializers : Regular(s)}

=============================================================================
