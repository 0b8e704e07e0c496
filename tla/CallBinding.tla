---------------------------- MODULE CallBinding ----------------------------
(***************************************************************************)
(* How the analyzer binds the arguments of calls to the parameters of a    *)
(* method: what a call shows the summary of a method, which overload it is *)
(* given and what is reported (infer/cfg_transfer/arguments.rs,            *)
(* infer/method_types.rs, infer/method_state.rs, infer/signature_calls.rs).*)
(*                                                                         *)
(* One method is called from several places; every round of the fixpoint   *)
(* transfers the calls again, in any order, until its summary is quiet.    *)
(* A type is a set of classes, {} that of a parameter nothing was seen of. *)
(***************************************************************************)
EXTENDS RubyCall, FiniteSets, FiniteSetsExt, SequencesExt

CONSTANT Sources   \* the methods, each with its calls

\* A comment in RBS types every parameter, a sig those it names.
ContractSet ==
    {c \in [style : {"rbs", "sig"}, shape : ShapeSet, types : Seq(ValueTypes), keys : Keyed(ValueTypes),
             block : BOOLEAN] :
        /\ Len(c.types) <= Size(c.shape) /\ DOMAIN c.keys \subseteq DOMAIN c.shape.keys
        /\ c.style = "rbs" => Len(c.types) = Size(c.shape) /\ DOMAIN c.keys = DOMAIN c.shape.keys}

ASSUME SourcesAssumption ==
    Sources \subseteq [shape : ShapeSet, contracts : Seq(ContractSet), calls : Seq(CallSet),
                       initializer : BOOLEAN, inferUntyped : BOOLEAN]

VARIABLES
    source,     \* the method: shape, contracts, and its calls
    state,      \* its MethodState
    left,       \* the calls this round has still to transfer
    changed,    \* did the round change the state?
    verdicts,   \* what the last transfer of each call said
    settled

vars == << source, state, left, changed, verdicts, settled >>

Join(a, b) == IF Unknown \in a \union b THEN Untyped ELSE a \union b
JoinAll(types) == IF \E t \in types : Unknown \in t THEN Untyped ELSE UNION types
IsUntyped(type) == Unknown \in type
\* Wrong: one member of a union is enough.
SomeMemberAssignable(actual, expected) ==
    IsUntyped(actual) \/ IsUntyped(expected) \/ actual \intersect expected # {}
IsAssignable(actual, expected) == IsUntyped(actual) \/ IsUntyped(expected) \/ actual \subseteq expected

-----------------------------------------------------------------------------
(* The arguments of a call, as its transfer materializes them. *)

Argument(type, alias) == [type |-> type, alias |-> alias]
NoAlias == "none"

\* A splat of a known tuple becomes its elements; other splats are set aside.
Elements(arg) ==
    CASE arg.kind = "value" -> << Argument(arg.type, arg.alias) >>
      [] arg.kind = "tuple" -> [i \in DOMAIN arg.types |-> Argument(arg.types[i], NoAlias)]
      [] OTHER -> << >>

Splats(call, kind) == {arg \in ToSet(call.args) : arg.kind = kind}

ForwardsAll(call) == call.forwards /\ call.args = << >>

Explicit(call) == FlattenSeq([i \in DOMAIN call.args |-> Elements(call.args[i])])

\* Keywords also travel as one hash, for a callee that has none.
Arguments(call) ==
    LET explicit == Explicit(call)
        positional == IF call.forwards THEN Append(explicit, Argument(Untyped, NoAlias)) ELSE explicit
    IN [positional |-> positional,
        all |-> IF DOMAIN call.named = {} /\ call.splat = {} THEN positional
                ELSE Append(positional, Argument({HashClass}, NoAlias)),
        keywords |-> call.named,
        hasHash |-> DOMAIN call.named # {} \/ call.splat # {},
        dynamic |-> {arg.type : arg \in Splats(call, "array")},
        unknown |-> Splats(call, "unknown") # {},
        dynamicKeys |-> call.splat # {} /\ ~IsUntyped(call.splat),
        unknownKeys |-> IsUntyped(call.splat),
        keywordSplat |-> call.splat # {} \/ call.forwards,
        forwards |-> call.forwards,
        forwardsAll |-> ForwardsAll(call),
        explicit |-> Len(explicit),
        block |-> call.block]

KeywordMode(signature) == DOMAIN signature.keys # {} \/ signature.keyrest
Binding(signature, arguments) ==
    IF KeywordMode(signature) THEN arguments.positional ELSE arguments.all

Permissive(arguments) ==
    \/ arguments.forwards \/ arguments.unknown \/ arguments.unknownKeys
    \/ arguments.dynamic # {} \/ arguments.dynamicKeys

-----------------------------------------------------------------------------
(* Signatures. *)

Key(type, required) == [type |-> type, required |-> required]

\* A comment in RBS says the kind of every parameter.
RbsSignature(contract) ==
    LET shape == contract.shape
    IN [params |-> contract.types, required |-> Least(shape),
        rest |-> IF shape.rest THEN shape.required + shape.optional + 1 ELSE 0,
        keys |-> [k \in DOMAIN shape.keys |-> Key(contract.keys[k], shape.keys[k])],
        keyrest |-> shape.keyrest, block |-> contract.block]

\* A sig has names only: their kinds are those of the definition.
ApplyParameterShape(contract) ==
    LET shape == contract.shape
    IN [params |-> contract.types, required |-> Min({shape.required, Len(contract.types)}),
        rest |-> IF shape.rest THEN shape.required + shape.optional + 1 ELSE 0,
        keys |-> [k \in DOMAIN contract.keys |-> Key(contract.keys[k], shape.keys[k])],
        keyrest |-> shape.keyrest, block |-> contract.block]

Signature(contract) ==
    IF contract.style = "rbs" THEN RbsSignature(contract) ELSE ApplyParameterShape(contract)

\* One signature for all of a method's overloads.
MergeMethodSignatures(signatures) ==
    LET all == ToSet(signatures)
        Having(k) == {s \in all : k \in DOMAIN s.keys}
        resting == {i \in DOMAIN signatures : signatures[i].rest # 0}
    IN [params |-> [i \in 1 .. Max({Len(s.params) : s \in all}) |->
                        JoinAll({IF i \in DOMAIN s.params THEN s.params[i] ELSE Untyped : s \in all})],
        required |-> Min({s.required : s \in all}),
        rest |-> IF resting = {} THEN 0 ELSE signatures[Min(resting)].rest,
        keys |-> [k \in UNION {DOMAIN s.keys : s \in all} |->
                    Key(JoinAll({s.keys[k].type : s \in Having(k)}),
                        \A s \in Having(k) : s.keys[k].required)],
        keyrest |-> \E s \in all : s.keyrest,
        block |-> \E s \in all : s.block]

\* Wrong: a rest takes what is left over by the parameters after it too.
SlotInOrder(signature, n, i) ==
    IF signature.rest = 0 \/ i <= Len(signature.params) THEN i ELSE signature.rest

\* Which parameter the i-th of n positional arguments is for.
SlotOf(signature, n, i) ==
    LET posts == Max({0, Len(signature.params) - signature.rest})
        hasAllPosts == n >= signature.rest - 1 + posts
    IN IF signature.rest = 0 \/ i < signature.rest THEN i
       ELSE IF hasAllPosts /\ i > n - posts THEN signature.rest + i - (n - posts)
       ELSE signature.rest

\* The type declared for that argument: Untyped where there is none to check.
PositionalType(signature, n, i) ==
    LET slot == SlotOf(signature, n, i)
    IN IF slot \in DOMAIN signature.params THEN signature.params[slot] ELSE Untyped
HasPositionalType(signature, n, i) == SlotOf(signature, n, i) \in DOMAIN signature.params

-----------------------------------------------------------------------------
(* The state of the method: explicit with its overloads, or inferred. *)

InferredState(shape) ==
    [params |-> [i \in 1 .. Size(shape) |-> {}], required |-> Least(shape),
     rest |-> IF shape.rest THEN shape.required + shape.optional + 1 ELSE 0,
     keys |-> [k \in DOMAIN shape.keys |-> Key({}, shape.keys[k])], keyrest |-> shape.keyrest,
     block |-> FALSE, aliases |-> [i \in 1 .. Size(shape) |-> "unseen"],
     explicit |-> FALSE, overloads |-> << >>,
     inferable |-> 1 .. Size(shape), inferableKeys |-> DOMAIN shape.keys]

\* With infer_explicit_untyped what a contract leaves untyped may be learned.
ExplicitOverloads(signatures, inferUntyped) ==
    LET merged == MergeMethodSignatures(signatures)
    IN [params |-> merged.params, required |-> merged.required, rest |-> merged.rest,
        keys |-> merged.keys, keyrest |-> merged.keyrest, block |-> merged.block,
        aliases |-> [i \in DOMAIN merged.params |-> "unseen"], explicit |-> TRUE, overloads |-> signatures,
        inferable |-> {i \in DOMAIN merged.params : inferUntyped /\ IsUntyped(merged.params[i])},
        inferableKeys |-> {k \in DOMAIN merged.keys : inferUntyped /\ IsUntyped(merged.keys[k].type)}]

InitialState(s) ==
    IF s.contracts = << >> THEN InferredState(s.shape)
    ELSE ExplicitOverloads([i \in DOMAIN s.contracts |-> Signature(s.contracts[i])], s.inferUntyped)

OrUntyped(type) == IF type = {} THEN Untyped ELSE type

CallSignature(method) ==
    [params |-> [i \in DOMAIN method.params |-> OrUntyped(method.params[i])],
     required |-> method.required, rest |-> method.rest,
     keys |-> [k \in DOMAIN method.keys |-> Key(OrUntyped(method.keys[k].type), method.keys[k].required)],
     keyrest |-> method.keyrest, block |-> method.block]

-----------------------------------------------------------------------------
(* What a call shows the summary. *)

\* An untyped slot of a contract takes the first typed evidence for itself.
CombineObservedType(explicit, current, actuals) ==
    LET typed == {t \in actuals : ~IsUntyped(t)}
    IN IF ~explicit THEN JoinAll(actuals \union {current})
       ELSE IF typed = {} THEN current
       ELSE IF IsUntyped(current) THEN UNION typed ELSE current \union UNION typed

ObserveArguments(method, actuals) ==
    LET n == Len(actuals)
        To(slot) == {actuals[i].type : i \in {j \in 1 .. n : SlotOf(method, n, j) = slot}}
    IN [slot \in DOMAIN method.params |->
            IF slot \notin method.inferable \/ To(slot) = {} THEN method.params[slot]
            ELSE CombineObservedType(method.explicit, method.params[slot], To(slot))]

\* Wrong: only the first call counts.
FirstParameterAlias(alias, seen) ==
    IF seen = {} \/ alias # "unseen" THEN alias ELSE CHOOSE a \in seen : TRUE

\* The first call gives a parameter its alias, any other value takes it away.
ObserveParameterAlias(alias, seen) ==
    IF seen = {} THEN alias
    ELSE IF alias = "unseen" THEN IF Cardinality(seen) = 1 THEN CHOOSE a \in seen : TRUE ELSE NoAlias
    ELSE IF seen = {alias} THEN alias ELSE NoAlias

\* A parameter no argument reaches loses its alias, unless the method has a rest.
ObserveParameterAliases(method, actuals) ==
    LET n == Len(actuals)
        To(slot) == {actuals[i].alias : i \in {j \in 1 .. n : SlotOf(method, n, j) = slot}}
                        \union (IF method.rest = 0 /\ slot > n THEN {NoAlias} ELSE {})
    IN [slot \in DOMAIN method.aliases |->
            IF slot \notin method.inferable THEN method.aliases[slot]
            ELSE ObserveParameterAlias(method.aliases[slot], To(slot))]

ObserveKeywords(method, given) ==
    [k \in DOMAIN method.keys |->
        IF k \notin method.inferableKeys \/ k \notin DOMAIN given THEN method.keys[k]
        ELSE Key(CombineObservedType(method.explicit, method.keys[k].type, {given[k]}), method.keys[k].required)]

\* A call of the method by itself waits for concrete arguments.
Observes(method, arguments, own) ==
    LET types == {a.type : a \in ToSet(Binding(method, arguments))}
                    \union {arguments.keywords[k] : k \in DOMAIN arguments.keywords}
    IN  /\ own /\ ~method.explicit => ~\E t \in types : IsUntyped(t)
        /\ ~arguments.forwardsAll
        /\ ~arguments.unknown /\ ~arguments.unknownKeys

ObserveCall(method, arguments, own) ==
    LET actuals == Binding(method, arguments)
    IN IF ~Observes(method, arguments, own) THEN method
       ELSE [method EXCEPT
                !.params = ObserveArguments(method,
                              IF arguments.forwards THEN SubSeq(actuals, 1, arguments.explicit) ELSE actuals),
                !.aliases = IF Len(arguments.all) = Len(actuals)
                            THEN ObserveParameterAliases(method, actuals) ELSE @,
                !.keys = ObserveKeywords(method, arguments.keywords)]

-----------------------------------------------------------------------------
(* The choice of an overload. *)

SignatureShapeAcceptsArguments(signature, arguments) ==
    LET n == Len(Binding(signature, arguments))
    IN  \/ Permissive(arguments)
        \/ /\ signature.required <= n
           /\ signature.rest # 0 \/ n <= Len(signature.params)
           /\ KeywordMode(signature) /\ ~arguments.keywordSplat =>
                /\ \A k \in DOMAIN signature.keys :
                       signature.keys[k].required => k \in DOMAIN arguments.keywords
                /\ signature.keyrest \/ DOMAIN arguments.keywords \subseteq DOMAIN signature.keys

\* Wrong: an overload is accepted for its shape.
AcceptedByShape(signature, arguments) == SignatureShapeAcceptsArguments(signature, arguments)

SignatureAcceptsArguments(signature, arguments) ==
    LET actuals == Binding(signature, arguments)
    IN  /\ SignatureShapeAcceptsArguments(signature, arguments)
        /\ \/ Permissive(arguments)
           \/ /\ \A i \in DOMAIN actuals :
                    /\ HasPositionalType(signature, Len(actuals), i)
                    /\ IsAssignable(actuals[i].type, PositionalType(signature, Len(actuals), i))
              /\ KeywordMode(signature) /\ ~arguments.keywordSplat =>
                    \A k \in DOMAIN arguments.keywords :
                        \/ signature.keyrest
                        \/ /\ k \in DOMAIN signature.keys
                           /\ IsAssignable(arguments.keywords[k], signature.keys[k].type)

\* The accepting overload that agrees about a block, then the one with the fewest parameters to spare.
SelectOverload(overloads, arguments) ==
    LET accepting == {i \in DOMAIN overloads : SignatureAcceptsArguments(overloads[i], arguments)}
        Spare(i) == Max({0, Len(overloads[i].params) - Len(Binding(overloads[i], arguments))})
        Rank(i) == << IF arguments.block = overloads[i].block THEN 0 ELSE 1, Spare(i), i >>
        Before(a, b) == \/ a[1] < b[1]
                        \/ a[1] = b[1] /\ a[2] < b[2]
                        \/ a[1] = b[1] /\ a[2] = b[2] /\ a[3] <= b[3]
    IN IF accepting = {} THEN 0
       ELSE CHOOSE i \in accepting : \A j \in accepting : Before(Rank(i), Rank(j))

RefineUntypedWith(type, evidence) == IF IsUntyped(type) THEN evidence ELSE type

\* What was learned stands in for what the chosen overload leaves untyped.
RefineSelectedSignature(method, selected) ==
    LET summary == CallSignature(method)
    IN [selected EXCEPT
            !.params = [i \in DOMAIN @ |-> RefineUntypedWith(@[i], summary.params[i])],
            !.keys = [k \in DOMAIN @ |-> Key(RefineUntypedWith(@[k].type, summary.keys[k].type), @[k].required)]]

-----------------------------------------------------------------------------
(* What is reported at the call. *)

\* An array of unknown length may only fill a rest, and only after all that precedes it.
DynamicSplatError(signature, arguments) ==
    /\ arguments.dynamic # {}
    /\ \/ signature.rest = 0 \/ signature.rest - 1 > Len(Binding(signature, arguments))
       \/ signature.rest \notin DOMAIN signature.params
       \/ \E t \in arguments.dynamic : ~IsAssignable(t, signature.params[signature.rest])

MissingArguments(signature, arguments) ==
    Len(Binding(signature, arguments)) < signature.required
ExtraArguments(signature, arguments) ==
    signature.rest = 0 /\ Len(Binding(signature, arguments)) > Len(signature.params)

MissingKeywords(signature, arguments) ==
    /\ ~arguments.forwards /\ KeywordMode(signature) /\ ~arguments.keywordSplat
    /\ \E k \in DOMAIN signature.keys :
          signature.keys[k].required /\ k \notin DOMAIN arguments.keywords
UnknownKeyword(signature, arguments) ==
    /\ ~arguments.forwards /\ KeywordMode(signature) /\ ~signature.keyrest
    /\ ~(DOMAIN arguments.keywords \subseteq DOMAIN signature.keys)

ArityError(signature, arguments, initializer) ==
    LET wrong == MissingArguments(signature, arguments) \/ ExtraArguments(signature, arguments)
    IN IF initializer THEN wrong \/ MissingKeywords(signature, arguments)
       ELSE \/ wrong /\ ~arguments.forwards /\ arguments.dynamic = {} /\ ~arguments.unknown
            \/ MissingKeywords(signature, arguments)
            \/ UnknownKeyword(signature, arguments)

\* The hash of a dynamic keyword splat is not checked as an argument.
ArgumentError(signature, arguments) ==
    LET actuals == Binding(signature, arguments)
        Skipped(i) == /\ ~KeywordMode(signature) /\ arguments.dynamicKeys
                      /\ arguments.hasHash /\ i = Len(actuals)
    IN  /\ ~arguments.forwards /\ ~arguments.unknown /\ ~arguments.unknownKeys
        /\ \E i \in DOMAIN actuals :
              ~Skipped(i) /\ ~IsAssignable(actuals[i].type, PositionalType(signature, Len(actuals), i))

KeywordError(signature, arguments) ==
    /\ KeywordMode(signature) /\ ~arguments.forwards /\ ~arguments.unknownKeys
    /\ \E k \in DOMAIN arguments.keywords \intersect DOMAIN signature.keys :
          ~IsAssignable(arguments.keywords[k], signature.keys[k].type)

Reports(signature, arguments, initializer) ==
    \/ DynamicSplatError(signature, arguments)
    \/ arguments.dynamicKeys /\ ~signature.keyrest
    \/ ArityError(signature, arguments, initializer)
    \/ ArgumentError(signature, arguments)
    \/ KeywordError(signature, arguments)

-----------------------------------------------------------------------------
(* The rounds. *)

Init ==
    /\ source \in Sources
    /\ state = InitialState(source)
    /\ left = DOMAIN source.calls
    /\ changed = FALSE
    /\ verdicts = [c \in DOMAIN source.calls |-> [chosen |-> 0, reported |-> FALSE]]
    /\ settled = FALSE

\* observe_call and invoke_signature for one call.
Transfer(c) ==
    \E arguments \in {Arguments(source.calls[c])} :
    \E after \in {ObserveCall(state, arguments, source.calls[c].own)} :
    \E chosen \in {SelectOverload(state.overloads, arguments)} :
    \E signature \in {IF chosen = 0 THEN CallSignature(after)
                      ELSE RefineSelectedSignature(after, state.overloads[chosen])} :
        /\ state' = after
        /\ changed' = (changed \/ after # state)
        /\ left' = left \ {c}
        /\ verdicts' = [verdicts EXCEPT ![c] =
                [chosen |-> chosen, reported |-> Reports(signature, arguments, source.initializer)]]
        /\ UNCHANGED << source, settled >>

\* A changed summary replays the callers.
NextRound ==
    /\ left = {} /\ changed
    /\ left' = DOMAIN source.calls /\ changed' = FALSE
    /\ UNCHANGED << source, state, verdicts, settled >>

Settle ==
    /\ left = {} /\ ~changed /\ ~settled
    /\ settled' = TRUE
    /\ UNCHANGED << source, state, left, changed, verdicts >>

Next ==
    \/ \E c \in left : Transfer(c)
    \/ NextRound
    \/ Settle

Spec == Init /\ [][Next]_vars

-----------------------------------------------------------------------------
Types == ValueTypes \union {{}}

\* Every variable keeps its type.
TypeOK ==
    /\ state.params \in Seq(Types)
    /\ DOMAIN state.aliases = DOMAIN state.params
    /\ state.inferable \subseteq DOMAIN state.params /\ state.inferableKeys \subseteq DOMAIN state.keys
    /\ left \subseteq DOMAIN source.calls
    /\ \A c \in DOMAIN source.calls : verdicts[c].chosen \in 0 .. Len(state.overloads)
    /\ changed \in BOOLEAN /\ settled \in BOOLEAN

Holds(type, class) == class = Unknown \/ IsUntyped(type) \/ class \in type

\* The parameters whose type is learned from calls, for a reader of each signature.
LearnedAs ==
    IF ~state.explicit THEN {<< source.shape, DOMAIN state.params >>}
    ELSE {<< c.shape, {p \in state.inferable \intersect DOMAIN c.types : IsUntyped(c.types[p])} >> :
            c \in ToSet(source.contracts)}

\* Once the rounds are quiet, what was learned of a parameter describes every typed value
\* Ruby can bind to it, whatever the order of the calls (observe_arguments, observe_keyword).
ParametersCovered ==
    settled => \A learned \in LearnedAs : \A c \in DOMAIN source.calls :
        \A call \in {g \in Concrete(source.calls[c]) : Accepts(learned[1], g)} :
            /\ \A p \in learned[2] : \A class \in BoundTo(learned[1], call, p) :
                  Holds(OrUntyped(state.params[p]), class)
            /\ \A k \in DOMAIN Given(learned[1], call).keywords \intersect state.inferableKeys :
                  Holds(OrUntyped(state.keys[k].type), call.keywords[k])

\* And it holds no class that no call passes there: a spurious one would be reported in the body.
EvidenceJustified ==
    settled /\ ~state.explicit
            /\ (\A c \in DOMAIN source.calls : \A g \in Concrete(source.calls[c]) : Accepts(source.shape, g)) =>
        \A p \in DOMAIN state.params : \A class \in state.params[p] :
            \E c \in DOMAIN source.calls : \E g \in Concrete(source.calls[c]) :
                class \in BoundTo(source.shape, g, p)

\* What a quiet summary says of its parameters is what the calls pass, no less and no more.
EvidenceExact == TypeOK /\ ParametersCovered /\ EvidenceJustified

\* The values a contract lets in, from the language's point of view.
FitsContract(contract, call) ==
    /\ Accepts(contract.shape, call)
    /\ \A p \in DOMAIN contract.types : \A class \in BoundTo(contract.shape, call, p) :
          Holds(contract.types[p], class)
    /\ \A k \in DOMAIN Given(contract.shape, call).keywords \intersect DOMAIN contract.keys :
          Holds(contract.keys[k], call.keywords[k])

\* Only a splat known to be an array may be refused although it could fit.
Definite(call) == Splats(call, "array") = {} /\ (call.splat = {} \/ IsUntyped(call.splat))

\* Nothing is known of what some calls pass.
Known(call) == ~call.forwards /\ Splats(call, "unknown") = {} /\ ~IsUntyped(call.splat)

\* A reported call can fail: no overload fits every value it may have
\* (select_overload and the checks of invoke_signature_at_site agree with Ruby's binding).
ErrorsAreReal ==
    settled => \A c \in DOMAIN source.calls :
        verdicts[c].reported /\ Definite(source.calls[c]) =>
            IF state.explicit
            THEN \A contract \in ToSet(source.contracts) : \E call \in Concrete(source.calls[c]) : ~FitsContract(contract, call)
            ELSE \E call \in Concrete(source.calls[c]) : ~Accepts(source.shape, call)

\* A call that is given one overload and not reported fits it, whatever its values are;
\* where its length is not known, whenever Ruby accepts it at all.
AcceptedCallsFit ==
    settled => \A c \in DOMAIN source.calls :
        verdicts[c].chosen # 0 /\ ~verdicts[c].reported /\ Known(source.calls[c]) =>
            \A call \in Concrete(source.calls[c]) :
                LET contract == source.contracts[verdicts[c].chosen]
                IN Splats(source.calls[c], "array") = {} \/ Accepts(contract.shape, call)
                    => FitsContract(contract, call)

\* The expression every value of a parameter comes from, when the body narrows it through one.
PassedAliasHolds ==
    settled => \A p \in DOMAIN state.aliases : state.aliases[p] \notin {"unseen", NoAlias} =>
        \A c \in DOMAIN source.calls :
            LET args == source.calls[c].args
            IN \A call \in Concrete(source.calls[c]) : Accepts(source.shape, call) =>
                LET given == Given(source.shape, call).positional
                IN \A i \in DOMAIN given : ParameterOf(source.shape, Len(given), i) = p =>
                        i \in DOMAIN args /\ args[i].kind = "value" /\ args[i].alias = state.aliases[p]
=============================================================================
