------------------------------ MODULE RubyCall ------------------------------
(***************************************************************************)
(* How Ruby hands the arguments of a call to the parameters of a method:   *)
(* the reference for CallBinding, written from the language.               *)
(*                                                                         *)
(* A shape has required, optional and post parameters, maybe a rest, and   *)
(* keywords (a function: is the name required?), maybe a keyword rest.     *)
(* A call has arguments of four kinds (a value, a splat of a tuple, of an  *)
(* array, of something unknown), named keywords, maybe a splatted hash     *)
(* (the classes of its values, {} for none) and maybe a final "...".       *)
(* A type is the set of the classes its values may have.                   *)
(***************************************************************************)
EXTENDS Integers, Sequences

CONSTANTS
    Classes,  \* the classes of the values a program writes
    Names,    \* the names of keywords
    Longest   \* bound on the length of a splatted array

\* The class of a value nothing is known of, and that of a hash of keywords.
Unknown == "?"
HashClass == "Hash"
Untyped == {Unknown}

UnknownArgument == [kind |-> "unknown"]

Universe == Classes \union {HashClass, Unknown}
\* Of a value either the classes are known or nothing is.
ValueTypes == {t \in SUBSET Universe : t # {} /\ (Unknown \in t => t = Untyped)}
Keyed(S) == UNION {[some -> S] : some \in SUBSET Names}

ArgumentSet ==
    [kind : {"value"}, type : ValueTypes, alias : STRING \ {"unseen"}]
        \union [kind : {"tuple"}, types : Seq(ValueTypes)]
        \union [kind : {"array"}, type : ValueTypes]
        \union {UnknownArgument}
CallSet ==
    [args : Seq(ArgumentSet), named : Keyed(ValueTypes), splat : ValueTypes \union {{}},
     forwards : BOOLEAN, block : BOOLEAN, own : BOOLEAN]
ShapeSet ==
    [required : Nat, optional : Nat, rest : BOOLEAN, post : Nat,
     keys : Keyed(BOOLEAN), keyrest : BOOLEAN]

\* The values an argument stands for when the call is made.
ValuesOf(arg) ==
    CASE arg.kind = "value" -> {<< c >> : c \in arg.type}
      [] arg.kind = "tuple" ->
            {v \in [DOMAIN arg.types -> UNION {arg.types[i] : i \in DOMAIN arg.types}] :
                \A i \in DOMAIN arg.types : v[i] \in arg.types[i]}
      [] arg.kind = "array" -> UNION {[1 .. n -> arg.type] : n \in 0 .. Longest}
      [] OTHER -> UNION {[1 .. n -> Untyped] : n \in 0 .. Longest}

Continued(lists, values) == {s \o v : s \in lists, v \in values}

Positionals(args) ==
    LET upto[i \in 0 .. Len(args)] ==
            IF i = 0 THEN {<< >>} ELSE Continued(upto[i - 1], ValuesOf(args[i]))
    IN upto[Len(args)]

\* What the call names wins over what the splatted hash holds.
Keywords(call) ==
    LET named == {f \in [DOMAIN call.named -> UNION {call.named[k] : k \in DOMAIN call.named}] :
                    \A k \in DOMAIN call.named : f[k] \in call.named[k]}
        held == call.splat \union (IF call.forwards THEN Untyped ELSE {})
        splatted == UNION {[some -> held] : some \in SUBSET (Names \ DOMAIN call.named)}
    IN {[k \in DOMAIN f \union DOMAIN g |-> IF k \in DOMAIN f THEN f[k] ELSE g[k]] :
            f \in named, g \in splatted}

\* The calls Ruby may see: each gives a class to every value.
Concrete(call) ==
    [positional : Positionals(IF call.forwards THEN Append(call.args, UnknownArgument) ELSE call.args),
     keywords : Keywords(call)]

TakesKeywords(shape) == DOMAIN shape.keys # {} \/ shape.keyrest

\* A method without keywords takes them as one more positional hash.
Given(shape, call) ==
    IF TakesKeywords(shape) \/ DOMAIN call.keywords = {} THEN call
    ELSE [positional |-> Append(call.positional, HashClass), keywords |-> << >>]

Least(shape) == shape.required + shape.post
Fixed(shape) == shape.required + shape.optional + shape.post
\* The parameters in order; the rest is one of them.
Size(shape) == Fixed(shape) + (IF shape.rest THEN 1 ELSE 0)

Accepts(shape, call) ==
    LET given == Given(shape, call)
        n == Len(given.positional)
    IN  /\ Least(shape) <= n /\ (shape.rest \/ n <= Fixed(shape))
        /\ \A k \in DOMAIN shape.keys : shape.keys[k] => k \in DOMAIN given.keywords
        /\ shape.keyrest \/ DOMAIN given.keywords \subseteq DOMAIN shape.keys

\* The parameter the i-th of n values is for: posts take theirs before the optional ones do.
ParameterOf(shape, n, i) ==
    IF i <= shape.required THEN i
    ELSE IF i > n - shape.post THEN Size(shape) - (n - i)
    ELSE IF i <= shape.required + shape.optional THEN i
    ELSE shape.required + shape.optional + 1

\* The classes of the values a parameter gets.
BoundTo(shape, call, parameter) ==
    LET given == Given(shape, call).positional
    IN {given[i] : i \in {j \in DOMAIN given : ParameterOf(shape, Len(given), j) = parameter}}
=============================================================================
