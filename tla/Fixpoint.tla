------------------------------ MODULE Fixpoint ------------------------------
(***************************************************************************)
(* The method-summary fixpoint of src/infer: a seed pass, rounds that      *)
(* replay the root and the scheduled methods until nothing is scheduled,   *)
(* and the final pass that publishes diagnostics (runner.rs), with the     *)
(* summaries, the shared variables and the dependency edges every          *)
(* evaluation reads and writes (shared_state.rs, method_lookup.rs,         *)
(* method_state.rs).                                                       *)
(*                                                                         *)
(* A unit is a piece of source the analyzer evaluates in one go: a chunk   *)
(* of top-level code, a namespace body or a method definition.  Its code   *)
(* is a sequence of the operations that touch the tables, over one value   *)
(* (reg.type): what a whole body does between them is the CFG transfer of  *)
(* BlockWorklist.  Every key is defined at most once per unit but may have *)
(* several units.                                                          *)
(***************************************************************************)
EXTENDS Integers, Sequences, Functions

CONSTANTS
    Unit, Method, Body, Key,    \* units, method keys, namespace bodies, shared variables
    Type, Never, Any, Nil,      \* the types, and the three that are treated apart
    None,                       \* an empty slot
    Join(_, _), NonNil(_),      \* Type::join, Type::truthy_part
    Program

\* What edges point at: MethodKeys, the dependency keys of namespace bodies among them.
Dependent == Method \union Body

Instruction ==
    [ op : {"const", "param", "call", "send", "read", "write", "set", "raise", "guard"},
      method : Method, key : Key, type : Type, alt : Type \union {None} ]

KeyKind == {"ivar", "constant", "classvar"}

ASSUME KindsAssumption ==
    /\ {Never, Any, Nil} \subseteq Type /\ None \notin Type
    /\ None \notin Dependent /\ Method \intersect Body = {}
    /\ \A s, t \in Type : Join(s, t) \in Type /\ NonNil(s) \in Type

\* Type::join: a join is untyped only if a side is.
ASSUME GradualAssumption == \A s, t \in Type \ {Any} : Join(s, t) # Any

ASSUME ProgramAssumption ==
    \A p \in Program :
        /\ p.order \in Seq(Unit)        \* source order
        /\ p.kind \in [Unit -> {"top", "body", "method"}]
        /\ p.key \in [Unit -> Dependent \union {None}]
        /\ p.rooted \in [Unit -> BOOLEAN]   \* a method defined at the top level
        /\ p.code \in [Unit -> Seq(Instruction)]
        /\ p.initializer \in [Unit -> BOOLEAN]  \* its ivar writes initialize
        /\ p.storage \in [Key -> KeyKind]
        /\ p.explicit \in [Method -> BOOLEAN]   \* a signature with T.untyped to infer
        /\ \A u \in Unit :
              /\ p.kind[u] = "method" => p.key[u] \in Method
              /\ p.kind[u] = "body"   => p.key[u] \in Body
              /\ p.kind[u] = "top"    => p.key[u] = None

VARIABLES
    program,
    phase,          \* "seed" | "round" | "final" | "done"
    todo,           \* the units this pass has still to evaluate, the current one first
    pc,             \* the next operation of the current unit, 0 before it begins
    reg,            \* the evaluation's value, and how it has left so far
    methods,        \* declarations.methods: param, ret, terminates, raises
    shared,         \* ivars, constants and class variables
    initialized,    \* initialized_ivars
    provisional,    \* provisional_ivars
    callers,        \* fixpoint.method_callers
    reads,          \* fixpoint.method_shared_reads
    readers,        \* fixpoint.shared_readers
    results,        \* fixpoint.pending_returns and pending_raises
    changed         \* fixpoint.changed_methods and changed_shared

tables == << methods, shared, initialized, provisional >>
edges == << callers, reads, readers >>
vars == << program, phase, todo, pc, reg, tables, edges, results, changed >>

Slot == Type \union {None}

Unit0 == Head(todo)
Kind0 == program.kind[Unit0]
Self == program.key[Unit0]
Collecting == phase \in {"seed", "round"}
Running == todo # << >> /\ pc > 0 /\ ~ reg.stopped /\ pc <= Len(program.code[Unit0])
Here(op) == Running /\ program.code[Unit0][pc].op = op
Now == program.code[Unit0][pc]

-----------------------------------------------------------------------------
(***************************************************************************)
(* Passes.  The seed enters no namespace body; a round replays the top     *)
(* level and the active bodies, then the scheduled methods in source       *)
(* order; the final pass evaluates everything where it stands.             *)
(***************************************************************************)
SourceMethods(p) == { p.key[u] : u \in {v \in Range(p.order) : p.kind[v] = "method"} }
SourceBodies(p) == { p.key[u] : u \in {v \in Range(p.order) : p.kind[v] = "body"} }

\* These units in source order.
InOrder(order, units) ==
    LET chosen[i \in 0 .. Len(order)] ==
            IF i = 0 THEN << >>
            ELSE IF order[i] \in units THEN Append(chosen[i - 1], order[i]) ELSE chosen[i - 1]
    IN  chosen[Len(order)]

SeedUnits(p) ==
    InOrder(p.order, { u \in Unit : p.kind[u] = "top" \/ (p.kind[u] = "method" /\ p.rooted[u]) })

RoundUnits(p, scheduled, active) ==
    InOrder(p.order, { u \in Unit : p.kind[u] = "top" \/ (p.kind[u] = "body" /\ p.key[u] \in active) })
      \o InOrder(p.order, { u \in Unit : p.kind[u] = "method" /\ p.key[u] \in scheduled })

NoResults == [m \in Method |-> [type |-> None, terminates |-> TRUE, raises |-> None]]
NoChange == [methods |-> {}, shared |-> {}]
Idle == [type |-> Nil, provisional |-> FALSE, early |-> None, raised |-> Never, stopped |-> FALSE]

Init ==
    /\ program \in Program
    /\ phase = "seed" /\ todo = SeedUnits(program) /\ pc = 0 /\ reg = Idle
    /\ methods = [m \in Method |-> [ param |-> None, raises |-> None, terminates |-> FALSE,
                                     ret |-> IF program.explicit[m] THEN Any ELSE None ]]
    /\ shared = [k \in Key |-> None]
    /\ initialized = {} /\ provisional = {}
    /\ callers = [m \in Method |-> {}]
    /\ reads = [d \in Dependent |-> {}]
    /\ readers = [k \in Key |-> {}]
    /\ results = NoResults /\ changed = NoChange

\* Combine with one slip: evidence is joined although it says nothing.
CombineJoin(explicit, current, actual) ==
    IF explicit /\ current = Any THEN actual ELSE Join(current, actual)

(***************************************************************************)
(* combine_observed_type: evidence for an explicit contract only fills in  *)
(* what it leaves untyped.                                                 *)
(***************************************************************************)
Combine(explicit, current, actual) ==
    CASE explicit /\ actual = Any -> current
      [] explicit /\ actual # Any /\ current = Any -> actual
      [] OTHER -> Join(current, actual)

Widen(slot, actual) == IF slot = None THEN actual ELSE Join(slot, actual)

\* commit_inferred_returns, for the methods evaluated in the pass.
Committed(m) ==
    LET old == methods[m]
        new == results[m]
        ret == IF program.explicit[m] THEN Combine(TRUE, old.ret, new.type) ELSE new.type
        raises == IF new.raises = None THEN old.raises ELSE Widen(old.raises, new.raises)
    IN  IF new.type = None THEN old
        ELSE [old EXCEPT !.ret = ret, !.terminates = new.terminates, !.raises = raises]

\* CommitChanges with one slip: to be evaluated counts as a change.
CommitChangesAlways == { m \in Method : results[m].type # None }

CommitChanges == { m \in Method : Committed(m) # methods[m] }

\* Affected with one slip: callers are forgotten.
AffectedReaders(methodSet, keySet) == methodSet \union (UNION { readers[k] : k \in keySet })

(***************************************************************************)
(* The keys to evaluate again after a round: what changed, the callers of  *)
(* changed methods and the readers of changed shared variables.            *)
(***************************************************************************)
Affected(methodSet, keySet) ==
    methodSet \union (UNION { callers[m] : m \in methodSet })
              \union (UNION { readers[k] : k \in keySet })

StartPass(next, scheduled, active) ==
    /\ phase' = next /\ pc' = 0 /\ reg' = Idle
    /\ results' = NoResults /\ changed' = NoChange
    /\ todo' = IF next = "round" THEN RoundUnits(program, scheduled, active)
               ELSE IF next = "final" THEN program.order ELSE << >>

EndSeed ==
    /\ phase = "seed" /\ todo = << >>
    /\ methods' = [m \in Method |-> Committed(m)]
    /\ StartPass(IF SourceMethods(program) = {} THEN "final" ELSE "round",
                 SourceMethods(program), SourceBodies(program))
    /\ UNCHANGED << program, shared, initialized, provisional, edges >>

EndRound ==
    /\ phase = "round" /\ todo = << >>
    /\ methods' = [m \in Method |-> Committed(m)]
    /\ LET next == Affected(changed.methods \union CommitChanges, changed.shared)
       IN  StartPass(IF next \intersect Method = {} THEN "final" ELSE "round",
                     next \intersect Method, next \intersect Body)
    /\ UNCHANGED << program, shared, initialized, provisional, edges >>

EndFinal ==
    /\ phase = "final" /\ todo = << >>
    /\ StartPass("done", {}, {})
    /\ UNCHANGED << program, tables, edges >>

-----------------------------------------------------------------------------
(***************************************************************************)
(* One evaluation.                                                         *)
(***************************************************************************)

\* begin_method_evaluation: forget what the last evaluation read.
Begin ==
    /\ todo # << >> /\ pc = 0
    /\ pc' = 1 /\ reg' = Idle
    /\ IF Self = None THEN UNCHANGED << reads, readers >>
       ELSE /\ reads' = [reads EXCEPT ![Self] = {}]
            /\ readers' = [k \in Key |-> readers[k] \ (IF k \in reads[Self] THEN {Self} ELSE {})]
    /\ UNCHANGED << program, phase, todo, tables, callers, results, changed >>

Step(type) ==
    /\ pc' = pc + 1
    /\ reg' = [reg EXCEPT !.type = type, !.provisional = FALSE]
    /\ UNCHANGED << program, phase, todo, results >>

Const ==
    /\ Here("const")
    /\ Step(Now.type)
    /\ UNCHANGED << tables, edges, changed >>

\* A parameter nobody has given a type is provisional.
Param ==
    /\ Here("param") /\ Kind0 = "method"
    /\ LET slot == methods[Self].param
       IN  /\ pc' = pc + 1
           /\ reg' = [reg EXCEPT !.type = IF slot = None THEN Any ELSE slot,
                                 !.provisional = slot \in {None, Any}]
    /\ UNCHANGED << program, phase, todo, results, tables, edges, changed >>

\* record_method_dependency; code at the top level depends on nothing.
AddCaller(m) ==
    /\ callers' = IF Self = None THEN callers ELSE [callers EXCEPT ![m] = @ \union {Self}]
    /\ UNCHANGED << reads, readers >>

Recursive(m) == Self = m /\ ~ program.explicit[m]

\* ObserveArgument with one slip: the callee is not told.
ObserveArgumentSilently(m, actual) ==
    LET old == methods[m].param
        new == CASE Recursive(m) /\ actual = Any -> old
                 [] old = None -> actual
                 [] OTHER -> Combine(program.explicit[m], old, actual)
    IN  methods' = [methods EXCEPT ![m].param = new] /\ changed' = changed

\* observe_call: a recursive call that passes an untyped argument is no evidence.
ObserveArgument(m, actual) ==
    LET old == methods[m].param
        new == CASE Recursive(m) /\ actual = Any -> old
                 [] old = None -> actual
                 [] OTHER -> Combine(program.explicit[m], old, actual)
    IN  /\ methods' = [methods EXCEPT ![m].param = new]
        /\ changed' = IF new = old THEN changed
                      ELSE [changed EXCEPT !.methods = @ \union {m}]

(***************************************************************************)
(* The type of a call: an inferred method without a summary is untyped     *)
(* (widen_overridable_noreturn), a recursive one is bottom while summaries *)
(* are being solved (widen_recursive_call_return).                         *)
(***************************************************************************)
CallType(m) ==
    CASE Recursive(m) /\ Collecting -> Never
      [] ~ (Recursive(m) /\ Collecting) /\ methods[m].ret = None -> Any
      [] OTHER -> methods[m].ret

(***************************************************************************)
(* finish_call: a call whose type is Never leaves by raising, unless it is *)
(* the provisional result of a recursive call.  alt is the value of a path *)
(* around the call, if there is one; the top level goes on regardless.     *)
(***************************************************************************)
FinishCall(m, type) ==
    LET returns == type # Never \/ (Recursive(m) /\ Collecting)
        raised == IF methods[m].raises = None THEN Never ELSE methods[m].raises
    IN  /\ pc' = pc + 1
        /\ reg' = [ type |-> IF Now.alt = None THEN type ELSE Join(type, Now.alt),
                    provisional |-> FALSE,
                    early |-> reg.early,
                    raised |-> IF returns \/ Self = None THEN reg.raised ELSE Join(reg.raised, raised),
                    stopped |-> ~ returns /\ Now.alt = None /\ Self # None ]
        /\ UNCHANGED << program, phase, todo, results >>

CallWith(m, actual) ==
    /\ AddCaller(m)
    /\ ObserveArgument(m, actual)
    /\ FinishCall(m, CallType(m))
    /\ UNCHANGED << shared, initialized, provisional >>

Call == Here("call") /\ CallWith(Now.method, reg.type)

\* A receiver of known type; an untyped receiver is dispatched nowhere.
Known(t) == t \notin {Any, Never, Nil}

Send ==
    /\ Here("send")
    /\ IF Known(reg.type) THEN CallWith(Now.method, Now.type)
       ELSE Step(Any) /\ UNCHANGED << tables, edges, changed >>

Raise ==
    /\ Here("raise")
    /\ pc' = pc + 1
    /\ reg' = [ type |-> IF Now.alt = None THEN Never ELSE Now.alt, provisional |-> FALSE,
                early |-> reg.early,
                raised |-> IF Self = None THEN reg.raised ELSE Join(reg.raised, Now.type),
                stopped |-> Now.alt = None /\ Self # None ]
    /\ UNCHANGED << program, phase, todo, results, tables, edges, changed >>

(***************************************************************************)
(* return <alternative> unless <value>: an edge whose part of the value is *)
(* Never is not taken.                                                     *)
(***************************************************************************)
Guard ==
    /\ Here("guard")
    /\ LET leaves == reg.type # Never /\ Join(reg.type, Nil) = reg.type
           goesOn == NonNil(reg.type) # Never
       IN  /\ pc' = IF goesOn THEN pc + 1 ELSE Len(program.code[Unit0]) + 1
           /\ reg' = [reg EXCEPT !.type = NonNil(reg.type), !.stopped = ~ goesOn,
                                 !.early = IF leaves THEN Widen(reg.early, Now.type) ELSE reg.early]
    /\ UNCHANGED << program, phase, todo, results, tables, edges, changed >>

-----------------------------------------------------------------------------
(***************************************************************************)
(* Shared variables.                                                       *)
(***************************************************************************)

\* record_shared_read with one slip: only the method's side of the edge is kept.
AddReadOneSided(k) ==
    /\ reads' = IF Self = None THEN reads ELSE [reads EXCEPT ![Self] = @ \union {k}]
    /\ UNCHANGED << readers, callers >>

\* record_shared_read
AddRead(k) ==
    /\ reads' = IF Self = None THEN reads ELSE [reads EXCEPT ![Self] = @ \union {k}]
    /\ readers' = IF Self = None THEN readers ELSE [readers EXCEPT ![k] = @ \union {Self}]
    /\ UNCHANGED callers

\* ReadType with one slip: a variable that is not there is not looked for.
ReadTypeUnset(k) ==
    IF shared[k] # None /\ program.storage[k] = "ivar" /\ k \notin initialized
    THEN Join(shared[k], Nil) ELSE shared[k]

(***************************************************************************)
(* ivar_type, constant_type, class_var_type.  An ivar nobody has written   *)
(* is nil, and its read is not recorded.                                   *)
(***************************************************************************)
ReadType(k) ==
    CASE shared[k] = None -> IF program.storage[k] = "ivar" THEN Nil ELSE Any
      [] shared[k] # None /\ program.storage[k] = "ivar" /\ k \notin initialized ->
            Join(shared[k], Nil)
      [] OTHER -> shared[k]

Read ==
    /\ Here("read")
    /\ IF shared[Now.key] = None /\ program.storage[Now.key] = "ivar"
       THEN UNCHANGED edges ELSE AddRead(Now.key)
    /\ Step(ReadType(Now.key))
    /\ UNCHANGED << tables, changed >>

\* observe_ivar, observe_constant, observe_class_var
Observe(k, actual, isProvisional, initializes) ==
    LET ivar == program.storage[k] = "ivar"
        guess == ivar /\ isProvisional /\ actual = Any
        kept == guess /\ shared[k] \notin {None, Any}
        new == CASE kept -> shared[k]
                 [] ~ kept /\ ivar /\ actual # Any /\ k \in provisional /\ shared[k] = Any -> actual
                 [] OTHER -> Widen(shared[k], actual)
    IN  /\ shared' = [shared EXCEPT ![k] = new]
        /\ provisional' = IF guess /\ ~ kept THEN provisional \union {k} ELSE provisional \ {k}
        /\ initialized' = IF ivar /\ initializes THEN initialized \union {k} ELSE initialized
        /\ changed' = IF new = shared[k] /\ initialized' = initialized THEN changed
                      ELSE [changed EXCEPT !.shared = @ \union {k}]
        /\ UNCHANGED methods

Write ==
    /\ Here("write")
    /\ Observe(Now.key, reg.type, reg.provisional, program.initializer[Unit0])
    /\ Step(reg.type)
    /\ UNCHANGED edges

\* observe_dynamic_ivar: instance_variable_set on a receiver, when its type is known.
Set ==
    /\ Here("set")
    /\ IF ~ Known(reg.type) THEN UNCHANGED << tables, changed >>
       ELSE LET new == Widen(shared[Now.key], Now.type)
            IN  /\ shared' = [shared EXCEPT ![Now.key] = new]
                /\ changed' = IF new = shared[Now.key] THEN changed
                              ELSE [changed EXCEPT !.shared = @ \union {Now.key}]
                /\ UNCHANGED << methods, initialized, provisional >>
    /\ Step(Now.type)
    /\ UNCHANGED edges

(***************************************************************************)
(* The end of a unit: a method's return and exceptions are recorded for    *)
(* the commit at the end of the pass, joined over its definitions.         *)
(***************************************************************************)
AtEnd == todo # << >> /\ pc > 0 /\ ~ Running

\* Eval::method_return_type
Returned ==
    CASE reg.early = None -> reg.type
      [] reg.early # None /\ reg.stopped -> reg.early
      [] OTHER -> Join(reg.type, reg.early)

End ==
    /\ AtEnd
    /\ todo' = Tail(todo) /\ pc' = 0 /\ reg' = Idle
    /\ results' =
          IF Kind0 # "method" \/ ~ Collecting THEN results
          ELSE [results EXCEPT ![Self] =
                  [ type |-> Widen(@.type, Returned),
                    terminates |-> @.terminates /\ reg.stopped /\ reg.early = None,
                    raises |-> IF reg.raised = Never THEN @.raises ELSE Widen(@.raises, reg.raised) ]]
    /\ UNCHANGED << program, phase, tables, edges, changed >>

Stopped == phase = "done" /\ UNCHANGED vars

Next ==
    \/ Begin \/ Const \/ Param \/ Call \/ Send \/ Raise \/ Guard \/ Read \/ Write \/ Set \/ End
    \/ EndSeed \/ EndRound \/ EndFinal
    \/ Stopped

Spec == Init /\ [][Next]_vars

\* One thread, no waiting.
FairSpec == Spec /\ WF_vars(Next)

-----------------------------------------------------------------------------
TypeOK ==
    /\ program \in Program
    /\ phase \in {"seed", "round", "final", "done"}
    /\ todo \in Seq(Unit)
    /\ pc \in Nat
    /\ reg \in [type : Type, provisional : BOOLEAN, early : Slot, raised : Type, stopped : BOOLEAN]
    /\ methods \in [Method -> [param : Slot, ret : Slot, terminates : BOOLEAN, raises : Slot]]
    /\ shared \in [Key -> Slot]
    /\ initialized \subseteq Key /\ provisional \subseteq Key
    /\ callers \in [Method -> SUBSET Dependent]
    /\ reads \in [Dependent -> SUBSET Key]
    /\ readers \in [Key -> SUBSET Dependent]
    /\ results \in [Method -> [type : Slot, terminates : BOOLEAN, raises : Slot]]
    /\ changed \in [methods : SUBSET Method, shared : SUBSET Key]

(***************************************************************************)
(* method_shared_reads and shared_readers are two views of one relation:   *)
(* an edge is never known to one side only; every other table is well      *)
(* typed as well.                                                          *)
(***************************************************************************)
EdgesAgree == TypeOK /\ \A d \in Dependent, k \in Key : k \in reads[d] <=> d \in readers[k]

(***************************************************************************)
(* The published pass agrees with the summaries it was computed from: the  *)
(* value a method body has in the final pass is covered by the return its  *)
(* callers see.                                                            *)
(***************************************************************************)
FinalCovered ==
    (phase = "final" /\ AtEnd /\ Kind0 = "method" /\ ~ program.explicit[Self]) =>
        /\ methods[Self].ret # None
        /\ Join(methods[Self].ret, Returned) = methods[Self].ret

\* "Re-run once with settled summaries": the final pass learns nothing new.
FinalQuiet == [][phase = "final" => UNCHANGED << methods, shared, initialized >>]_vars

(***************************************************************************)
(* What evidence has made of the T.untyped of a signature is not lost to   *)
(* an evaluation that knows less.                                          *)
(***************************************************************************)
RefinementKept ==
    [][\A m \in Method : program.explicit[m] =>
          /\ methods[m].ret # Any => methods'[m].ret # Any
          /\ methods[m].param \notin {None, Any} => methods'[m].param # Any]_vars

\* The rounds end without a limit on their number.
Terminates == <>(phase = "done")
=============================================================================
