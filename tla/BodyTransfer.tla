---------------------------- MODULE BodyTransfer ----------------------------
(***************************************************************************)
(* The transfer of one method or closure body, src/infer/cfg_transfer: the *)
(* block scheduler run on the blocks of CfgLowering, with the host that    *)
(* carries values, the local x, and normal, raised and pending outcomes    *)
(* from block to block (BlockState, transfer_block), and eval_cfg_body_    *)
(* owned, which then probes the rescue handlers and collects the result.   *)
(*                                                                         *)
(* A type is a set of classes; Anything is what an operation yields that   *)
(* misses an operand.                                                      *)
(***************************************************************************)
EXTENDS CfgLowering

CONSTANTS
    None,       \* no state, no exception, no environment
    N,          \* at least as many blocks as any body has
    Programs    \* lowered bodies, see BodyProgram

Anything == {"anything"}
Never == {}
Kinds == {"return", "break", "next"}
NoOutcomes == [k \in Kinds |-> Never]
IsPending(state) == \E k \in Kinds : state.outcomes[k] # Never

\* BlockState::with_values
FreshState(x) ==
    [ values |-> << >>, x |-> x, flow |-> {"normal"}, normal |-> TRUE,
      exception |-> None, outcomes |-> NoOutcomes ]

(***************************************************************************)
(* BlockState::join: a value survives when both sides have it; the         *)
(* environment of a side that completes normally is preferred to one that  *)
(* does not.                                                               *)
(***************************************************************************)
JoinBlocks(s, t) ==
    [ values |-> [v \in DOMAIN s.values \intersect DOMAIN t.values |-> s.values[v] \union t.values[v]],
      x |-> IF "normal" \in s.flow /\ "normal" \notin t.flow THEN s.x
            ELSE IF "normal" \in t.flow /\ "normal" \notin s.flow THEN t.x ELSE s.x \union t.x,
      flow |-> s.flow \union t.flow,
      normal |-> s.normal \/ t.normal,
      exception |-> IF s.exception = None THEN t.exception
                    ELSE IF t.exception = None THEN s.exception ELSE s.exception \union t.exception,
      outcomes |-> [k \in Kinds |-> s.outcomes[k] \union t.outcomes[k]] ]

Put(state, v, type) == IF v = NoValue THEN state ELSE [state EXCEPT !.values = (v :> type) @@ @]

\* RouteException with one slip: a state that was normal stays so.
RouteExceptionNormal(state, exception) ==
    [state EXCEPT !.exception = exception, !.outcomes = NoOutcomes, !.flow = {"raise"}]

\* BlockState::route_exception
RouteException(state, exception) ==
    [state EXCEPT !.exception = exception, !.outcomes = NoOutcomes, !.flow = {"raise"}, !.normal = FALSE]

\* HandleException with one slip: what is left when the raise is handled is not made normal.
HandleExceptionEmptying(state) ==
    [state EXCEPT !.exception = None, !.normal = TRUE, !.flow = @ \ {"raise"}]

\* BlockState::handle_exception
HandleException(state) ==
    [state EXCEPT !.exception = None, !.normal = TRUE,
                  !.flow = IF @ \ {"raise"} = {} THEN {"normal"} ELSE @ \ {"raise"}]

-----------------------------------------------------------------------------
(***************************************************************************)
(* What interpreting a block yields: edges, and what it adds to the result *)
(* of the body.                                                            *)
(***************************************************************************)
Nothing == [ normal |-> Never, abrupt |-> [k \in Kinds \union {"raise"} |-> Never], x |-> None ]

Add(result, more) ==
    [ normal |-> result.normal \union more.normal,
      abrupt |-> [k \in DOMAIN result.abrupt |-> result.abrupt[k] \union more.abrupt[k]],
      x |-> IF result.x = None THEN more.x ELSE IF more.x = None THEN result.x ELSE result.x \union more.x ]

Yields(edges, adds) == [edges |-> edges, adds |-> adds, dead |-> << >>, failed |-> FALSE]
Failed == [Yields(<< >>, Nothing) EXCEPT !.failed = TRUE]

To(target, state) == [target |-> target, state |-> state]

\* ExceptionState with one slip: the ensure entry's value is left out.
ExceptionStateWithoutValue(p, b, state, exception) ==
    LET target == p.graph.blocks[b].unwind
        param == p.graph.blocks[target].param
        ensures == target \in p.graph.ensureEntries
        routed == RouteException(IF ensures THEN state ELSE Put(state, param, exception), exception)
    IN  IF ensures THEN [routed EXCEPT !.flow = @ \union {"normal"}] ELSE routed

\* The state a block's unwind target gets; exceptions.rs, for a block that has one.
ExceptionState(p, b, state, exception) ==
    LET target == p.graph.blocks[b].unwind
        param == p.graph.blocks[target].param
        ensures == target \in p.graph.ensureEntries
        routed == RouteException(Put(state, param, IF ensures THEN Never ELSE exception), exception)
    IN  IF ensures THEN [routed EXCEPT !.flow = @ \union {"normal"}] ELSE routed

\* An exception goes along the unwind edge, or out of the body.
Unwind(p, b, state, exception) ==
    IF p.graph.blocks[b].unwind = NoBlock
    THEN Yields(<< >>, [Nothing EXCEPT !.abrupt["raise"] = exception])
    ELSE Yields(<< To(p.graph.blocks[b].unwind, ExceptionState(p, b, state, exception)) >>, Nothing)

Both(out, more) ==
    [ edges |-> out.edges \o more.edges, adds |-> Add(out.adds, more.adds),
      dead |-> out.dead \o more.dead, failed |-> out.failed \/ more.failed ]

\* CallOut with one slip: a call that returns does not raise.
CallOutRaising(p, b, state, operation) ==
    IF operation.types = Never THEN Unwind(p, b, state, {"Err"}) ELSE Yields(<< >>, Nothing)

(***************************************************************************)
(* A call: what it raises takes the exception edge with the state from     *)
(* before it; a protected call has that edge even when it returns.         *)
(***************************************************************************)
CallOut(p, b, state, operation) ==
    IF operation.types = Never THEN Unwind(p, b, state, {"Err"})
    ELSE IF p.graph.blocks[b].unwind # NoBlock THEN Unwind(p, b, state, {"Std"})
    ELSE Yields(<< >>, Nothing)

Has(state, v) == v \in DOMAIN state.values

\* The type of an operation's result; a missing operand makes it Anything.
ResultOf(state, operation) ==
    CASE operation.op = "const" -> {operation.type}
      [] operation.op = "call"  -> operation.types
      [] operation.op = "param" -> {"true", "nil"}
      [] operation.op = "read"  -> state.x
      [] OTHER -> IF Has(state, operation.arg) THEN state.values[operation.arg] ELSE Anything

\* set_pending_outcome: the newest outcome replaces a pending one.
Effect(state, operation) ==
    CASE operation.op = "write" /\ Has(state, operation.arg) ->
            [state EXCEPT !.x = state.values[operation.arg]]
      [] operation.op = "bind" /\ Has(state, operation.arg) -> [state EXCEPT !.x = {operation.type}]
      [] operation.op = "outcome" /\ Has(state, operation.arg) ->
            [state EXCEPT !.outcomes = [NoOutcomes EXCEPT ![operation.kind] = state.values[operation.arg]]]
      [] OTHER -> state

\* The operations of a block in order, up to one that does not return.
Operations(p, b, s) ==
    FoldLeft(LAMBDA acc, operation :
                IF acc.stopped THEN acc
                ELSE [ state |-> Put(Effect(acc.state, operation), operation.result,
                                     ResultOf(acc.state, operation)),
                       out |-> IF operation.op = "call"
                               THEN Both(acc.out, CallOut(p, b, acc.state, operation)) ELSE acc.out,
                       stopped |-> operation.op = "call" /\ operation.types = Never ],
             [state |-> s, out |-> Yields(<< >>, Nothing), stopped |-> FALSE],
             p.graph.blocks[b].ops)

\* finish_outcome: a return ends a method or a lambda; from a block it leaves the method around it.
FinishOutcome(p, kind, type, x) ==
    IF kind = "return" /\ p.closure # "block"
    THEN Yields(<< >>, [Nothing EXCEPT !.normal = type, !.x = x])
    ELSE Yields(<< >>, [Nothing EXCEPT !.abrupt[kind] = type])

FinishOutcomes(p, state) ==
    FoldLeft(LAMBDA out, kind :
                IF state.outcomes[kind] = Never THEN out
                ELSE Both(out, FinishOutcome(p, kind, state.outcomes[kind], state.x)),
             Yields(<< >>, Nothing), << "return", "break", "next" >>)

\* is_rescue_entry: whether some block unwinds here.
IsRescueEntry(p, b) == \E c \in DOMAIN p.graph.blocks : p.graph.blocks[c].unwind = b

\* Along a Jump: the target's parameter takes the value.
Jumped(p, state, target, v) ==
    IF v = NoValue THEN Yields(<< To(target, state) >>, Nothing)
    ELSE IF ~ Has(state, v) THEN Failed
    ELSE Yields(<< To(target, Put(state, p.graph.blocks[target].param, state.values[v])) >>, Nothing)

JumpOut(p, b, state, term) ==
    Jumped(p, IF state.exception # None /\ IsRescueEntry(p, b) THEN HandleException(state) ELSE state,
           term.target, term.value)

ReturnOut(state, term) ==
    LET type == IF Has(state, term.value) THEN state.values[term.value] ELSE {"nil"}
    IN  IF state.normal THEN Yields(<< >>, [Nothing EXCEPT !.normal = type, !.x = state.x])
        ELSE Yields(<< >>, Nothing)

NonLocalReturnOut(p, state, term) ==
    FinishOutcome(p, "return", IF Has(state, term.value) THEN state.values[term.value] ELSE {"nil"}, state.x)

\* case_match_reachability and narrowing of an exception type by a rescue clause's class.
Member(class, exception) == class = exception \/ (class = "Err" /\ exception = "Std")
Matching(type, class) ==
    IF type = Anything THEN {class}
    ELSE { IF class = "Err" THEN "Err" ELSE e : e \in {e \in type : Member(class, e) \/ class = "Std"} }
NotMatching(type, class) == IF type = Anything THEN Anything ELSE {e \in type : class # "Std" /\ e # class}

\* truthy_part, falsy_part
Part(type, truthy) == { t \in type : t = "anything" \/ (t # "nil") = truthy }

\* The arm's share of a value: pattern by pattern, as narrow_pattern_value has it.
Narrowed(type, test, truthy) ==
    CASE test.pattern = "truthy"                 -> Part(type, truthy)
      [] test.pattern = "nil"                    -> Part(type, ~ truthy)
      [] test.pattern = "case" /\ truthy        -> Matching(type, test.class)
      [] test.pattern = "case" /\ ~ truthy      -> NotMatching(type, test.class)
      [] test.pattern \in {"iteration", "condition"} -> type

Ways(type, test) ==
    << Narrowed(type, test, TRUE) # Never, Narrowed(type, test, FALSE) # Never >>

\* branch_reachability and pattern_reachability: which arms can be taken, the truthy one first.
BranchReachability(type, test) ==
    CASE test.pattern = "iteration"               -> << TRUE, TRUE >>
      [] test.pattern = "condition" /\ test.loop  -> << TRUE, TRUE >>
      [] test.pattern = "condition"               -> << Part(type, TRUE) # Never, Part(type, FALSE) # Never >>
      [] test.pattern = "case" /\ type = Never    -> << TRUE, FALSE >>
      [] OTHER                                    -> Ways(type, test)

\* pattern_source_place: the value is what a read of x gave; source_place: so is the scrutinee's.
RECURSIVE ReadsX(_)
ReadsX(s) ==
    CASE s.op = "get" -> TRUE
      [] s.op = "set" -> ReadsX(s.value)
      [] s.op = "seq" -> ReadsX(Last(s.body))
      [] OTHER        -> FALSE

RECURSIVE SourcePlace(_)
SourcePlace(s) ==
    CASE s.op \in {"get", "set"} -> TRUE
      [] s.op = "seq"            -> SourcePlace(Last(s.body))
      [] OTHER                   -> FALSE

\* narrow_cfg_predicate, of x.
RECURSIVE NarrowPredicate(_, _, _)
NarrowPredicate(s, x, truthy) ==
    LET left == NarrowPredicate(s.left, x, truthy)
        decided == NarrowPredicate(s.right, left, truthy)
        other == NarrowPredicate(s.right, NarrowPredicate(s.left, x, ~ truthy), truthy)
    IN  CASE s.op \in {"get", "set"} -> Part(x, truthy)
          [] s.op = "seq"            -> NarrowPredicate(Last(s.body), x, truthy)
          [] s.op = "logical"        -> IF truthy = (s.kind = "and") THEN decided ELSE left \union other
          [] OTHER                   -> x

\* What x is in an arm whose test left a value of this type.
NarrowX(test, x, type, truthy) ==
    CASE test.pattern = "condition" -> NarrowPredicate(test.about, x, truthy)
      [] test.pattern = "truthy"    -> IF ReadsX(test.about.left) THEN type
                                       ELSE NarrowPredicate(test.about, x, truthy)
      [] test.pattern = "case"      -> IF SourcePlace(test.about) THEN type ELSE x
      [] OTHER                      -> IF ReadsX(test.about) THEN type ELSE x

\* branch_state: a case test takes a pending exception for handled.
BranchState(state, term, truthy) ==
    LET test == term.test
        type == IF Has(state, term.value) THEN Narrowed(state.values[term.value], test, truthy) ELSE Never
        put == IF Has(state, term.value) THEN Put(state, term.value, type) ELSE state
        arm == [put EXCEPT !.x = NarrowX(test, state.x, type, truthy)]
    IN  IF test.pattern = "case" /\ state.exception # None THEN HandleException(arm) ELSE arm

\* An arm that cannot be taken is looked at later, up to the end of the conditional.
ArmOut(state, term, truthy, reachable) ==
    LET target == IF truthy THEN term.truthy ELSE term.falsy
        arm == BranchState(state, term, truthy)
    IN  IF reachable THEN Yields(<< To(target, arm) >>, Nothing)
        ELSE [Yields(<< >>, Nothing) EXCEPT !.dead =
                 IF term.test.join = NoBlock THEN << >>
                 ELSE << [start |-> target, stop |-> term.test.join, state |-> arm] >>]

BranchOut(state, term) ==
    LET loop == term.test.pattern = "condition" /\ term.test.loop
        ways == IF loop THEN << TRUE, TRUE >> ELSE BranchReachability(state.values[term.value], term.test)
    IN  IF ~ loop /\ ~ Has(state, term.value) THEN Failed
        ELSE Both(ArmOut(state, term, TRUE, ways[1]), ArmOut(state, term, FALSE, ways[2]))

RaiseOut(p, b, state, term) ==
    Unwind(p, b, state, IF Has(state, term.value) THEN state.values[term.value] ELSE {"Std"})

\* One pending outcome after an ensure body, for the ensure around it.
PendingEdge(p, state, term, kind) ==
    To(term.pending,
       [Put(state, p.graph.blocks[term.pending].param, state.outcomes[kind]) EXCEPT !.flow = {"normal"}])

PendingOut(p, state, term) ==
    IF term.pending = NoBlock THEN FinishOutcomes(p, state)
    ELSE LET kinds == SelectSeq(<< "return", "break", "next" >>, LAMBDA k : state.outcomes[k] # Never)
         IN  Yields([i \in DOMAIN kinds |-> PendingEdge(p, state, term, kinds[i])], Nothing)

(***************************************************************************)
(* EnsureComplete: go on after the begin, if the ensure body was entered   *)
(* normally; complete what is pending; raise again what was raised.        *)
(***************************************************************************)
CompleteOut(p, b, state, term) ==
    LET calm == [state EXCEPT !.exception = None, !.flow = @ \ {"raise"}]
        goesOn == IF state.normal /\ ~ IsPending(state) THEN Jumped(p, calm, term.target, term.value)
                  ELSE Yields(<< >>, Nothing)
        raised == IF "raise" \in state.flow /\ state.exception # None
                  THEN Unwind(p, b, state, state.exception) ELSE Yields(<< >>, Nothing)
    IN  Both(Both(goesOn, PendingOut(p, state, term)), raised)

TerminatorOut(p, b, state) ==
    LET term == p.graph.blocks[b].term
    IN  CASE term.kind = "jump"        -> JumpOut(p, b, state, term)
          [] term.kind = "return"      -> ReturnOut(state, term)
          [] term.kind = "nonlocal"    -> NonLocalReturnOut(p, state, term)
          [] term.kind = "unreachable" -> FinishOutcomes(p, state)
          [] term.kind = "branch"      -> BranchOut(state, term)
          [] term.kind = "raise"       -> RaiseOut(p, b, state, term)
          [] term.kind = "complete"    -> CompleteOut(p, b, state, term)

\* transfer_block
TransferBlock(p, b, s) ==
    LET done == Operations(p, b, s)
    IN  IF b \in p.stops THEN Yields(<< >>, Nothing)
        ELSE IF done.stopped THEN done.out
        ELSE Both(done.out, TerminatorOut(p, b, done.state))

\* What a probe learns at the block it stops at.
ProbeValue(p, b, s) ==
    IF b \in p.stops /\ Has(s, p.graph.blocks[b].param) THEN s.values[p.graph.blocks[b].param] ELSE Never

-----------------------------------------------------------------------------
Block == 0 .. N - 1

\* What the scheduler sees of a block.
View(graph, b) ==
    LET term == graph.blocks[b].term
    IN  IF b \notin DOMAIN graph.blocks
        THEN [term |-> [kind |-> "stop", target |-> 0], unwind |-> FALSE]
        ELSE [ unwind |-> graph.blocks[b].unwind # NoBlock,
               term |-> [ target |-> IF term.kind = "jump" THEN term.target ELSE 0,
                          kind |-> CASE term.kind = "jump" -> "jump"
                                     [] term.kind \in {"branch", "complete"} -> "fork"
                                     [] OTHER -> "stop" ] ]

\* The lowered body of a method or closure; a local it writes is nil before (written_locals).
Transferred(source, closure, graph) ==
    [ source |-> source, closure |-> closure, graph |-> graph,
      start |-> 0, initial |-> FreshState({"nil"}), stops |-> {},
      body |-> [b \in Block |-> View(graph, b)] ]

BodyProgram(source, closure) == Transferred(source, closure, Graph(source, closure))

VARIABLES
    program, phase, states, pending, queued, current, edges, path,   \* of BlockWorklist
    job,        \* .mode "body" | "dead" | "probe" | "suffix" | "end", and the unreachable arm or
                \* the rescue region it is about
    dead,       \* unreachable_probes: [start, stop, state]
    main,       \* the states of the run on the whole body
    result,     \* normal_type, abrupt, final_environment
    probed      \* probe_normal_type

schedulerVars == << program, phase, states, pending, queued, current, edges, path >>
vars == << schedulerVars, job, dead, main, result, probed >>

Scheduler == INSTANCE BlockWorklist WITH
    State <- {},
    Join <- JoinBlocks,
    Program <- Programs,
    Edges <- LAMBDA p, b, s : TransferBlock(p, b, s).edges,
    Fails <- LAMBDA p, b, s : TransferBlock(p, b, s).failed

Init ==
    /\ Scheduler!Init
    /\ job = [mode |-> "body", region |-> 0] /\ dead = << >>
    /\ main = states /\ result = Nothing /\ probed = Never

\* queue_unreachable_probe: an arm is looked at once, with the state it was first found in.
Queue(queue, arms) ==
    FoldLeft(LAMBDA q, arm : IF \E i \in DOMAIN q : q[i].start = arm.start /\ q[i].stop = arm.stop
                             THEN q ELSE Append(q, arm),
             queue, arms)

\* What a run keeps of an interpreted block: a probe nothing, a suffix no normal value.
Kept(adds) ==
    CASE job.mode = "body"   -> adds
      [] job.mode = "suffix" -> [adds EXCEPT !.normal = Never]
      [] OTHER -> Nothing

Keep(b, out) ==
    /\ result' = Add(result, Kept(out.adds))
    /\ probed' = probed \union ProbeValue(program, b, states[b])
    /\ dead' = IF job.mode \in {"body", "dead"} THEN Queue(dead, out.dead) ELSE dead

Interpret(b) == Keep(b, TransferBlock(program, b, states[b]))

\* A visit of the worklist, or a block of the straight-line path.
Visit ==
    /\ \E b \in Block : /\ Scheduler!Pop(b) \/ (path # << >> /\ b = Head(path) /\ Scheduler!StraightStep)
                        /\ Interpret(b)
    /\ UNCHANGED << job, main >>

Schedule ==
    /\ Scheduler!Walk \/ Scheduler!Propagate \/ Scheduler!Finish
    /\ UNCHANGED << job, dead, main, result, probed >>

\* run_from, once more.
Rerun(start, initial, stops) ==
    /\ program' = [program EXCEPT !.start = start, !.initial = initial, !.stops = stops]
    /\ phase' = "walk" /\ current' = start /\ path' = << >> /\ edges' = << >>
    /\ states' = [b \in Block |-> IF b = start THEN initial ELSE None]
    /\ pending' = [b \in Block |-> 0] /\ queued' = [b \in Block |-> FALSE]

Regions == program.graph.regions

\* A handler is tried with an untyped exception and the environment the begin was entered with.
Probe(i, reached) ==
    LET region == Regions[i]
        x == IF reached[region.protected] = None THEN {"nil"} ELSE reached[region.protected].x
        state == RouteException(FreshState(x), Anything)
    IN  /\ job' = [mode |-> "probe", region |-> i]
        /\ Rerun(region.entry, Put(state, program.graph.blocks[region.entry].param, Anything),
                 {region.exit, region.protected})
        /\ probed' = Never

RegionAfter(i, reached) ==
    IF i < Len(Regions) THEN Probe(i + 1, reached)
    ELSE job' = [mode |-> "end", region |-> 0] /\ UNCHANGED << schedulerVars, probed >>

\* transfer_unreachable_probes: an arm nothing is kept of; it may find more of them.
DeadArmAfter(i, reached) ==
    IF i < Len(dead)
    THEN /\ job' = [mode |-> "dead", region |-> i + 1]
         /\ Rerun(dead[i + 1].start, dead[i + 1].state, {dead[i + 1].stop})
         /\ UNCHANGED probed
    ELSE RegionAfter(0, reached)

EndBody ==
    /\ phase = "done" /\ job.mode = "body"
    /\ main' = states
    /\ DeadArmAfter(0, states)
    /\ UNCHANGED << dead, result >>

EndDeadArm ==
    /\ phase = "done" /\ job.mode = "dead"
    /\ DeadArmAfter(job.region, main)
    /\ UNCHANGED << dead, main, result >>

\* A handler no exception reached still lends its value to the result and to what follows the begin.
EndProbe ==
    /\ phase = "done" /\ job.mode = "probe"
    /\ LET region == Regions[job.region]
           lends == main[region.entry] = None /\ probed # Never
           param == program.graph.blocks[region.exit].param
           exit == main[region.exit]
           value == IF Has(exit, param) THEN exit.values[param] ELSE Never
       IN  /\ result' = IF lends THEN [result EXCEPT !.normal = @ \union probed] ELSE result
           /\ IF lends /\ exit # None
              THEN /\ Rerun(region.exit, Put(exit, param, value \union probed), {})
                   /\ job' = [job EXCEPT !.mode = "suffix"]
                   /\ UNCHANGED probed
              ELSE RegionAfter(job.region, main)
    /\ UNCHANGED << dead, main >>

EndSuffix ==
    /\ phase = "done" /\ job.mode = "suffix"
    /\ RegionAfter(job.region, main)
    /\ UNCHANGED << dead, main, result >>

Stopped == (job.mode = "end" \/ phase = "failed") /\ UNCHANGED vars

Next == Visit \/ Schedule \/ EndBody \/ EndDeadArm \/ EndProbe \/ EndSuffix \/ Stopped

Spec == Init /\ [][Next]_vars

-----------------------------------------------------------------------------
Ended == job.mode = "end"
Outcomes == Run(program.source, "nil")

\* How an outcome of the body leaves it.
LeavesAs(o) ==
    CASE o.kind = "return" /\ program.closure # "block" -> "normal"
      [] o.kind \in {"break", "next"} /\ program.closure = "lambda" -> "normal"
      [] OTHER -> o.kind

TypeOK ==
    /\ phase \in {"walk", "worklist", "straight", "done", "failed"}
    /\ job.mode \in {"body", "dead", "probe", "suffix", "end"}
    /\ job.region \in 0 .. (IF job.mode = "dead" THEN Len(dead) ELSE Len(Regions))
    /\ \A b \in Block : states[b] # None =>
          /\ states[b].flow \subseteq {"normal", "raise"} /\ states[b].flow # {}
          /\ states[b].exception # None => states[b].exception # Never
    /\ DOMAIN result.abrupt = Kinds \union {"raise"}

(***************************************************************************)
(* Every way the body can be left is in its result, with the value it      *)
(* leaves with and, where the code around it goes on, the value of x.      *)
(* (An exception a call may raise anyhow is not part of a result.)         *)
(***************************************************************************)
Covered(o) ==
    CASE LeavesAs(o) = "normal" ->
            /\ o.value \in result.normal \/ Anything \subseteq result.normal
            /\ result.x # None /\ o.x \in result.x
      [] LeavesAs(o) = "raise" -> o.value = "Err" => result.abrupt["raise"] # Never
      [] OTHER -> o.value \in result.abrupt[o.kind]
OutcomesCovered == Ended => \A o \in Outcomes : Covered(o)

(***************************************************************************)
(* "A handler must not accidentally make a normal path reachable": a body  *)
(* has no kind of outcome that Ruby does not give it.                      *)
(***************************************************************************)
NothingInvented ==
    Ended => LET real == { LeavesAs(o) : o \in Outcomes }
             IN  /\ result.normal # Never => "normal" \in real
                 /\ \A k \in DOMAIN result.abrupt : result.abrupt[k] # Never => k \in real

(***************************************************************************)
(* Every state is well formed, and no body is given up for want of an      *)
(* operand: it is there wherever control arrives, also in handlers entered *)
(* from the middle of a block.                                             *)
(***************************************************************************)
StatesComplete == TypeOK /\ phase # "failed"
=============================================================================
