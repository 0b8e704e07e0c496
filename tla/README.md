# typey in TLA+

typey is a static type inferencer for Ruby: it parses a workspace with Prism, registers its declarations, lowers method
bodies to an owned HIR and to control-flow graphs, infers a type summary for every method by iterating to a fixpoint, and
publishes diagnostics from a last pass over the settled summaries. It is one single-threaded batch program. Nothing in it
waits, crashes and restarts, or talks to a peer; what makes it hard is *order*: a worklist over CFG blocks inside a
worklist over methods, dependency edges recorded while evaluating, tables that evaluation itself changes, and a type
algebra whose laws both worklists rely on to end.

Source paths below are relative to the repository (`src/types.rs` is the file `src/types.rs` of the repository;
PROJECT.json cites it as `src/src/types.rs`, because the repository itself sits under `src/`).

## 1. The system

    main / workspace ──> prism ──> declarations (one walk per workspace) ──> registration
                                              │ classes, methods, aliases, contracts
                     Analyzer::run  (infer/runner.rs)
                       seed ─> round ─> ... ─> round ─> final ─> diagnostics
                          │ evaluates top-level chunks, namespace bodies, method definitions
                          ▼
                     owned definitions / blocks ──> CFG body transfer (infer/cfg_transfer/*)
                          │    │ a call: lookup, then binding       │ runs
                          │    ▼                                    ▼
                          │  method_lookup.rs, signature_calls.rs   cfg/transfer.rs  block worklist
                          │ reads, writes                           │ states: infer/environment.rs
                          ▼
                     shared tables: class graph, aliases, lookup caches, method summaries, ivars, constants,
                     class variables, caller edges, shared-read edges     (types joined with types.rs)

| Component | State it keeps | Operations | What makes it correct | Status |
|---|---|---|---|---|
| Type algebra, `types.rs` | none (pure) | union, join, meet, intersection, without, truthy and falsy part, refine, subtype | join is an upper bound, idempotent, independent of order; narrowing never removes a value that may be there | modelled |
| CFG lowering, `cfg/lower.rs` | block list and loop/ensure/rescue stacks of the body under construction | one lowering per HIR form | each Ruby control path is a CFG path, no others; ensure bodies on every exit | partly |
| Block scheduler, `cfg/transfer.rs` | states per block, heap, queued flags | straight-line path, pop, propagate, finish | the returned states are a solution, the least one, whatever the numbering; it ends | modelled |
| Block transfer, `infer/cfg_transfer/body.rs` and others, `infer/cfg_state.rs`, `infer/flow.rs` | environment, pending outcome and exception of a block state; normal and abrupt types of a body | one transfer per operation and terminator, exception edges, outcome routing | every outcome of a body is in its result, dead paths do not come alive | partly |
| Environment and narrowing, `infer/environment.rs`, `predicate_flow.rs`, `cfg_transfer/value.rs`, `patterns.rs` | types and facts of locals and ivars, aliases of predicates, hash shapes | bind, narrow, invalidate, join | no fact outlives what it is about; no arm a value takes is called dead | partly |
| Analyzer transactions, `infer.rs`, `context.rs` | copy-on-write tables, snapshots | begin, commit, roll back | an abandoned evaluation leaves no trace | partly |
| Method-summary fixpoint, `infer/runner.rs`, `fixpoint.rs`, `shared_state.rs`, `method_state.rs` | summaries, shared variables, dependency edges, changes of the pass | seed, round, final; observe call, read, write, commit | readers of a changed fact are evaluated again; the published pass agrees with the summaries; it ends | partly |
| Owned definitions and blocks, `owned_definitions.rs`, `owned_blocks.rs` | scope of one evaluation | bind parameters, evaluate, record results | results of a key are joined over its definitions | partly |
| Declarations and registration, `declarations.rs`, `registration.rs`, `signature.rs` | stacks of what is open; class, method, alias and signature tables | one visitor per statement; normalize, register | the tables say what Ruby makes of the same statements, whatever the order of files | partly |
| Method resolution, `method_lookup.rs`, `dispatch.rs`, ... | class graph, two lookup caches, caller edges | ancestor and singleton lookup, super, mixin, alias, schedule dependents | Ruby's resolution order; no stale answer | partly |
| Signatures and calls, `signature_calls.rs`, `method_types.rs`, `cfg_transfer/arguments.rs` | parameter summaries of a method | materialize, select an overload, observe, report | evidence covers what Ruby binds and no more; what is reported is wrong in Ruby | partly |
| Framework hooks | none | known library calls, `included`/`extended` | | partly |
| Workspace, directives, diagnostics, HIR, Prism bridge, conformance tools | file list, emitted diagnostics | discover, load, sort, print; syntax-directed translation | | not modelled |

How they interact. The registrar walks all files once and fills the tables; `Analyzer::run` is the only loop over methods.
An evaluation reads summaries and shared variables *in the middle of* a pass and writes parameters and shared variables
at once, while return summaries are collected and committed at the end of the pass: facts of one pass are partly old and
partly new. Edges (who called whom, who read what) are recorded as a side effect of these reads and decide what the next
pass evaluates. A call looks a method up in tables other bodies change (a hook that includes a module, `alias_method`,
`Class.new`), and observes its arguments in the summary it found. Inside an evaluation, the block worklist interprets the
body; its states are joined with the same `Type::join` as the summaries.

Hard behaviours: both worklists have *no limit on their number of steps* (the comment at `runner.rs:437-440` says so
on purpose), so each law of the join that fails is a hang; an edge not recorded, or erased too much, is a stale
diagnostic nobody notices; exceptional and pending outcomes are joined with normal ones in one block state; a fact about a
local may outlive the value it was learned from; a cache may outlive the graph it was filled from. The complete list,
each at its line, is `hazards` in PROJECT.json.

## 2. Modules

| Module | Role |
|---|---|
| `Dataflow` | the constants the scheduler and its abstract specification share: bodies, states, join, the host; what a solution and a least solution are; the laws of a good host |
| `BlockWorklist` | `cfg/transfer.rs`: the scheduler with both of its paths |
| `ChaoticIteration` | abstract specification: absorb any edge, in any order, finish when nothing is left |
| `DataflowLaws`, `MCBlockWorklist` | the laws as assumptions; the bodies and hosts TLC checks |
| `BlockWorklist_proofs`, `BlockWorklistLeast_proofs` | theorems |
| `TypeLattice`, `NominalTypes`, `MCTypeLattice` | the algebra of `types.rs` and the class tests of `predicate_flow.rs`, against the sets of values types stand for |
| `GradualLoop` | `BlockWorklist` on one real loop body, with the real join of `TypeLattice` |
| `RubyFlow` | the statements whose control flow is lowered, and what Ruby does with them: the reference for the next two |
| `CfgLowering` | the builder of `cfg/lower.rs`: statements to basic blocks |
| `BodyTransfer`, `MCBodyTransfer` | `eval_cfg_body_owned` and `transfer_block` on those blocks; an INSTANCE of `BlockWorklist` runs them |
| `Environment` | `infer/environment.rs`: one program point, every operation on it, and its join |
| `FlowNarrowing`, `MCFlowNarrowing` | what conditions, assignments, cases and blocks do to an environment, beside a store that runs them |
| `FlowLaws` | what the algebra has to obey for that to be right, as assumptions, and the inductive invariant |
| `Narrowing_proofs`, `FlowNarrowing_proofs` | conditions and joins keep the invariant; so does every step |
| `Fixpoint`, `MCFixpoint` | the method-summary fixpoint and the sources TLC checks it on |
| `Fixpoint_proofs` | the tables agree, contracts keep what they learn, the final pass finds nothing new |
| `MethodLookup` | the class graph, the ancestors in the order they are asked, aliases, super, the self of a module's methods |
| `MethodTables`, `MCMethodTables` | the tables behind lookup while bodies change them: caches, callers, scheduling, rollback |
| `MethodTables_proofs` | the caches are never stale; a rolled back body leaves nothing |
| `RubyCall` | how Ruby binds arguments to parameters: the reference for the next |
| `CallBinding`, `MCCallBinding` | what a call shows a summary, which overload it is given, what is reported |
| `CallBinding_proofs` | calls that are written out are bound, observed and reported as Ruby binds them |
| `RubyModules` | what Ruby makes of class bodies, definitions, mixins and visibilities: the reference for the next two |
| `ConstantNames` | how the registrar names classes and resolves references |
| `Declarations`, `MCDeclarations` | the registrar, the pairing of signatures, and `register_methods` |
| `Declarations_proofs` | every def has the owner Ruby gives it |

Which uses which: `BodyTransfer` instantiates `BlockWorklist` (as the code's `TransferHost`); `GradualLoop` composes
`BlockWorklist` with `TypeLattice`; `MethodTables` extends `MethodLookup`; `FlowNarrowing` extends `Environment`; both
take the type algebra as a parameter, whose soundness is the `lattice` run's business. Four modules are references
written from the language and from no code: `RubyFlow`, `RubyCall`, `RubyModules` and the last section of `MethodLookup`
(`RubyOrder`). They are marked external in `map`, but for the trees of `RubyFlow`, which are the expressions of `hir/mod.rs`.

### `BlockWorklist`: the code, variable by variable

`states`, `pending`, `queued` are the locals of `run_from_with_straight_line_path` (`transfer.rs:99-123`); `pending` is
the `BinaryHeap` as a bag, so that a duplicate would show. `path` is the vector of `straight_line_path`.

| Action | Code |
|---|---|
| `Walk` | one turn of `straight_line_path`'s loop (163-186); leaving it without a path queues the start block |
| `Pop` | `pending.pop()` and the call of the host (125-136): the smallest id; an unreached block or a host error fails the run |
| `Propagate` | one edge of the loop at 137-150: join, compare, push unless flagged; an edge to no block fails |
| `Finish` | the heap is empty |
| `StraightStep` | one block of `run_straight_line` (188-238): only the first edge is looked at, and it has to be the path's |

The host (`BlockTransfer`) is the constants `Edges` and `Fails`: a function of program, block and state. `JoinState`
is `join_state` of `cfg_transfer/body.rs:2010-2024`.

### `TypeLattice` and `NominalTypes`

Types are tuples headed by their constructor; each operator is named for the function it translates and mapped to it.
`Denotes(t)` is the reference: the sample values a type describes, written from the meaning of the type and from no
code. `Any` and `Anything` describe every value; they are *gradual*, and a property about values says how it reads them.
`BoundProc`, `AttachedClass` and `AttachedClassOf` are left out: they take the branches of `Proc` and of type variables.
Display text matters once: `sort_canonical_members` orders members by it; `Rank` is that order over the universe.
`NominalTypes` adds declared classes and modules: assignability, `meet_predicate_type`, `without_predicate_type`,
`case_match_reachability`.

### `Environment` and `FlowNarrowing`

`Environment` is a record with one field per table of `Environment` in the code: `locals`, `inferred`, `provisional`,
`openArray`, `nonempty`, `responds`, `alias`, `truthiness`, `shape`. Its operators are the methods of the same names.
`FlowNarrowing` runs a body *beside a store* that holds the values: a branch follows the store, the environment of the other
arm waits in `saved` for the join. `guess` are the names whose type is only a sample of the calls seen.

| Action | Code |
|---|---|
| `Do(s)` | an assignment, logical assignment, append, hash write, in the body or in a block that may run any number of times (`assignment.rs`, `collections.rs`) |
| `Branch(c, s, leaves)` | an `if` on a condition (atoms, `!`, `&&`, `\|\|`, `&.`), with one assignment in its arm; `leaves`: the arm returns |
| `Case(n, class, leaves)` | one `when` of a `case` |
| `Merge`, `Stop` | the join after the conditional; the end |

The algebra is the exact one, sets of values, so a value that is lost is lost by the flow, not by a type being imprecise.

### `Fixpoint`

A *unit* is what the analyzer evaluates in one go: a top-level chunk, a namespace body, a method definition. Its code
is the sequence of its operations that touch the tables, over one value (`reg.type`); how a whole body computes that
value is the block transfer's business.

| Variable | Code |
|---|---|
| `methods` | `declarations.methods`: parameter, return, `terminates`, raises of a key |
| `shared`, `initialized`, `provisional` | `ivars` / `constants` / `class_vars`, `initialized_ivars`, `provisional_ivars` |
| `callers`, `reads`, `readers` | `fixpoint.method_callers`, `method_shared_reads`, `shared_readers` |
| `results`, `changed` | `fixpoint.pending_returns` and `pending_raises`, `changed_methods` and `changed_shared` |
| `phase`, `todo`, `pc`, `reg` | where `Analyzer::run`, `eval_scheduled_method_definitions` and the evaluator are |

| Action | Code |
|---|---|
| `EndSeed`, `EndRound`, `EndFinal` | the passes of `Analyzer::run` (`runner.rs:395-560`), with `commit_inferred_returns` and the choice of what to evaluate next (`Affected`) |
| `Begin` | `begin_method_evaluation` (`shared_state.rs:229-246`) |
| `Param` | a parameter as `owned_definitions.rs:405-530` binds it |
| `Call`, `Send` | `record_method_dependency`, `observe_call`, the result type with both widenings, `finish_call` |
| `Raise`, `Guard` | an exception; a conditional early return |
| `Read`, `Write`, `Set` | `ivar_type` / `constant_type` / `class_var_type`, the `observe_*` of each, `instance_variable_set` |
| `End` | `eval_owned_method_definition` recording return and exceptions (299-342) |

Simplifications of `Fixpoint`, all of the *inputs*: namespaces are flat (lookup is `MethodTables`' business), a method has
one parameter (binding is `CallBinding`'s), no globals, no nested or dynamic definitions, no bodies of the always-replayed
kind, no block returns or yield summaries, no evaluation errors, no receiver that is a union with nil, no overridable
no-return widening and no container widening of recursive results.

### `CfgLowering` and `BodyTransfer`

Three layers. `RubyFlow` has the statements as trees and `Run(s, x)`, the set of outcomes (kind, value, value of the
local `x`) Ruby gives a statement. `CfgLowering` is `lower.rs` for them, one operator per `lower_*` method, threading the
builder through and creating blocks in the order of the code, because the ids are the scheduler's priorities.
`BodyTransfer` is the host: `TransferBlock(p, b, s)` is `transfer_block`, with an operator per terminator, and is given to
`BlockWorklist` as `Edges` and `Fails`.

| State | Code |
|---|---|
| a block state: `values`, `x`, `flow`, `normal`, `exception`, `outcomes` | `BlockState`: `values`, `environment`, `flow`, `normal_reachable`, `pending_exception`, `pending_outcomes` |
| `result` | `normal_type`, `abrupt`, `final_environment` of `BodyTransfer` |
| `probed` | `probe_normal_type` |
| `dead` | `unreachable_probes`, with the states the arms were found in |
| `job`, `main` | where `eval_cfg_body_owned` is, and the `WorklistResult` of its first run |

| Action | Code |
|---|---|
| `Visit`, `Schedule` | the steps of the scheduler; `Visit` also adds what interpreting the block adds to the result |
| `EndBody` | the run on the body is over (`body.rs:924-975`); the arms it found unreachable are next |
| `EndDeadArm` | one of them was run (`transfer_unreachable_probes`, 701-745) and nothing is kept of it, but that it may find more of them; after the last, the first rescue region is probed |
| `EndProbe` | a handler was run from a synthetic exception (975-1062): what an unreached handler yields joins the result, and what follows the begin is run again with it |
| `EndSuffix` | that second run is over; the next region |

A `Branch` carries what the code finds by searching the graph backwards: the pattern of its test, the statement the test
is about, the join of its `Conditional`. `BranchReachability` and `BranchState` then decide per pattern (truth, nil, class,
iteration) which arms are taken and what the tested value and `x` are in each.

A type is a set of classes. Simplifications: one local variable, whose narrowing is the part that routes control
(`FlowNarrowing` has the rest: facts, aliases, shapes, gradual types); a parameter that may be true or nil; exceptions are a
`StandardError` any call may raise and an `Err` that `raise` raises; bodies of methods, and of blocks and lambdas inside
of methods; a begin has a body (`may_raise` is true); a case has a scrutinee and its conditions are classes. No globals, no
rollback: a transfer that fails ends the model in phase `failed`, which `StatesComplete` forbids.

### `MethodLookup` and `MethodTables`

`MethodLookup` carries the recursion of `method_lookup.rs:229-400` as an agenda of steps still to take, so that it is a
recursive *function* and the tables can be proved about. `tables` is what a snapshot saves:

| Field | Code |
|---|---|
| `classes`, `methods`, `aliases` | `declarations.classes`, `.methods`, `.method_aliases` |
| `cache`, `hosts` | `method_resolution_cache`, `instance_self_type_cache` |
| `callers`, `changed` | `fixpoint.method_callers`, `changed_methods` |
| `seen` | a ghost: what the latest evaluation of a unit was told |

| Action | Code |
|---|---|
| `Begin`, `End` | the evaluation of a unit |
| `Operation` | a call, a super, a mixin by a hook (`framework_hooks.rs`), `alias_method`, `Class.new`, a def in a block bound to a class (`dispatch.rs:440-560`, `owned_definitions.rs:131`) |
| `Open`, `Close` | `eval_cfg_body_owned` of a nested body; a snapshot is taken only if the body may fail in a known way (`infer.rs:250-300`) |
| `GiveUp` | the body cannot be transferred: roll back to the snapshot, if there is one (`infer.rs:480`) |
| `EndSeed`, `EndRound`, `EndFinal` | the passes, as in `Fixpoint` |

### `CallBinding`

One method, given by its shape and maybe by up to two contracts, and its calls. `state` is the `MethodState`;
`Transfer(c)` is one transfer of a call: `Arguments` (`arguments.rs`, splats and keywords), `SelectOverload`,
`ObserveCall` and what `invoke_signature_at_site` reports, kept in `verdicts`. Rounds repeat in any order of the
calls until nothing changes (`NextRound`, `Settle`). The reference, `RubyCall`, lists the concrete calls an abstract one
stands for (a splatted array of any length up to `Longest`) and binds each.

### `Declarations`

A program is not given: every step *writes* the next statement and visits it, so that a run is a program of the theme and
every nesting of bodies occurs. `registrar` has the stacks of `MethodRegistrar`, `tables` are the fields of
`DeclarationState`, `pending` the signatures waiting for their definition (`signature.rs`), `world` what Ruby makes of it.
One action per visitor or per branch of `visit_call_node`; `NextFile` starts another file, source, RBI or builtin RBI;
`RegisterMethods` is the whole of `register_methods`, with `NormalizeClassGraph`, `GenerateStructMethods` and the contract
of every key (`Reconciled`). A name is a path; a signature is the offset it stands at. Which statements may follow is the
parameter `Written`. `Regular` is what it must imply for the owners to be right, `AllowedHere` in `MCDeclarations` adds what
the other properties need; what the two exclude is listed in section 3.

## 3. Runs

| Run | Shows | Bounds |
|---|---|---|
| `worklist` | the seven properties of `BlockWorklist` | every body of 3 blocks out of 19 shapes, two facts, with and without a host error |
| `lattice` | six laws and soundness properties of the algebra and of class tests | a slot shown any three of 27 types, in every order; four classes, one of them a module |
| `fixpoint` | the five properties of `Fixpoint` | 5328 sources, each one top-level chunk, one body, three or four definitions, one constant or class variable, one ivar |
| `body_transfer` | the three properties of `BodyTransfer` | 6,478 bodies of at most 30 blocks: every combination of a protected body (quiet, raising, raising half-way), clauses, else and ensure; begins in begins, in handlers and in loops; every exit through one ensure and two, out of methods, blocks and lambdas; conditions that read, assign or do both, logical and safe-navigation operands, cases of up to three arms, `for`, alone, under a rescue and under an ensure; 227,814 states |
| `flow_narrowing` | the five properties of `FlowNarrowing` | two locals and an ivar; families of bodies of up to five steps, each about one kind of narrowing |
| `method_tables` | the five properties of `MethodTables` | 558 sources: two classes, two modules, changes seen by a caller, by super, by the self of a module's methods, by top-level code, and made in bodies that fail |
| `call_binding` | the four properties of `CallBinding` | 6033 methods: nine parameter shapes, up to two overloads, one or two calls; splatted arrays of up to two elements |
| `declarations` | the five properties of `Declarations` | eleven themes; programs of five to nine statements, in up to three kinds of files |
| `gradual_loop` | *violation* of `Terminates` | one loop body of nine blocks |
| `fixpoint_mutual` | *violation* of `Terminates` | one source |
| `ensure_return` | *violation* of `OutcomesCovered` | four bodies |
| `stale_alias` | *violation* of `AliasesHold` | one family of bodies |

Why the bounds are enough. Three blocks hold a diamond with a back edge, a loop with a self loop, a handler reached
from a block in a loop: every way for an update to be lost needs a block, a successor whose state grows after a visit
and the edge back. Two facts make join and overwrite, and first and newest state, different. Three observations are
what it takes for a merge to enable another merge. Three methods hold recursion, mutual recursion with an outside
caller, and a chain whose end changes last. Routing an outcome needs an ensure inside another, and a handler between them;
a probe of a handler needs a body without a call, its suffix a statement after the begin that reads `x`. A stale fact needs
something to learn it from, something that invalidates it, and a test that uses it: three steps, and two more
for an arm that leaves. A stale lookup needs a call, a change after it, and a receiver below the class that changed; a
rollback that leaks needs one body in another. A binding goes wrong between a rest, what stands before it and what stands
after it, and between the first and the second call. A stack that is left too long shows after a body within a body
and a statement behind them: seven statements.

### The properties

- `FlagsMatchHeap`, `Settled`, `StableResult`, `LeastResult`, `RefinesChaotic`, `Terminates` of `BlockWorklist`: the two
  records of the queue agree; no update is lost at any point of a run; the result is a solution; the least solution, so
  that the numbering of blocks decides nothing; each step is one of chaotic iteration; it ends.
- `JoinStable` (`Absorbs`, `OrderIndependent`): a slot absorbs what it was shown and does not depend on the order.
- `OrderSound` (`JoinSound`, `SubtypeSound`): a join and a supertype describe every value of what is below.
- `CutSound` (`MeetSound`, `WithoutSound`, `BranchesCover`): narrowing loses no value that passes the test, and the two
  branches of a condition cover its value. `RefineWithin`: refining a contract stays within it.
- `TestSound`, `ArmsAlive`: a class test drops no instance on either side, modules mixed into subclasses included; a `case`
  arm some value takes is not called dead.
- `OutcomesCovered`: every way Ruby lets a body end is in typey's result, with its value and the value of `x`.
  `NothingInvented`: no kind of outcome Ruby does not give it. `StatesComplete`: no handler or ensure body, entered from
  the middle of a block, misses an operand.
- `EnvironmentDescribes`, `FactsHold`, `AliasesHold`, `ShapesHold`, `BranchAlive`: types, truthiness, proven methods,
  predicate aliases and hash shapes are true of the store at every point; no arm the store takes is called dead.
- `EdgesAgree`, `FinalCovered`, `FinalQuiet`, `RefinementKept`, `Terminates` of `Fixpoint`: the two indexes of shared reads
  are one relation; a method's published value is covered by the summary its callers saw; the published pass changes
  nothing; what evidence made of the `T.untyped` of a signature is not lost again; the rounds end.
- `CacheCurrent`, `AnswersFresh`, `NothingLeaks`, `DispatchOrder`, `Terminates` of `MethodTables`: no lookup is stale; every
  method ends with the answers of the final graph; a rolled back body leaves no trace; ancestors are asked in Ruby's
  order; the rounds end although evaluation changes the graph.
- `EvidenceExact`, `ErrorsAreReal`, `AcceptedCallsFit`, `PassedAliasHolds`: a quiet summary holds what Ruby binds, no less
  and no more; what is reported can fail in Ruby; a call that is accepted fits its overload; a parameter narrowed through
  the expression it comes from does come from it in every call.
- `DefinitionsOwned`, `ContractPrecedence`, `MethodsAnswer`, `VisibilityKept`, `ClassesAgree`: every def is recorded under
  the class Ruby defines it in; a method has the signatures Ruby pairs with it, those of the source before those of RBI files
  before builtin ones, where section 8.1 of `docs/08-...` and the code agree; an alias reaches
  the body it names; visibilities are Ruby's; superclasses, mixins and generic members are those the names mean.

The type invariant of a module is a conjunct of one of its properties, or (`worklist`) a property of its own.

### Where the model and the documentation disagree

Each violation run is one real source; the `findings` of PROJECT.json quote the line that says otherwise.

1. `gradual_loop` (`types.rs:265`): `Any.join(Anything)` is `Anything` and `Anything.join(Any)` is `Any`. A loop with an
   arm of each never settles.
2. `fixpoint_mutual` (`runner.rs:317`): a return summary is replaced, not joined. The two methods of
   `def n; m(nil); end` / `def m(v); return new unless v; n; end` / `def go; m(1); end` exchange their summaries forever.
3. `ensure_return` (`body.rs:1938`): `EnsureComplete` sends the normal edge only if no outcome is pending *in the joined
   state*. After `begin; return a if c; b; ensure; x = c; end` everything is dead code to typey. The test makes the
   transfer non-monotone, so `LeastCorrect` below does not apply to such bodies.
4. `stale_alias` (`environment.rs:94`): binding a local drops its own alias, and none that has it as source. After
   `y = x.nil?; x = 1` a test of `y` still narrows `x`; `docs/04-flow-analysis.md:103-104` says otherwise.

The passing runs are chosen *beside* what is known to differ from Ruby or from the documentation. What each leaves out:

**`lattice`.** `Anything` (1.), and the pair of a homogeneous array with a tuple of an untyped position:
`Array[Integer] ⊔ [T.untyped]` is `Array[Integer]`, which neither absorbs the tuple nor is independent of the order
(`types.rs:224`). `falsy_part(Object)` is `Never`, where `docs/02-types-and-lattice.md` says an `Object` may still be false
or nil; `BranchesCover` is stated for slots without `Object`.

**`fixpoint`.** Each exclusion has the name of the hypothesis of `Heard` (section 4) it breaks. *ReadsWritten*: no ivar whose
first write comes after a read of its absence (`shared_state.rs:587` leaves no edge). *GuessesFirst*: no ivar with a provisional
and an untyped writer (`shared_state.rs:318` marks it provisional again, for ever). *LastReads*: no shared read in the
earlier of two definitions of a key (`shared_state.rs:229` erases it). *RoundsSettle*: no namespace body that still has to be
replayed when no method is scheduled (`runner.rs:442`). No asymmetric mutual recursion (2.).

The proof of `FinalQuiet` asked for four more that the programs of the run do not contain. The first three let the final pass learn
something the rounds had not seen; each was confirmed with TLC on a program written for it. *SetsSettled*: `observe_dynamic_ivar`
(`shared_state.rs:346-360`) does not take the ivar out of `provisional_ivars` as a write does, so what `instance_variable_set`
adds to a guess is dropped by the next write of a known type (`shared_state.rs:313`) and only comes back in the final pass.
*RoundsSettle* again: the reads of top-level code leave no edge, having no method key (`shared_state.rs:248`), so a variable that
the last round changed is read anew by the top level in the final pass. *NoSelfCall*: a method that calls itself is given `Never`
by the rounds and its summary by the final pass (`method_lookup.rs:80`), so `def m; @x = m; 1; end` types `@x` only there. And
without a method there is no round at all (`runner.rs:442`): namespace bodies are first replayed in the final pass.

**`body_transfer`.** A return beside a completion in an ensure (3.). `break`, `next` and `retry` in a loop skip the ensure
bodies between them and the loop (`lower.rs:2090`). An ensure body that starts with a `begin` or a loop ends its
entry block with a Jump; `is_rescue_entry` holds for it too, so the pending exception is dropped there and the code after
the `end` looks reachable (`body.rs:1783`). A `return` in an ensure body that only an exception reaches is not in the
result. The value of a handler nothing reaches is merged into the result even if the `else` beside it never
completes (`body.rs:1038`). A logical expression used for its value whose left operand is not a plain read and whose right
one reads the local: see *operand* below. A `case` in an ensure body: a case test takes the pending exception for
handled (`body.rs:678`), as it must in a rescue, so the exception is swallowed. A `for` over a local its body writes: the
iteration test binds the local to the collection again in every round (`patterns.rs:60`). A condition that tests a
local and then assigns it, `x && (x = nil; a)`: the predicate is read of the new value. A `for` nothing breaks out of is
worth nil to typey and its collection to Ruby (`lower.rs:1991-2005`): in the run a statement follows it.

**`flow_narrowing`.** The constant `Excluded` names six shapes. *alias*: an assignment to the source of an alias (4.).
*refinement*: an ivar refined in one arm only: `join` keeps what one side holds (`environment.rs:538`), where
`docs/04-flow-analysis.md:50-53` says a fact is retained only if it is valid on every incoming path. *placeholder*: a local
that holds an untyped array or hash. *optional*: a nil written under a key that one path only added: the write is checked against the shape and the hash's type is not widened (`calls.rs:694-722`). *operand*: the value of `&&` or `||` whose left operand
is a test. The test of the left operand carries the whole expression (`lower.rs:588-596`), and `branch_pattern_source`
(`patterns.rs:272-293`) narrows the right operand by it: in `x.nil? && y` the nil of `y` is lost, in `x.nil? || y` `y` is read
as falsy, where `docs/04-flow-analysis.md:74-76` says a disjunction must preserve alternatives. *respond*: a write to a name
`respond_to?` was asked of, where the fact stays. `bind` clears it under the key of a local only (`environment.rs:105`),
while that of an instance variable is kept under another (`value.rs:573`); and `local_facts_unchanged` compares it under the
bare name, where nothing is kept (`environment.rs:338`), so a block that writes the local may count as one that changes
nothing. Both came out of the proof: the invariant was not inductive. Other known limits of
the code: a non-empty array stays non-empty after a mutating call; a block is transferred once; `x ||= nilable` strips nil; a
call does not invalidate ivar refinements; narrowing closes an open array; a write with a dynamic key; one container
behind two locals; a negated `&.`; `===` on an inferred local drops the inferred mark. `narrow_from_predicate`,
`predicate_reachability`, `predicate_is_precise`, `predicate_alias_for_value`, `join_flow_environments`,
`refine_local_array_write` and `refine_local_hash_write` are called by nothing.

**`method_tables`.** A module that is mixed in between a method and its super leaves the caller of super unscheduled: the
edge is recorded under the method super found, which lies above the class that changed (`method_lookup.rs:57`). Likewise
a module that extends a class and gains an include later, mixins into `Class` seen by class methods, graphs with
`requires_ancestor`, calls in bound blocks (no edge is recorded), a def in a bound block whose name was looked up before,
a call on an anonymous class before it exists. Two `alias_method` calls of one name with different targets
schedule their dependents for ever (`dispatch.rs:546`). `DispatchOrder` compares order only where no module is reached on
two ways; in diamonds the order differs from Ruby. A super in a module never reaches the host's ancestors, a dynamic
prepend is recorded as an include, a dynamic include of a concern adds no class methods, a dynamic include into an
absent owner creates a class without a superclass, and a snapshot is taken only when `cfg_body_needs_transaction` says so
(`docs/12-cfg-transfer-completion.md:619-628` speaks of every body).

**`call_binding`.** An overload with a `**rest` takes a declared keyword of the wrong type, is chosen before one that would
fit, and the keyword is reported then (`signature_calls.rs:325-337`); the values of a splatted `**h` are not checked against
declared keywords; an omitted optional beside trailing parameters; trailing parameters of Sorbet sigs (not counted as
required); a sig that names `**opts` (it becomes positional, against `docs/08-...:414`); a splat of an array followed by
positionals; elements of splatted arrays (never observed); typed arguments beside an unknown splat, `...` or an
untyped recursive call (not observed); a prefix before `...` (observed as trailing parameters); `**untyped` to a method
without keywords (counted as an argument); an unknown keyword to `new` (never reported); a sig that does not name an
optional parameter; the merged fallback for a call no overload accepts; evidence for an explicit `T.untyped` after
other calls refined it. `new(*untyped)` is reported as too few arguments (`signature_calls.rs:578`), where
`tests/fixtures/splat_comparison.rb:56-58` says an unknown splat is not an empty list.

**`declarations`.** `Regular` in `Declarations` and `AllowedHere` in `MCDeclarations` are the list. Visibility: `private :m`, `private def` and
`private_class_method :m` on a source def have no effect, as `register_methods` puts the first `definition_state` back;
`private` followed by `def self.x` makes x private; an accessor under `private` stays public; `module_function` leaves the
instance method public. Ownership: `::A.class_eval do def m` (and `instance_eval`, `module_eval`) records m under the owner `"::A"`, which
no class has: `dynamic_definition_target` (`declarations.rs:1136-1147`) takes the text `scope_reference` gives, root marker included
(`:1354-1359`), and `definition_key` (`:1085-1089`) does not trim it, as the mixins do (`:798`). The model says so too (`NameText`), and
`Regular` admits only receivers without the marker. `def self.x`, classes, attributes, aliases and mixins in a `class_eval` block belong
to the enclosing class; an `include` in `class << self` is recorded for instances; `extend` there is never
resolved; `def A.m` keeps the text of its owner. Redefinition: the first body counts, an accessor is kept
when a def overrides it, an alias onto an existing def is ignored, a redefinition after `alias_method` changes the alias (its
target is a key). Contracts, in two cases of which `ContractPrecedence` says nothing and which
no program of the run has. (i) *A source def without a signature that an RBI file, project or builtin, describes*: the table of
`docs/08-clean-room-rbi-signature-and-inference-design.md:550-562` puts RBI signatures above the inferred source body and says that
such a def can receive the project's contract; `registration.rs:384` and `:400` skip it, and a comment there (`:379-383`) wants the inferred
body to stay. Code and documentation disagree; `Contract` is what the code does, `Described` what the documentation says, and without
`OneContract` in `AllowedHere` TLC finds them different after four statements. (ii) *An `attr_*` in the source after an RBI file declared its name*:
accessors are registered during the walk with `or_insert` (`declarations.rs:1216`), so the accessor's own state, signature included, is
dropped and the RBI declaration's stays; in the other order a signed accessor keeps its own and an unsigned one takes the RBI signature. The `accessors` theme has the second order, signed and
unsigned, with the RBI file signed or not. Annotated accessors are written in source files only. An unsigned source def that an RBI
file declares without a signature starts with an untyped return (`registration.rs:420-437`); the property claims an untyped return
only of methods the source does not have. Of several `#:` lines the last counts. Names: a reference is looked up again when all classes are known, so a class of the same name that comes
later captures it; `module M; class A < ::A` inherits from itself, because `normalize_class_graph` trims the root marker
(`type_system.rs:472`; the comment at `declarations.rs:1355` wants it kept); a qualified class name in a nested scope
is resolved against the innermost scope only; inherited constants are not looked up. Generics: a class that is reopened
and declares `K = type_member` again gets an index twice (`declarations.rs:727`), one past the arguments if it
is the only member. Concerns and `mixes_in_class_methods` count for direct includes only; a subclass of a subclass of
`T::Struct` gets no initializer. `Init` assumes the RBI of the core library was visited first (paths are sorted: in a
workspace given as `.` it is not).

### Fairness

The liveness runs of `worklist`, `fixpoint` and the violations assume `WF_vars(Next)` and nothing more: the program is one
thread of straight-line Rust without a wait, so as long as a step is possible one is taken. No action is singled out.
`method_tables` states the same without ENABLED, which would run every lookup twice: steps are taken for ever, or the run
is done (`[]<><<TRUE>>_vars \/ <>(pass = "done")`); `Next` is enabled until then, as the run without a deadlock shows. The
models are deterministic apart from their input and, in `call_binding`, the order of calls, so a counterexample is a run
of the program.

`body_transfer` and `flow_narrowing` have no liveness property: the scheduler is `BlockWorklist`, and what could keep it from
ending, a join that is not monotone, is the subject of `worklist`, `lattice` and `gradual_loop`. `call_binding` and
`declarations` stop where their programs end; `CHECK_DEADLOCK FALSE` says so. Everywhere else a finished model stutters
and deadlock is checked.

## 4. Proofs

### The scheduler

For every number of blocks, every set of states, every set of bodies and every host. Assumptions: `SizeAssumption`,
`ProgramAssumption`, `HostAssumption` of `Dataflow` (there is a block; a body's start is one of its blocks; the host
returns a sequence of edges), and for the theorems that name them the laws `Semilattice`, `Monotone` and `SingleEdge`.

`Inductive` proves `Spec => []IInv`, where `IInv` is

    TypeOK ∧ FlagsMatchHeap ∧ WalkShape ∧ StraightShape ∧ Quiet ∧ Grounded ∧ Settled

`Settled` alone is not inductive. On the straight-line path nothing is queued, and what keeps its blocks right is their
shape: `WalkShape` says that during the walk only the start has a state and that the blocks walked so far are distinct,
end in a Jump and have no unwind edge; `StraightShape` that on the fast path the head has a state, the blocks after it
have none yet, and each ends in a Jump to the next. `Quiet` says which variables sleep in which phase (no edges
and nothing queued off the worklist, a path only before and on the fast path), and `Grounded` that the start block's
state is above the initial one, which a solution needs besides settled edges. From `IInv`:

- `TypeCorrect`, `FlagsCorrect`, `SettledCorrect`: the conjuncts.
- `StableCorrect`: with an empty heap and no edges left, `Settled` says `IsSolution`; on the fast path, `StraightShape`
  with an empty path does.
- `LeastCorrect`: a second invariant, that every state is below the state of every solution, preserved because a
  monotone host sends no more than the solution's host does (`BlockWorklistLeast_proofs`).
- `Refinement`: initial states map to initial states; `Propagate` and `StraightStep` map to one `Absorb`, `Finish` to
  `Finish`, the rest to stuttering.

### The lookup caches

`CachesStayCurrent` of `MethodTables_proofs`: for every class graph, every set of owners and names and every program,
`Spec /\ [](~ Defines) => []CacheCurrent`: as long as no def is evaluated in a block bound to a class, both caches
always say what a fresh lookup would. The assumption is needed: such a def clears no cache (`owned_definitions.rs:131`). The
invariant `CInv` is that the current tables are well shaped and current *and so is every snapshot on the stack*, which is
what makes a rollback safe: it brings back a cache together with the graph it was filled from. The one operation
that changes the graph and keeps a cache is `Class.new`; `NewClassSelf` shows that a class nothing inherits from yet changes
no remembered self.

`NothingLeaksCorrect`: `Spec => []NothingLeaks`, with no hypothesis on the steps. The assumption on the programs
(`ProgramsAssumption`) says what the parser guarantees: nested bodies open and close in pairs, and one that gives up is
left behind its end (`IsNested`); and the lists of a class are lists, which registration keeps (`NormalizeLists`). `NothingLeaks`
speaks of the moments between units, when no snapshot is left; the invariant `LeakInv` has to say what may be there in the
middle of one:

- an operation is `Doomed` if it was done in a body that is known to fail and whose failure is still ahead; the tables are
  `Explained` if all they hold was there after registration, is made by an operation no rollback undoes, or by a doomed one;
- every open body has an entry on the stack, at the level of its depth; the entry is empty only if the body is not known to
  fail, and the tables kept in it were explained *when the body was opened* (`Keeps`).

Giving up is the step that needs it. With a snapshot, what the snapshot held and is not to stay was doomed by a
body around the one that fails, so it is still doomed behind its end (`DoomedAround`). Without one, the failing body itself
doomed nothing, and again only a body around it can have (`DoomedBeyond`). At the end of a unit nothing is open and nothing
can be doomed. That an operation adds only what it says (`AfterAdds`) holds whatever a lookup answers: caches,
callers and the ghost are no part of what is made.

### The method-summary fixpoint

For every program, every set of units, methods, keys and types, and any number of passes; assumptions: `KindsAssumption`
(joins and truthy parts of types are types; an empty slot is not a type), `ProgramAssumption` (a program is well shaped: a method's unit has a
method key) and, for `RefinementCorrect`, `GradualAssumption`: a join is untyped only if a side is, as in `Type::join`
(`types.rs:255-281`).

- `EdgesCorrect`: `Spec => []EdgesAgree`. `record_shared_read` adds an edge to both indexes and `begin_method_evaluation`
  takes every edge of its method out of both; nothing else touches them. `EdgesAgree` holds the typing of all tables and is not
  inductive: a commit joins an explicit contract with what was inferred, and a join with an empty slot is no type. The invariant is
  `IInv == EdgesAgree /\ Contracts`, `Contracts` being that an explicit contract always has a return.
- `RefinementCorrect`: `Spec => RefinementKept`. Under `IInv`, the only steps that change a summary are a commit and a call, and both go
  through `Combine` when the contract is explicit; a recursive call with an untyped argument is exempt from it, and is never explicit.

- `FinalCoveredCorrect` and `FinalQuietCorrect`: `Absorbing` implies `Spec /\ []Heard => []FinalCovered`, and, for a program with a
  method, `Spec /\ []Heard => FinalQuiet`. This is what a worklist is for: when nothing is scheduled any more, every body has seen
  the tables that are published. The hypotheses are about the program and what it meets on its way, and each is a place
  where the code does not see to it by itself (section 3): `NoSelfCall`, `ReadsWritten`, `LastReads`, `RoundsSettle`, `GuessesFirst` and
  `SetsSettled`, together `Heard`. `Absorbing` are three laws of joins: a type joined with itself is itself, a join absorbs its
  right side, and what has been absorbed stays absorbed. `Type::join` breaks the third where `Any` meets `Anything`, of which the last
  written wins (finding 1); that is why it is a hypothesis and not an assumption on the constants.

The two need an argument over whole rounds. It is about what a body *would* do: `After` is an instruction as a function of the
registers and the tables, `Quiet` says that it changes no table, and a *run* of a unit is a sequence of registers linked by
`After` in which every step is quiet. A unit is `Settled` if it has a run that is complete, whose value its summary covers, and
whose shared reads are all in the reader index. The invariant of a round (`RoundInv`) is `Marked`: every unit is still to come, is `Outdated`
(called or read something that has changed in this round, so the next one has it), or is settled; with `Recorded` (the units
to come have their reads in the index, or were never evaluated) and `Followed` (the unit being evaluated is outdated or so far follows a
run). A step that changes a table makes everyone who depends on it outdated, and no one else's run notices (`Reads` and the call
edges say who that is); a quiet step leaves all runs as they are. A last round schedules no one, so all are settled, its commit changes
nothing, and the final pass replays these very runs: `FinalInv` says that it does (`AllReplayable`, `Replayed`), and a replay is quiet.

TLC checked `RoundInv` and `FinalInv` before they were proved: on the 5328 sources of `MCFixpoint`, of which 4692 meet all
hypotheses to the end, and on 9000 random programs of more units and instructions, of which 6553 do. No hypothesis is idle: without
`ReadsWritten` or `LastReads` there is a program that violates `FinalCovered`, without one of the others one that violates `FinalQuiet`.

### Environments and narrowing

For every algebra of types, any names, keys, classes and literals, and bodies of any length made of the statements, conditions
and cases the module has: `Shapes \subseteq Excluded` implies `Spec => []P` for `P` each of `EnvironmentDescribes`, `FactsHold`,
`AliasesHold`, `ShapesHold` and `BranchAlive` (`EnvironmentSound`, `FactsSound`, `AliasesSound`, `ShapesSound`, `BranchesSound`):
apart from the six shapes of section 3 there is no other way for the environment to be wrong about the store. What is
assumed of the algebra is in `FlowLaws`. TLC evaluates the assumptions for the algebra of the `flow_narrowing` run. That the
code's own algebra obeys them is what the `lattice` run checks, law by law: `JoinLaw` is `JoinSound` and `MeetSound`, `PartLaw`
`BranchesCover`, `ClassLaw` `WithoutSound`, `TestSound` and `ArmsAlive`, `LiteralLaw` `SubtypeSound`. `ArrayLaw`, `HashLaw` and
`ContainerLaw` say that a container type describes the containers of what its element type describes. `BodyAssumption` says that bodies
are made of the module's statements and that the initial environment fits the initial store.

The five properties hold together or not at all: a known truthiness is used to decide a branch, an alias to narrow its
source, a shape to type a read. So they have one inductive invariant, `IInv`, whose main part is `Fits(env, store, guess)`. It adds
to the properties what they do not say themselves:

- `Closed`: an instance variable is never open, and an alias is about a local. Else `NarrowAlias` would bind a refinement that
  is not there.
- `UnboundAreNil`: a local no path bound is nil. `JoinLocal` types the name as "nil or what the other path bound", which is only
  right if it is.
- `ShapeFits` in place of `ShapesHold`: what is read under a key is described by the entry of that key *or* by the type of unknown keys,
  not by their join, which is all `ValueFor` gives. A join with another shape and a write to one key need to know which.
- `SavedTyped`: of the arm the store did not take nothing is known but that it is an environment. The join needs no more, because `Join`
  and `Agreed` only get weaker.

The argument: a *fit* is kept by `Within`, a change that touches a few names and leaves the rest (`Narrowing_proofs` begins with
it and with the laws of `Bind` and `JoinEnvironment`); an atom narrowed in the way the store decides it keeps the fit (`AtomFits`), so
does a condition, whose two operands are narrowed one after the other or joined (`ConditionFits`); what is deemed
unreachable is not taken (`ReachabilitySound`); each statement has a lemma in `FlowNarrowing_proofs`, and `NextIInv` puts them together, one step
per action.

### The stacks of the registrar

For every set of themes, programs of any length and classes of any names and nesting: `WrittenRegular` implies
`Spec => []DefinitionsOwned` (`OwnersSound`). `WrittenRegular` says that only `Regular` statements are written; they are
those whose owner the registrar gets right, and the statements `Regular` refuses are wrong in the code: a `def self.x`, a class or
a named mixin in a `class_eval` block or in the body of a `Struct.new`, a class, a mixin's target or the receiver of `class_eval` that
is written `M::A` where Ruby finds `M` in a scope that is neither the innermost nor the top, and a receiver written `::A`, whose root
marker stays in the owner. Of receivers `Regular` admits a single constant without the marker, so the theorems say nothing of
`::A.class_eval`. `ThemesAssumption` types the statements; TLC evaluates it
for the eleven themes.

`DefinitionsOwned` says nothing of what a stack will hold when a body ends, and `visit_class_node` takes the singleton
classes away on entry and puts them back on exit. The invariant (`StacksUnwind`) therefore speaks of every open body. There is a sequence
`past` of stacks, one for each scope of Ruby, that ends in the present ones (`BodiesNest`), and `Unwinds` says of it:

- `Situated`: in each scope the stacks say what Ruby's scope says: in a class its name is the last of the class stack and the
  two other stacks are empty, in `class << self` the singleton stack holds just its owner, in a block the block's target is on top.
- `Around`: from the stacks of a body, the node that is put on `open` leads to the stacks around it, as `CloseNode` computes them.
- `Layered`: an outer class stack is a prefix of every inner one, and each of its lengths is that of some scope. This is what makes a
  search of the class stack and a search of Ruby's scopes end at the same class (`ReferenceAgrees`); a scope that opens no class
  asks for the same names again, and finds no other.

It also needs that what is known to the registrar are Ruby's classes, as names are resolved against them (`ScopeNameAgrees`), and
the length of the visibility stack, which has an entry for each open body but a block (`VisibilityOpen`: a bare `private` in a class
never finds it empty). `UnwindsOpen`, `UnwindsClose` and `UnwindsStay` are the three ways the bodies change; every action
that opens nothing falls under `Quiet`, and `KeyAgrees` reads the owner of a def from `Situated`.

### The binding of calls

For every set of classes, names and methods, any number of parameters, overloads and calls, any arguments, and rounds that
transfer the calls in any order. All four properties of `CallBinding` are theorems, under hypotheses about what is written:

| Theorem | Property | Hypotheses |
|---|---|---|
| `AcceptedFits` | `AcceptedCallsFit` | `WrittenOut` |
| `ReportsCanFail` | `ErrorsAreReal` | `WrittenOut`, `Learnable`, `KeywordsDecide` |
| `EvidenceIsExact` | `EvidenceExact` | `WrittenOut`, `Learnable`, `ShapesKept` |
| `AliasIsPassed` | `PassedAliasHolds` | `WrittenOut`, `Learnable`, `ShapesKept`, `AliasesPassed` |

- `WrittenOut`: the arguments are values, tuples and named keywords (no splat of unknown length, no `...`), and contracts
  are `Complete`: every parameter has a type, and there are no optional parameters beside trailing ones (`OrderKept`) nor
  trailing ones in a sig. `ShapesKept` asks `OrderKept` of methods without contracts too.
- `Learnable`: a method calls itself with arguments that are all typed or all untyped, and what a contract leaves untyped is learned
  for a single overload.
- `KeywordsDecide`: where there are several overloads, one with a `**rest` leaves its declared keywords untyped.
- `AliasesPassed`: to a method that learns, the arguments are values, and there are keywords only where the method takes none.

Of the 6033 methods of the `call_binding` run 4630 obey the hypotheses of `ReportsCanFail`, 4594 those of `EvidenceIsExact`, 2628
those of `AliasIsPassed`. Outside of them the code is imprecise in the ways section 3 lists (without `OrderKept` an argument is
checked against the wrong parameter, without `KeywordsDecide` the wrong overload is chosen, an untyped recursive call is not observed
at all), or the run alone vouches for it: splats of arrays and of unknown values, and `...`.

The concrete calls are those of `RubyCall`, whose `Positionals` and the code's list of arguments (`FlattenSeq`) are both built one
argument at a time; `Flattened` and `PositionalsUpto` give their prefixes, and `ConcreteIs` says that the concrete calls are exactly the
lists that give each materialized argument a class of its type. `GivenFits` and `AllGiven` carry this over the hash a method without
keywords gets. `SlotIsParameter` is the arithmetic of required, optional, rest and trailing parameters: where Ruby accepts the number of
arguments, `SlotOf` is `ParameterOf`. Thus a contract that accepts the arguments fits every concrete call (`ContractFits`), and one that
refuses them is refused by some concrete call (`ContractRefuses`), whose values `SomeValues` and `SomeKeywords` choose.

What depends on other calls is the summary, and there the invariants are:

- `Framed`: what no transfer changes; `ChosenAccepts`: the overload given to a call accepts its arguments. They give `AcceptedCallsFit`.
- `Learning`: a summary that learns has the shape of its method, and a parameter an overload leaves untyped is learned or untyped in the summary.
  `ReportsReal` is `ErrorsAreReal` at every moment and not only at the end. It holds in the middle of a round because an observation
  takes effect at once: after `ObserveCall` the summary covers the call (`SeenBy`, `TransferLearns`), so only the number of
  arguments, the keywords or the contract can be reported. Coverage is monotone, so no later call takes it away.
- `Rounds`: every call the round has been at is covered; a quiet summary has been at all of them. `Traced`: every class learned is of some call's
  argument, for the same parameter. They give the two directions of `EvidenceExact`.
- `AliasesHeld`: only a learned parameter has an alias, and it is that of the argument of every call the round has been at. It is
  kept because a call that passes something else takes the alias away for good (`AliasObserved`).

### What is only model-checked

`Terminates` of `Fixpoint` is liveness.

All other properties are only model-checked. Liveness is out of the prover's reach. `TypeLattice`, `NominalTypes` and
`GradualLoop` use RECURSIVE operators (the code is a recursion over types), and so do `RubyFlow` and `CfgLowering` (over
statements): the prover does not take them, and what they compute for every input would need induction over data.
The other four properties of `Declarations` are about the state
after `RegisterMethods`, whose order of definitions, chain of aliases and folds over mixins are inductions over data. `AnswersFresh`
and `DispatchOrder` of `MethodTables` compare the tables with a search of the whole ancestry, a recursion over an agenda: that
an answer is a method at all (`TypeOK`, part of `AnswersFresh`) is an induction over that agenda already.

## 5. What is not modelled, and the plan

The status of every component is in PROJECT.json. Next, in this order:

1. *Proofs*: splats of arrays and `...` in `CallBinding`, which `ConcreteIs` leaves out.
2. *Lowering*: a case without a scrutinee, compound, logical and multiple assignment, containers; then `guarantees_yield`
   (`cfg/mod.rs:113-155`) as an algorithm, against paths.
3. *Dispatch* on union, tuple and intersection receivers, and the bindings of type parameters (`type_resolution.rs`).
4. *Workspace*: discovery, directives, deduplication of diagnostics.

Left out for good: the parser bridge, the HIR translation and the conformance tools, which have no state and no order; the
hard-coded types of library calls (`builtins.rs`, `intrinsics.rs`), which are data; display text. Globals, captured
instance variables and the reporting side of a snapshot are left out of the models of their components.
