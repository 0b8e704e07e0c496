---------------------------- MODULE MethodTables ----------------------------
(***************************************************************************)
(* The tables behind method lookup while bodies are evaluated.  Evaluation *)
(* itself changes them: a hook mixes a module into a class, alias_method   *)
(* renames, Class.new makes a class, a def in a class_eval block defines.  *)
(* Two caches remember what was looked up; the callers of a key are        *)
(* scheduled when what it means may have changed; and a body that cannot   *)
(* be transferred is rolled back to the tables it started with.  The       *)
(* rounds are those of Fixpoint; types and summaries are left to it.       *)
(***************************************************************************)
EXTENDS MethodLookup

CONSTANT Programs    \* sources: the class graph, the methods and aliases, and the bodies of the units

Top == "top"

\* Bodies nest: depth[i] of them are open after the first i operations of a unit, and one that gives
\* up is left behind its end.
IsNested(body, depth) ==
    /\ Len(body) \in Nat /\ DOMAIN body = 1 .. Len(body)
    /\ DOMAIN depth = 0 .. Len(body) /\ \A i \in DOMAIN depth : depth[i] \in Nat
    /\ depth[0] = 0 /\ depth[Len(body)] = 0
    /\ \A i \in DOMAIN body :
          IF body[i].op = "open" THEN depth[i] = depth[i - 1] + 1
          ELSE IF body[i].op = "close" THEN depth[i - 1] = depth[i] + 1
          ELSE depth[i] = depth[i - 1]
    /\ \A i \in DOMAIN body : body[i].op = "fail" =>
          \E end \in i .. Len(body) :
              /\ body[i].to = end + 1 /\ depth[i] = depth[end] + 1
              /\ \A j \in i .. end - 1 : depth[j] >= depth[i]

\* The body opened there is known to give up, and does so there.
GivesUp(body, depth, open, fail) ==
    /\ body[open].op = "open" /\ body[open].knownFailure /\ body[fail].op = "fail"
    /\ depth[fail] = depth[open] /\ \A j \in open .. fail : depth[j] >= depth[open]
\* What it did before is undone.
Dead(body, depth) ==
    {i \in DOMAIN body : \E open \in 1 .. i, fail \in i .. Len(body) : GivesUp(body, depth, open, fail)}

ASSUME ProgramsAssumption ==
    \A source \in Programs :
        /\ IsGraph(source.classes) /\ HasLists(source.classes)
        /\ source.order \in Seq(DOMAIN source.body) /\ Top \in DOMAIN source.body
        /\ \A u \in DOMAIN source.body :
              /\ IsNested(source.body[u], source.depth[u])
              /\ source.dead[u] = Dead(source.body[u], source.depth[u])

VARIABLES
    program,   \* the source under analysis
    tables,    \* what a transaction saves: see Tables
    pass,      \* "seed", "round", "final" or "done"
    units,     \* the units this pass has still to evaluate
    pc,        \* the next operation of the unit under evaluation; 0 between units
    saved,     \* one entry per open body: the tables to go back to, if any
    pending    \* the methods scheduled for this round
vars == << program, tables, pass, units, pc, saved, pending >>

Unit == Head(units)
KeyOf(unit) == program.key[unit]
Op == program.body[Unit][pc]
-----------------------------------------------------------------------------
(***************************************************************************)
(* tables.cache and tables.hosts are method_resolution_cache and           *)
(* instance_self_type_cache; callers is method_callers and changed is      *)
(* changed_methods of FixpointState.  seen is not in the code: what the    *)
(* latest evaluation of a unit was told.                                   *)
(***************************************************************************)
EmptyCache == [k \in {} |-> None]

\* What the tables say a key means now, and what self may be.
Meaning(t, key) == Resolve(t.classes, t.methods, t.aliases, key)
SelfOf(t, owner) == SelfTypes(t.classes, owner)

Nothing == [self |-> {}, calls |-> {}, supers |-> {}]
Start(source) ==
    [classes |-> Normalize(source.classes), methods |-> source.methods, aliases |-> source.aliases,
     cache |-> EmptyCache, hosts |-> EmptyCache, callers |-> {}, changed |-> {},
     seen |-> [u \in DOMAIN source.body |-> Nothing]]

\* resolve_method_key: found and missing methods alike are remembered.
Cached(t, key) ==
    IF key \in DOMAIN t.cache THEN t
    ELSE [t EXCEPT !.cache = [k \in DOMAIN t.cache \union {key} |->
                                 IF k = key THEN Meaning(t, key) ELSE t.cache[k]]]

HostsCached(t, owner) ==
    IF owner \in DOMAIN t.hosts THEN t
    ELSE [t EXCEPT !.hosts = [o \in DOMAIN t.hosts \union {owner} |->
                                 IF o = owner THEN SelfOf(t, owner) ELSE t.hosts[o]]]

\* A slip: an edge for whoever calls.
WithAnyCaller(t, key, caller) ==
    [t EXCEPT !.callers = @ \union {<< k, caller >> : k \in {key} \union ({t.cache[key]} \ {None})}]

\* record_method_dependency: edges from the key asked for and from the method found.
WithCaller(t, key, caller) ==
    LET found == t.cache[key] IN
    IF caller \notin t.methods THEN t
    ELSE [t EXCEPT !.callers = @ \union {<< k, caller >> : k \in {key} \union ({found} \ {None})}]

Record(t, key, caller) == WithCaller(Cached(t, key), key, caller)

\* A slip: only the callers of the class itself, not those of its subclasses.
OwnDependents(t, owner) == {edge[2] : edge \in {e \in t.callers : e[1].owner = owner}}

\* schedule_method_resolution_dependents.
Dependents(t, owner) ==
    {edge[2] : edge \in {e \in t.callers :
        e[1].owner # None /\ NominalSubtypeNames(t.classes, e[1].owner, owner)}}

Schedule(t, owner) == [t EXCEPT !.changed = @ \union Dependents(t, owner)]

ForgetNothing(t) == t
ForgetLookups(t) == [t EXCEPT !.cache = EmptyCache]
ForgetSelves(t) == [t EXCEPT !.hosts = EmptyCache]

SetClass(t, owner, class) ==
    [t EXCEPT !.classes = [o \in DOMAIN @ \union {owner} |-> IF o = owner THEN class ELSE @[o]]]
-----------------------------------------------------------------------------
(* The operations of a body. *)

\* In a block with a receiver of its own the method evaluated is called "<bound-block>".
Caller(op) == IF op.bound THEN Key(op.key.owner, "<bound-block>", FALSE) ELSE KeyOf(Unit)

\* A call: what it resolves to is what its evaluation goes on with.
AfterCall(t, op) ==
    LET recorded == Record(t, op.key, Caller(op)) IN
    [recorded EXCEPT !.seen[Unit].calls = @ \union {<< op.key, recorded.cache[op.key] >>}]

\* A slip: a module that is mixed in again is a change again.
MixedAgain(t, op) ==
    LET class == InfoOf(t.classes, op.owner)
        changed == IF op.extend THEN [class EXCEPT !.extends = PushNew(@, op.module)]
                                ELSE [class EXCEPT !.includes = PushNew(@, op.module)]
    IN Schedule(ForgetSelves(ForgetLookups(SetClass(t, op.owner, changed))), op.owner)

\* A super: an edge from the method it finds, and none when it finds nothing.
AfterSuper(t, key) ==
    LET found == SuperOf(t.classes, t.methods, t.aliases, key)
        recorded == IF found = None THEN t ELSE Record(t, found, key)
    IN [recorded EXCEPT !.seen[Unit].supers = @ \union {found}]

\* observe_mixin_hook_owned; a prepend made at run time is recorded as an include.
MixedIn(t, op) ==
    LET class == InfoOf(t.classes, op.owner)
        changed == IF op.extend THEN [class EXCEPT !.extends = Append(@, op.module)]
                                ELSE [class EXCEPT !.includes = Append(@, op.module)]
        forgot == ForgetSelves(ForgetLookups(SetClass(t, op.owner, changed)))
        scheduled == Schedule(Schedule(forgot, op.owner), op.module)
    IN IF op.module \in Elements(IF op.extend THEN class.extends ELSE class.includes)
       THEN t
       ELSE [scheduled EXCEPT !.changed = @ \union {k \in t.methods : k.owner = op.module}]

AfterMixin(t, op) ==
    LET hook == Key(op.module, IF op.extend THEN "extended" ELSE "included", TRUE)
        known == Cached(MixedIn(t, op), hook)
    IN IF known.cache[hook] = None THEN known ELSE Record(known, hook, KeyOf(Unit))

AfterAlias(t, op) ==
    LET new == Key(op.owner, op.new, FALSE)
        old == Key(op.owner, op.old, FALSE)
        renamed == [t EXCEPT !.aliases = [k \in DOMAIN @ \union {new} |-> IF k = new THEN old ELSE @[k]]]
    IN IF new \in DOMAIN t.aliases /\ t.aliases[new] = old THEN t
       ELSE Schedule(ForgetLookups(renamed), op.owner)

AfterClassNew(t, op) ==
    LET class == InfoOf(t.classes, op.owner) IN
    ForgetLookups(SetClass(t, op.owner,
        IF class.superclass = None THEN [class EXCEPT !.superclass = op.superclass] ELSE class))

\* A def in a block bound to a class: the method appears, and nothing is forgotten or scheduled.
AfterDefine(t, op) == [t EXCEPT !.methods = @ \union {op.key}]

\* A change whose receiver or argument is the result of a call is not seen while the call finds nothing.
Unknown(t, op) == op.needs # None /\ \A told \in t.seen[Unit].calls : told[1] = op.needs => told[2] = None

After(t, op) ==
    CASE op.op \in {"mixin", "alias", "class", "define"} /\ Unknown(t, op) -> t
      [] op.op = "call" -> AfterCall(t, op)
      [] op.op = "super" -> AfterSuper(t, KeyOf(Unit))
      [] op.op = "mixin" -> AfterMixin(t, op)
      [] op.op = "alias" -> AfterAlias(t, op)
      [] op.op = "class" -> AfterClassNew(t, op)
      [] op.op = "define" -> AfterDefine(t, op)
      [] OTHER -> t
-----------------------------------------------------------------------------
(* The evaluation of a unit. *)

\* eval_owned_method_definition: self is what the owner of the method may be.
Begun(t, unit) ==
    LET owner == program.key[unit].owner
        known == IF owner = None THEN t ELSE HostsCached(t, owner)
    IN [known EXCEPT !.seen[unit] = [Nothing EXCEPT !.self = IF owner = None THEN {} ELSE known.hosts[owner]]]

Begin ==
    /\ pass # "done" /\ pc = 0 /\ units # << >>
    /\ tables' \in {Begun(tables, Unit)}
    /\ pc' = 1
    /\ UNCHANGED << program, pass, units, saved, pending >>

End ==
    /\ pc # 0 /\ pc > Len(program.body[Unit])
    /\ units' = Tail(units)
    /\ pc' = 0
    /\ UNCHANGED << program, tables, pass, saved, pending >>

Running == pass # "done" /\ pc # 0 /\ pc <= Len(program.body[Unit])

Operation ==
    /\ Running
    /\ Op.op \notin {"open", "close", "fail"}
    /\ tables' \in {After(tables, Op)}
    /\ pc' = pc + 1
    /\ UNCHANGED << program, pass, units, saved, pending >>

\* cfg_body_needs_transaction: a body known to fail, or a yield outside of a registered method.
NeedsTransaction(op) == op.knownFailure \/ (op.yields /\ KeyOf(Unit) \notin tables.methods)

Open ==
    /\ Running /\ Op.op = "open"
    /\ saved' = Append(saved, IF NeedsTransaction(Op) THEN << tables >> ELSE << >>)
    /\ pc' = pc + 1
    /\ UNCHANGED << program, tables, pass, units, pending >>

Close ==
    /\ Running /\ Op.op = "close" /\ saved # << >>
    /\ saved' = SubSeq(saved, 1, Len(saved) - 1)
    /\ pc' = pc + 1
    /\ UNCHANGED << program, tables, pass, units, pending >>

\* restore_cfg_transfer_snapshot, or what a restore would do that misses a table.
RestoredButCaches(t, snapshot) == [snapshot EXCEPT !.cache = t.cache, !.hosts = t.hosts]
RestoredButClasses(t, snapshot) == [snapshot EXCEPT !.classes = t.classes]
Restored(t, snapshot) == snapshot

\* The innermost body gives up; its caller goes on behind it with Anything.
GiveUp ==
    /\ Running /\ Op.op = "fail" /\ saved # << >>
    /\ LET snapshot == saved[Len(saved)] IN
       tables' = IF snapshot = << >> THEN tables ELSE Restored(tables, snapshot[1])
    /\ saved' = SubSeq(saved, 1, Len(saved) - 1)
    /\ pc' = Op.to
    /\ UNCHANGED << program, pass, units, pending >>
-----------------------------------------------------------------------------
(* The passes of Analyzer::run. *)

Over == pass # "done" /\ pc = 0 /\ units = << >>
Keys == {program.key[u] : u \in DOMAIN program.body \ {Top}}

\* The units among these, in source order.
InOrder(order, some) ==
    LET chosen[i \in 0 .. Len(order)] ==
            IF i = 0 THEN << >>
            ELSE IF order[i] \in some THEN Append(chosen[i - 1], order[i]) ELSE chosen[i - 1]
    IN  chosen[Len(order)]

\* The root is replayed, the scheduled methods follow.
RoundUnits(scheduled) ==
    << Top >> \o InOrder(program.order, {u \in DOMAIN program.body \ {Top} : program.key[u] \in scheduled})

Scheduled == tables.changed \union {e[2] : e \in {e \in tables.callers : e[1] \in tables.changed}}

NextPass(scheduled) ==
    /\ pending' = scheduled
    /\ pass' = IF scheduled = {} THEN "final" ELSE "round"
    /\ units' = IF scheduled = {} THEN program.order ELSE RoundUnits(scheduled)
    /\ tables' = [tables EXCEPT !.changed = {}]

EndSeed == Over /\ pass = "seed" /\ NextPass(Keys) /\ UNCHANGED << program, pc, saved >>
EndRound == Over /\ pass = "round" /\ NextPass(Scheduled) /\ UNCHANGED << program, pc, saved >>

EndFinal ==
    /\ Over /\ pass = "final"
    /\ pass' = "done"
    /\ UNCHANGED << program, tables, units, pc, saved, pending >>

Done == pass = "done" /\ UNCHANGED vars

Init ==
    /\ program \in Programs
    /\ tables = Start(program)
    /\ pass = "seed" /\ units = program.order /\ pc = 0
    /\ saved = << >> /\ pending = {}

Next == Begin \/ Operation \/ Open \/ Close \/ GiveUp \/ End \/ EndSeed \/ EndRound \/ EndFinal \/ Done

Spec == Init /\ [][Next]_vars

\* One thread that does not stop: Next is enabled until the end, so this is WF_vars(Next)
\* without its ENABLED, which would run every lookup twice.
FairSpec == Spec /\ ([]<><<TRUE>>_vars \/ <>(pass = "done"))
-----------------------------------------------------------------------------
(* Every table holds what its name says (the invariant of the state). *)
TypeOK ==
    /\ DOMAIN tables.classes \subseteq Owner
    /\ tables.methods \subseteq MethodKey
    /\ DOMAIN tables.aliases \subseteq MethodKey
    /\ \A k \in DOMAIN tables.cache : tables.cache[k] \in tables.methods \union {None}
    /\ tables.callers \subseteq MethodKey \X tables.methods
    /\ tables.changed \subseteq tables.methods
    /\ pass \in {"seed", "round", "final", "done"}
    /\ Len(saved) > 0 => pc # 0

(***************************************************************************)
(* What a cache remembers is what a fresh lookup finds: every change of    *)
(* the graph or the aliases forgets, and a rolled back body takes what it  *)
(* looked up with it.                                                      *)
(***************************************************************************)
Current(t) ==
    /\ \A k \in DOMAIN t.cache : t.cache[k] = Meaning(t, k)
    /\ \A o \in DOMAIN t.hosts : t.hosts[o] = SelfOf(t, o)
CacheCurrent == Current(tables)

(***************************************************************************)
(* When the rounds have ended, the latest evaluation of every method       *)
(* resolved its calls, and its self, to what they mean now: each change    *)
(* scheduled whom it concerned, and only a committed one counted.          *)
(***************************************************************************)
Fresh(unit) ==
    /\ tables.seen[unit].self = SelfOf(tables, program.key[unit].owner)
    /\ \A told \in tables.seen[unit].calls : told[2] = Meaning(tables, told[1])
    /\ \A found \in tables.seen[unit].supers :
           found = SuperOf(tables.classes, tables.methods, tables.aliases, program.key[unit])
AnswersFresh ==
    /\ TypeOK
    /\ pass \in {"final", "done"} /\ pc = 0 => \A u \in DOMAIN program.body \ {Top} : Fresh(u)

(***************************************************************************)
(* Between bodies the tables show no trace of a body that gave up with a   *)
(* snapshot: a mixin, alias or class only such a body makes is not there.  *)
(***************************************************************************)
Made(t, op) ==
    CASE op.op = "mixin" -> op.module \in Elements(IF op.extend THEN InfoOf(t.classes, op.owner).extends
                                                   ELSE InfoOf(t.classes, op.owner).includes)
      [] op.op = "alias" -> Key(op.owner, op.new, FALSE) \in DOMAIN t.aliases
      [] op.op = "class" -> op.owner \in DOMAIN t.classes
      [] op.op = "define" -> op.key \in t.methods
      [] OTHER -> FALSE
\* The one operation leaves in the tables what the other does; a mixin, too, enters its class.
Makes(op, made) ==
    CASE made.op = "mixin" -> /\ op.op = "mixin" /\ op.owner = made.owner /\ op.module = made.module
                              /\ op.extend <=> made.extend
      [] made.op = "alias" -> op.op = "alias" /\ op.owner = made.owner /\ op.new = made.new
      [] made.op = "class" -> op.op \in {"mixin", "class"} /\ op.owner = made.owner
      [] made.op = "define" -> op.op = "define" /\ op.key = made.key
      [] OTHER -> FALSE
Kept(op) ==
    \/ Made(Start(program), op)
    \/ \E u \in DOMAIN program.body : \E i \in DOMAIN program.body[u] \ program.dead[u] : Makes(program.body[u][i], op)
NothingLeaks ==
    pc = 0 => \A u \in DOMAIN program.body : \A i \in program.dead[u] :
                  Made(tables, program.body[u][i]) => Kept(program.body[u][i])

(***************************************************************************)
(* Whatever the bodies did to the graph, an instance and a class object    *)
(* ask their ancestors in Ruby's order as long as no module is reached on  *)
(* two ways, and the same ancestors in any case.                           *)
(***************************************************************************)
DispatchOrder ==
    \A o \in DOMAIN tables.classes, singleton \in BOOLEAN :
        LET asked == Candidates(tables.classes, o, singleton)
            ruby == RubyOrder(tables.classes, o, singleton)
        IN /\ Elements(asked) = Elements(ruby)
           /\ Once(ruby) => asked = ruby

(* The rounds end: nothing is scheduled for ever. *)
Terminates == <>(pass = "done")
=============================================================================
