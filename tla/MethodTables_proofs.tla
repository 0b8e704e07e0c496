------------------------ MODULE MethodTables_proofs ------------------------
(***************************************************************************)
(* Two theorems about the tables behind method lookup, for every class     *)
(* graph and program.  The caches never answer from a graph that is gone,  *)
(* as long as no def is evaluated in a block that is bound to a class      *)
(* (AfterDefine, which forgets nothing).  And a body that is rolled back   *)
(* leaves nothing in the class graph, the aliases or the methods.          *)
(***************************************************************************)
EXTENDS MethodTables, SequenceTheorems, WellFoundedInduction, TLAPS

\* The tables are one record, and its class graph a function to records.
Shape(t) ==
    /\ t = [classes |-> t.classes, methods |-> t.methods, aliases |-> t.aliases, cache |-> t.cache,
            hosts |-> t.hosts, callers |-> t.callers, changed |-> t.changed, seen |-> t.seen]
    /\ IsGraph(t.classes)

Good(t) == Shape(t) /\ Current(t)

\* What a lookup reads, and what it left behind, are as they were.
SameLookups(t, s) ==
    /\ s.classes = t.classes /\ s.methods = t.methods /\ s.aliases = t.aliases
    /\ s.cache = t.cache /\ s.hosts = t.hosts

\* A def that is about to be evaluated in a block bound to a class.
Defines == Running /\ Op.op = "define"
-----------------------------------------------------------------------------
(* A change of the callers, the scheduled methods or the ghost leaves the caches current. *)
LEMMA KeptGood ==
    ASSUME NEW t, NEW s, Good(t), Shape(s), SameLookups(t, s)
    PROVE  Good(s)
BY DEF Good, Current, SameLookups, Meaning, SelfOf

(* Looking a key up adds the answer of now. *)
LEMMA CachedGood ==
    ASSUME NEW t, NEW key, Good(t)
    PROVE  Good(Cached(t, key))
<1>1. CASE key \in DOMAIN t.cache
  BY <1>1 DEF Cached
<1>2. CASE key \notin DOMAIN t.cache
  <2> DEFINE new == [k \in DOMAIN t.cache \union {key} |-> IF k = key THEN Meaning(t, key) ELSE t.cache[k]]
             s == [t EXCEPT !.cache = new]
  <2>1. Cached(t, key) = s
    BY <1>2 DEF Cached
  <2>2. Shape(s) /\ s.cache = new /\ s.hosts = t.hosts
        /\ s.classes = t.classes /\ s.methods = t.methods /\ s.aliases = t.aliases
    BY DEF Good, Shape
  <2>3. \A k : Meaning(s, k) = Meaning(t, k)
    BY <2>2 DEF Meaning
  <2>4. \A o : SelfOf(s, o) = SelfOf(t, o)
    BY <2>2 DEF SelfOf
  <2>5. \A k \in DOMAIN new : new[k] = Meaning(t, k)
    BY DEF Good, Current
  <2> HIDE DEF s, new
  <2>6. Current(s)
    BY <2>2, <2>3, <2>4, <2>5 DEF Good, Current
  <2> QED BY <2>1, <2>2, <2>6 DEF Good
<1> QED BY <1>1, <1>2

LEMMA HostsGood ==
    ASSUME NEW t, NEW owner, Good(t)
    PROVE  Good(HostsCached(t, owner))
<1>1. CASE owner \in DOMAIN t.hosts
  BY <1>1 DEF HostsCached
<1>2. CASE owner \notin DOMAIN t.hosts
  <2> DEFINE new == [o \in DOMAIN t.hosts \union {owner} |-> IF o = owner THEN SelfOf(t, owner) ELSE t.hosts[o]]
             s == [t EXCEPT !.hosts = new]
  <2>1. HostsCached(t, owner) = s
    BY <1>2 DEF HostsCached
  <2>2. Shape(s) /\ s.hosts = new /\ s.cache = t.cache
        /\ s.classes = t.classes /\ s.methods = t.methods /\ s.aliases = t.aliases
    BY DEF Good, Shape
  <2>3. \A k : Meaning(s, k) = Meaning(t, k)
    BY <2>2 DEF Meaning
  <2>4. \A o : SelfOf(s, o) = SelfOf(t, o)
    BY <2>2 DEF SelfOf
  <2>5. \A o \in DOMAIN new : new[o] = SelfOf(t, o)
    BY DEF Good, Current
  <2> HIDE DEF s, new
  <2>6. Current(s)
    BY <2>2, <2>3, <2>4, <2>5 DEF Good, Current
  <2> QED BY <2>1, <2>2, <2>6 DEF Good
<1> QED BY <1>1, <1>2

LEMMA ScheduledGood ==
    ASSUME NEW t, NEW changed, Good(t)
    PROVE  Good([t EXCEPT !.changed = changed])
<1>1. Shape([t EXCEPT !.changed = changed]) /\ SameLookups(t, [t EXCEPT !.changed = changed])
  BY DEF Good, Shape, SameLookups
<1> QED BY <1>1, KeptGood

LEMMA ScheduleGood ==
    ASSUME NEW t, NEW owner, Good(t)
    PROVE  Good(Schedule(t, owner))
<1>1. Schedule(t, owner) = [t EXCEPT !.changed = t.changed \union Dependents(t, owner)]
  BY DEF Schedule, Good, Shape
<1> QED BY <1>1, ScheduledGood

LEMMA CallersGood ==
    ASSUME NEW t, NEW key, NEW caller, Good(t)
    PROVE  Good(WithCaller(t, key, caller))
<1> DEFINE callers == t.callers \union {<< k, caller >> : k \in {key} \union ({t.cache[key]} \ {None})}
           s == [t EXCEPT !.callers = callers]
<1>1. WithCaller(t, key, caller) = t \/ WithCaller(t, key, caller) = s
  BY DEF WithCaller, Good, Shape
<1>2. Shape(s) /\ SameLookups(t, s)
  <2> HIDE DEF callers
  <2> QED BY DEF Good, Shape, SameLookups
<1> QED BY <1>1, <1>2, KeptGood

LEMMA RecordGood ==
    ASSUME NEW t, NEW key, NEW caller, Good(t)
    PROVE  Good(Record(t, key, caller))
BY CachedGood, CallersGood DEF Record

\* What the latest evaluation was told is not read by a lookup.
LEMMA SeenGood ==
    ASSUME NEW t, NEW seen, Good(t)
    PROVE  Good([t EXCEPT !.seen = seen])
<1>1. Shape([t EXCEPT !.seen = seen]) /\ SameLookups(t, [t EXCEPT !.seen = seen])
  BY DEF Good, Shape, SameLookups
<1> QED BY <1>1, KeptGood
-----------------------------------------------------------------------------
(* Forgetting the lookups empties one cache and keeps the rest. *)
LEMMA ForgetLookupsShape ==
    ASSUME NEW t, Shape(t)
    PROVE  LET s == ForgetLookups(t) IN
           /\ Shape(s) /\ s.cache = EmptyCache /\ s.hosts = t.hosts
           /\ s.classes = t.classes /\ s.methods = t.methods /\ s.aliases = t.aliases
BY DEF Shape, ForgetLookups

LEMMA ForgetSelvesShape ==
    ASSUME NEW t, Shape(t)
    PROVE  LET s == ForgetSelves(t) IN Shape(s) /\ s.cache = t.cache /\ s.hosts = EmptyCache
BY DEF Shape, ForgetSelves

LEMMA NothingCached == DOMAIN EmptyCache = {}
BY DEF EmptyCache

(* With both caches empty nothing can be stale, whatever the graph became. *)
LEMMA ForgottenGood ==
    ASSUME NEW t, Shape(t)
    PROVE  Good(ForgetSelves(ForgetLookups(t)))
<1> DEFINE s == ForgetSelves(ForgetLookups(t))
<1>1. Shape(s) /\ s.cache = EmptyCache /\ s.hosts = EmptyCache
  BY ForgetLookupsShape, ForgetSelvesShape
<1> HIDE DEF s
<1>2. Current(s)
  BY <1>1, NothingCached DEF Current
<1> QED BY <1>1, <1>2 DEF Good, s

LEMMA ClassShape ==
    ASSUME NEW t, NEW owner, NEW class, Shape(t), IsClass(class)
    PROVE  Shape(SetClass(t, owner, class))
BY DEF Shape, SetClass, IsGraph

LEMMA InfoIsClass ==
    ASSUME NEW classes, NEW owner, IsGraph(classes)
    PROVE  IsClass(InfoOf(classes, owner))
BY DEF IsGraph, InfoOf, IsClass, NoClass

LEMMA MixinGood ==
    ASSUME NEW t, NEW op, Good(t)
    PROVE  Good(MixedIn(t, op))
<1> DEFINE class == InfoOf(t.classes, op.owner)
           changed == IF op.extend THEN [class EXCEPT !.extends = Append(@, op.module)]
                                   ELSE [class EXCEPT !.includes = Append(@, op.module)]
           forgot == ForgetSelves(ForgetLookups(SetClass(t, op.owner, changed)))
           scheduled == Schedule(Schedule(forgot, op.owner), op.module)
           late == {k \in t.methods : k.owner = op.module}
<1>1. Good(forgot)
  <2>1. IsClass(class)
    BY InfoIsClass DEF Good, Shape
  <2> HIDE DEF class
  <2>2. IsClass(changed)
    BY <2>1 DEF IsClass
  <2> HIDE DEF changed
  <2> QED BY <2>2, ClassShape, ForgottenGood DEF Good
<1> HIDE DEF forgot
<1>2. Good(scheduled)
  BY <1>1, ScheduleGood
<1> HIDE DEF scheduled
<1>3. Good([scheduled EXCEPT !.changed = scheduled.changed \union late])
  BY <1>2, ScheduledGood
<1>4. [scheduled EXCEPT !.changed = @ \union late] = [scheduled EXCEPT !.changed = scheduled.changed \union late]
  BY <1>2 DEF Good, Shape
<1>5. MixedIn(t, op) = t \/ MixedIn(t, op) = [scheduled EXCEPT !.changed = @ \union late]
  BY DEF MixedIn, scheduled, forgot
<1> QED BY <1>3, <1>4, <1>5

LEMMA AfterMixinGood ==
    ASSUME NEW t, NEW op, Good(t)
    PROVE  Good(AfterMixin(t, op))
BY MixinGood, CachedGood, RecordGood DEF AfterMixin

LEMMA AfterAliasGood ==
    ASSUME NEW t, NEW op, Good(t)
    PROVE  Good(AfterAlias(t, op))
<1> DEFINE new == Key(op.owner, op.new, FALSE)
           old == Key(op.owner, op.old, FALSE)
           aliases == [k \in DOMAIN t.aliases \union {new} |-> IF k = new THEN old ELSE t.aliases[k]]
           renamed == [t EXCEPT !.aliases = aliases]
           s == ForgetLookups(renamed)
<1>0. renamed = [t EXCEPT !.aliases = [k \in DOMAIN @ \union {new} |-> IF k = new THEN old ELSE @[k]]]
  BY DEF Good, Shape
<1>1. Shape(renamed) /\ renamed.classes = t.classes /\ renamed.hosts = t.hosts
  <2> HIDE DEF aliases
  <2> QED BY DEF Good, Shape
<1> HIDE DEF renamed, aliases
<1>2. Shape(s) /\ s.cache = EmptyCache /\ s.hosts = t.hosts /\ s.classes = t.classes
  BY <1>1, ForgetLookupsShape
<1> HIDE DEF s
<1>3. Current(s)
  BY <1>2, NothingCached DEF Current, Good, SelfOf
<1>4. Good(Schedule(s, op.owner))
  BY <1>2, <1>3, ScheduleGood DEF Good
<1>5. AfterAlias(t, op) = t \/ AfterAlias(t, op) = Schedule(s, op.owner)
  BY <1>0 DEF AfterAlias, s
<1> QED BY <1>4, <1>5

\* The graph with a class of that superclass.
WithSuper(classes, owner, superclass) ==
    [x \in DOMAIN classes \union {owner} |->
        IF x = owner THEN [InfoOf(classes, owner) EXCEPT !.superclass = superclass] ELSE classes[x]]

(***************************************************************************)
(* A class made at run time mixes nothing in: nobody's self changes, which *)
(* is why anonymous_class may leave the other cache alone.                 *)
(***************************************************************************)
LEMMA NewClassSelf ==
    ASSUME NEW classes, NEW owner, NEW superclass, NEW o,
           IsGraph(classes)
    PROVE  SelfTypes(WithSuper(classes, owner, superclass), o) = SelfTypes(classes, o)
<1> DEFINE class == [InfoOf(classes, owner) EXCEPT !.superclass = superclass]
           after == [x \in DOMAIN classes \union {owner} |-> IF x = owner THEN class ELSE classes[x]]
           hosts(c) == {x \in DOMAIN c : o \in Elements(c[x].includes)
                            \union Elements(c[x].prepends) \union Elements(c[x].extends)}
           object(c, x) == o \in Elements(c[x].extends) \/ (c[x].isModule /\ c[x].extendSelf)
<1>1. DOMAIN after = DOMAIN classes \union {owner} /\ after[owner] = class /\ \A x \in DOMAIN classes : x # owner => after[x] = classes[x]
  OBVIOUS
<1>2. class.includes = InfoOf(classes, owner).includes /\ class.prepends = InfoOf(classes, owner).prepends
      /\ class.extends = InfoOf(classes, owner).extends /\ class.isModule = InfoOf(classes, owner).isModule
      /\ class.extendSelf = InfoOf(classes, owner).extendSelf
  <2>1. IsClass(InfoOf(classes, owner))
    BY InfoIsClass
  <2> HIDE DEF after
  <2> QED BY <2>1 DEF IsClass
<1> HIDE DEF class, after
<1>3. owner \notin DOMAIN classes => Elements(class.includes) = {} /\ Elements(class.prepends) = {} /\ Elements(class.extends) = {}
  BY <1>2 DEF InfoOf, NoClass, Elements
<1>4. \A x \in DOMAIN classes : after[x].includes = classes[x].includes /\ after[x].prepends = classes[x].prepends
          /\ after[x].extends = classes[x].extends /\ after[x].isModule = classes[x].isModule /\ after[x].extendSelf = classes[x].extendSelf
  BY <1>1, <1>2 DEF InfoOf
<1>5. hosts(after) = hosts(classes)
  BY <1>1, <1>3, <1>4
<1>6. \A x \in hosts(classes) : object(after, x) = object(classes, x)
  BY <1>4
<1>7. InfoOf(after, o).isModule = InfoOf(classes, o).isModule /\ InfoOf(after, o).extendSelf = InfoOf(classes, o).extendSelf
  BY <1>1, <1>2, <1>4 DEF InfoOf
<1>8. {Self(x, object(after, x)) : x \in hosts(after)} = {Self(x, object(classes, x)) : x \in hosts(classes)}
  BY <1>5, <1>6
<1>9. SelfTypes(after, o) = SelfTypes(classes, o)
  BY <1>5, <1>7, <1>8 DEF SelfTypes
<1> QED BY <1>9 DEF after, class, WithSuper

LEMMA AfterClassNewGood ==
    ASSUME NEW t, NEW op, Good(t)
    PROVE  Good(AfterClassNew(t, op))
<1> DEFINE info == InfoOf(t.classes, op.owner)
           class == [info EXCEPT !.superclass = op.superclass]
           made(c) == ForgetLookups(SetClass(t, op.owner, c))
<1>1. IsClass(info)
  BY InfoIsClass DEF Good, Shape
<1>2. IsClass(class) /\ info = [info EXCEPT !.superclass = info.superclass]
  <2> HIDE DEF info
  <2> QED BY <1>1 DEF IsClass
<1>3. ASSUME NEW superclass PROVE Good(made([info EXCEPT !.superclass = superclass]))
  <2> DEFINE c == [info EXCEPT !.superclass = superclass]
             s == SetClass(t, op.owner, c)
  <2>1. IsClass(c)
    <3> HIDE DEF info
    <3> QED BY <1>1 DEF IsClass
  <2>2. Shape(s)
    BY <2>1, ClassShape DEF Good
  <2>3. s.classes = [x \in DOMAIN t.classes \union {op.owner} |-> IF x = op.owner THEN c ELSE t.classes[x]]
        /\ s.hosts = t.hosts
    <3> HIDE DEF c
    <3> QED BY DEF SetClass, Good, Shape
  <2>4. \A o : SelfTypes(s.classes, o) = SelfTypes(t.classes, o)
    <3>1. IsGraph(t.classes)
      BY DEF Good, Shape
    <3>2. \A o : SelfTypes(WithSuper(t.classes, op.owner, superclass), o) = SelfTypes(t.classes, o)
      BY <3>1, NewClassSelf
    <3>3. s.classes = WithSuper(t.classes, op.owner, superclass)
      BY <2>3 DEF WithSuper
    <3> HIDE DEF c, s
    <3> QED BY <3>2, <3>3
  <2> HIDE DEF s
  <2>5. /\ Shape(ForgetLookups(s)) /\ ForgetLookups(s).cache = EmptyCache /\ ForgetLookups(s).hosts = t.hosts
        /\ ForgetLookups(s).classes = s.classes
    BY <2>2, <2>3, ForgetLookupsShape
  <2>6. Current(ForgetLookups(s))
    BY <2>4, <2>5, NothingCached DEF Current, Good, SelfOf
  <2> QED BY <2>5, <2>6 DEF Good, s
<1>4. Good(made(class)) /\ Good(made(info))
  <2>1. Good(made([info EXCEPT !.superclass = info.superclass]))
    BY <1>3
  <2> QED BY <1>2, <1>3, <2>1
<1>5. AfterClassNew(t, op) = made(class) \/ AfterClassNew(t, op) = made(info)
  BY DEF AfterClassNew
<1> QED BY <1>4, <1>5

(* Whatever a body does, except evaluating a def in a block bound to a class. *)
LEMMA AfterGood ==
    ASSUME Good(tables), Running, Op.op # "define"
    PROVE  Good(After(tables, Op))
<1>1. Good(AfterCall(tables, Op))
  <2> DEFINE r == Record(tables, Op.key, Caller(Op))
             seen == [r.seen EXCEPT ![Unit].calls = @ \union {<< Op.key, r.cache[Op.key] >>}]
  <2>1. Good(r)
    BY RecordGood
  <2> HIDE DEF r
  <2>2. AfterCall(tables, Op) = [r EXCEPT !.seen = seen]
    BY <2>1 DEF AfterCall, r, Good, Shape
  <2> QED BY <2>1, <2>2, SeenGood
<1>2. Good(AfterSuper(tables, KeyOf(Unit)))
  <2> DEFINE found == SuperOf(tables.classes, tables.methods, tables.aliases, KeyOf(Unit))
             r == IF found = None THEN tables ELSE Record(tables, found, KeyOf(Unit))
             seen == [r.seen EXCEPT ![Unit].supers = @ \union {found}]
  <2>1. Good(r)
    BY RecordGood
  <2> HIDE DEF r, found
  <2>2. AfterSuper(tables, KeyOf(Unit)) = [r EXCEPT !.seen = seen]
    BY <2>1 DEF AfterSuper, r, found, Good, Shape
  <2> QED BY <2>1, <2>2, SeenGood
<1>3. Good(AfterMixin(tables, Op)) /\ Good(AfterAlias(tables, Op)) /\ Good(AfterClassNew(tables, Op))
  BY AfterMixinGood, AfterAliasGood, AfterClassNewGood
<1> QED BY <1>1, <1>2, <1>3 DEF After

-----------------------------------------------------------------------------
(***************************************************************************)
(* The inductive invariant: the tables are current, and so are those every *)
(* open body would go back to.                                             *)
(***************************************************************************)
Snapshots(s) == \A i \in 1 .. Len(s) : s[i] = << >> \/ (s[i] = << s[i][1] >> /\ Good(s[i][1]))
CInv ==
    /\ Good(tables)
    /\ saved \in Seq({saved[i] : i \in 1 .. Len(saved)})
    /\ Snapshots(saved)

LEMMA AppendSnapshot ==
    ASSUME NEW S, NEW s \in Seq(S), NEW x, Snapshots(s), x = << >> \/ (x = << x[1] >> /\ Good(x[1]))
    PROVE  LET r == Append(s, x) IN r \in Seq({r[i] : i \in 1 .. Len(r)}) /\ Snapshots(r)
<1> DEFINE r == Append(s, x)
<1>1. r \in Seq(S \union {x}) /\ Len(r) = Len(s) + 1 /\ r[Len(r)] = x /\ \A i \in 1 .. Len(s) : r[i] = s[i]
  <2>1. s \in Seq(S \union {x}) /\ x \in S \union {x}
    OBVIOUS
  <2> QED BY <2>1
<1>2. Len(s) \in Nat
  OBVIOUS
<1> HIDE DEF r
<1>3. r \in Seq({r[i] : i \in 1 .. Len(r)})
  BY <1>1
<1>4. Snapshots(r)
  BY <1>1, <1>2 DEF Snapshots
<1> QED BY <1>3, <1>4 DEF r

LEMMA FrontSnapshots ==
    ASSUME NEW S, NEW s \in Seq(S), s # << >>, Snapshots(s)
    PROVE  LET r == SubSeq(s, 1, Len(s) - 1) IN r \in Seq({r[i] : i \in 1 .. Len(r)}) /\ Snapshots(r)
<1> DEFINE r == SubSeq(s, 1, Len(s) - 1)
<1>2. Len(s) \in Nat /\ Len(s) # 0
  OBVIOUS
<1>1. r \in Seq(S) /\ Len(r) = Len(s) - 1 /\ \A i \in 1 .. Len(r) : r[i] = s[i]
  <2> DEFINE n == Len(s) - 1
  <2>1. n \in Nat /\ 1 \in Int /\ n \in Int /\ \A i \in 1 .. n : s[i] \in S
    BY <1>2
  <2> HIDE DEF n
  <2>2. /\ SubSeq(s, 1, n) \in Seq(S)
        /\ Len(SubSeq(s, 1, n)) = IF 1 <= n THEN n - 1 + 1 ELSE 0
        /\ \A i \in 1 .. n - 1 + 1 : SubSeq(s, 1, n)[i] = s[1 + i - 1]
    BY <2>1, SubSeqProperties
  <2>3. Len(SubSeq(s, 1, n)) = n /\ \A i \in 1 .. n : SubSeq(s, 1, n)[i] = s[i]
    BY <2>1, <2>2
  <2> QED BY <2>2, <2>3 DEF n
<1> HIDE DEF r
<1>3. r \in Seq({r[i] : i \in 1 .. Len(r)})
  BY <1>1
<1>4. Snapshots(r)
  BY <1>1, <1>2 DEF Snapshots
<1> QED BY <1>3, <1>4 DEF r

LEMMA InitCInv == Init => CInv
<1> SUFFICES ASSUME Init PROVE CInv
  OBVIOUS
<1>1. IsGraph(program.classes)
  BY ProgramsAssumption DEF Init
<1>2. IsGraph(Normalize(program.classes))
  <2> DEFINE graph == WithObject(program.classes)
  <2>1. IsGraph(graph)
    BY <1>1 DEF WithObject, IsGraph, IsClass
  <2> HIDE DEF graph
  <2> QED BY <2>1 DEF Normalize, graph, IsGraph, IsClass
<1>3. Shape(tables) /\ tables.cache = EmptyCache /\ tables.hosts = EmptyCache
  <2> DEFINE classes == Normalize(program.classes)
             seen == [u \in DOMAIN program.body |-> Nothing]
  <2>1. IsGraph(classes)
    BY <1>2
  <2>2. tables = [classes |-> classes, methods |-> program.methods, aliases |-> program.aliases,
                  cache |-> EmptyCache, hosts |-> EmptyCache, callers |-> {}, changed |-> {}, seen |-> seen]
    BY DEF Init, Start
  <2> HIDE DEF classes, seen
  <2> QED BY <2>1, <2>2 DEF Shape
<1>4. Good(tables)
  BY <1>3, NothingCached DEF Good, Current
<1>5. saved = << >>
  BY DEF Init
<1> QED BY <1>4, <1>5 DEF CInv, Snapshots

LEMMA StepCInv == CInv /\ ~ Defines /\ [Next]_vars => CInv'
<1> SUFFICES ASSUME CInv, ~ Defines, [Next]_vars PROVE CInv'
  OBVIOUS
<1> DEFINE S == {saved[i] : i \in 1 .. Len(saved)}
<1>s. saved \in Seq(S) /\ Snapshots(saved) /\ Good(tables)
  BY DEF CInv
<1> HIDE DEF S
<1>k. saved' = saved /\ Good(tables') => CInv'
  BY <1>s DEF CInv, Snapshots, Good
<1>1. CASE Begin
  <2>1. tables' = Begun(tables, Unit) /\ saved' = saved
    BY <1>1 DEF Begin
  <2>2. Good(Begun(tables, Unit))
    <3> DEFINE owner == program.key[Unit].owner
               known == IF owner = None THEN tables ELSE HostsCached(tables, owner)
               seen == [known.seen EXCEPT ![Unit] =
                           [Nothing EXCEPT !.self = IF owner = None THEN {} ELSE known.hosts[owner]]]
    <3>1. Good(known)
      BY <1>s, HostsGood
    <3> HIDE DEF known
    <3>2. Begun(tables, Unit) = [known EXCEPT !.seen = seen]
      BY <3>1 DEF Begun, known, Good, Shape
    <3> QED BY <3>1, <3>2, SeenGood
  <2> QED BY <2>1, <2>2, <1>k
<1>2. CASE Operation
  <2>1. Op.op # "define" /\ Running /\ tables' = After(tables, Op) /\ saved' = saved
    BY <1>2 DEF Operation, Defines
  <2> QED BY <2>1, <1>s, <1>k, AfterGood
<1>3. CASE Open
  <2> DEFINE x == IF NeedsTransaction(Op) THEN << tables >> ELSE << >>
  <2>1. tables' = tables /\ saved' = Append(saved, x)
    BY <1>3 DEF Open
  <2>2. x = << >> \/ (x = << x[1] >> /\ Good(x[1]))
    BY <1>s
  <2> HIDE DEF x
  <2>3. saved' \in Seq({saved'[i] : i \in 1 .. Len(saved')}) /\ Snapshots(saved')
    <3>1. LET r == Append(saved, x) IN r \in Seq({r[i] : i \in 1 .. Len(r)}) /\ Snapshots(r)
      BY <2>2, <1>s, AppendSnapshot
    <3> QED BY <2>1, <3>1
  <2> QED BY <2>1, <2>3, <1>s DEF CInv, Good
<1>4. CASE Close
  <2>1. tables' = tables /\ saved # << >> /\ saved' = SubSeq(saved, 1, Len(saved) - 1)
    BY <1>4 DEF Close
  <2>2. saved' \in Seq({saved'[i] : i \in 1 .. Len(saved')}) /\ Snapshots(saved')
    BY <2>1, <1>s, FrontSnapshots
  <2> QED BY <2>1, <2>2, <1>s DEF CInv, Snapshots, Good
<1>5. CASE GiveUp
  <2>1. saved # << >> /\ saved' = SubSeq(saved, 1, Len(saved) - 1)
        /\ tables' = IF saved[Len(saved)] = << >> THEN tables ELSE saved[Len(saved)][1]
    BY <1>5 DEF GiveUp, Restored
  <2>2. saved' \in Seq({saved'[i] : i \in 1 .. Len(saved')}) /\ Snapshots(saved')
    BY <2>1, <1>s, FrontSnapshots
  <2>3. Len(saved) \in 1 .. Len(saved)
    BY <2>1, <1>s
  <2>4. Good(tables')
    BY <2>1, <2>3, <1>s DEF Snapshots
  <2> QED BY <2>2, <2>4 DEF CInv
<1>6. CASE End \/ EndFinal \/ Done \/ UNCHANGED vars
  BY <1>6, <1>s, <1>k DEF End, EndFinal, Done, vars
<1>7. CASE EndSeed \/ EndRound
  <2>1. tables' = [tables EXCEPT !.changed = {}] /\ saved' = saved
    BY <1>7 DEF EndSeed, EndRound, NextPass
  <2> QED BY <2>1, <1>s, <1>k, ScheduledGood
<1> QED BY <1>1, <1>2, <1>3, <1>4, <1>5, <1>6, <1>7 DEF Next

(***************************************************************************)
(* CacheCurrent is an invariant of every run in which no def is evaluated  *)
(* in a block bound to a class, for every class graph and program.         *)
(***************************************************************************)
THEOREM CachesStayCurrent == Spec /\ [](~ Defines) => []CacheCurrent
<1>1. CInv => CacheCurrent
  BY DEF CInv, Good, CacheCurrent
<1> QED BY InitCInv, StepCInv, <1>1, PTL DEF Spec
-----------------------------------------------------------------------------
(* What an operation leaves in the graph, the aliases and the methods. *)

Listed(t) == Shape(t) /\ HasLists(t.classes)
SameGraph(t, s) == Shape(s) /\ s.classes = t.classes /\ s.methods = t.methods /\ s.aliases = t.aliases
\* Nothing is made but what the operation makes.
Adds(t, s, op) == Listed(s) /\ \A made : Made(s, made) => Made(t, made) \/ Makes(op, made)

(* The caches, the callers and the scheduled methods are no part of it. *)
LEMMA SameMade ==
    ASSUME NEW t, NEW s, NEW op, Listed(t), SameGraph(t, s)
    PROVE  Adds(t, s, op) /\ \A made : Made(s, made) <=> Made(t, made)
BY DEF Listed, SameGraph, Made, Adds

LEMMA SameGraphTransitive ==
    ASSUME NEW t, NEW s, NEW r, SameGraph(t, s), SameGraph(s, r)
    PROVE  SameGraph(t, r)
BY DEF SameGraph

LEMMA FieldsGraph ==
    ASSUME NEW t, NEW value, Shape(t)
    PROVE  /\ SameGraph(t, t)
           /\ SameGraph(t, [t EXCEPT !.cache = value]) /\ SameGraph(t, [t EXCEPT !.hosts = value])
           /\ SameGraph(t, [t EXCEPT !.callers = value]) /\ SameGraph(t, [t EXCEPT !.changed = value])
           /\ SameGraph(t, [t EXCEPT !.seen = value])
BY DEF Shape, SameGraph

LEMMA CachedGraph ==
    ASSUME NEW t, NEW key, Shape(t)
    PROVE  SameGraph(t, Cached(t, key))
BY FieldsGraph DEF Cached

LEMMA HostsGraph ==
    ASSUME NEW t, NEW owner, Shape(t)
    PROVE  SameGraph(t, HostsCached(t, owner))
BY FieldsGraph DEF HostsCached

LEMMA ScheduleGraph ==
    ASSUME NEW t, NEW owner, Shape(t)
    PROVE  SameGraph(t, Schedule(t, owner))
<1> DEFINE changed == t.changed \union Dependents(t, owner)
<1>1. Schedule(t, owner) = [t EXCEPT !.changed = changed]
  BY DEF Schedule, Shape
<1> HIDE DEF changed
<1>2. SameGraph(t, [t EXCEPT !.changed = changed])
  BY FieldsGraph
<1> QED BY <1>1, <1>2

LEMMA RecordGraph ==
    ASSUME NEW t, NEW key, NEW caller, Shape(t)
    PROVE  SameGraph(t, Record(t, key, caller))
<1> DEFINE s == Cached(t, key)
           callers == s.callers \union {<< k, caller >> : k \in {key} \union ({s.cache[key]} \ {None})}
<1>1. SameGraph(t, s) /\ Shape(s)
  BY CachedGraph DEF SameGraph
<1> HIDE DEF s
<1>2. WithCaller(s, key, caller) = s \/ WithCaller(s, key, caller) = [s EXCEPT !.callers = callers]
  BY <1>1 DEF WithCaller, Shape
<1> HIDE DEF callers
<1>3. SameGraph(s, WithCaller(s, key, caller))
  BY <1>1, <1>2, FieldsGraph
<1> QED BY <1>1, <1>3, SameGraphTransitive DEF Record, s

LEMMA ForgetGraph ==
    ASSUME NEW t, Shape(t)
    PROVE  SameGraph(t, ForgetLookups(t)) /\ SameGraph(t, ForgetSelves(t))
BY FieldsGraph DEF ForgetLookups, ForgetSelves

(* A list with an element more. *)
LEMMA AppendList ==
    ASSUME NEW s, NEW x, IsList(s)
    PROVE  IsList(Append(s, x)) /\ Elements(Append(s, x)) = Elements(s) \union {x}
<1> DEFINE S == {s[i] : i \in DOMAIN s} \union {x}
           r == Append(s, x)
<1>1. s \in Seq(S) /\ x \in S
  <2>1. s \in Seq({s[i] : i \in DOMAIN s})
    BY DEF IsList
  <2> QED BY <2>1, SeqMonotonic
<1> HIDE DEF S
<1>2. r \in Seq(S) /\ Len(r) = Len(s) + 1 /\ r[Len(s) + 1] = x /\ \A i \in 1 .. Len(s) : r[i] = s[i]
  BY <1>1
<1>3. Len(s) \in Nat /\ DOMAIN s = 1 .. Len(s) /\ DOMAIN r = 1 .. Len(s) + 1
  BY <1>1, <1>2
<1> HIDE DEF r
<1>4. IsList(r)
  BY <1>2, <1>3 DEF IsList
<1>5. Elements(r) = Elements(s) \union {x}
  BY <1>2, <1>3 DEF Elements
<1> QED BY <1>4, <1>5 DEF r

(* A class that is entered or replaced. *)
LEMMA ClassEntered ==
    ASSUME NEW t, NEW owner, NEW class, Shape(t), IsClass(class), NEW s, s = SetClass(t, owner, class)
    PROVE  /\ Shape(s) /\ s.methods = t.methods /\ s.aliases = t.aliases
           /\ DOMAIN s.classes = DOMAIN t.classes \union {owner}
           /\ InfoOf(s.classes, owner) = class
           /\ \A o : o # owner => InfoOf(s.classes, o) = InfoOf(t.classes, o)
<1> DEFINE classes == [o \in DOMAIN t.classes \union {owner} |-> IF o = owner THEN class ELSE t.classes[o]]
<1>1. s = [t EXCEPT !.classes = classes]
  BY DEF SetClass, Shape
<1>2. Shape(s)
  BY ClassShape
<1>3. s.classes = classes /\ s.methods = t.methods /\ s.aliases = t.aliases
  <2> HIDE DEF classes
  <2> QED BY <1>1 DEF Shape
<1>4. /\ DOMAIN classes = DOMAIN t.classes \union {owner} /\ InfoOf(classes, owner) = class
      /\ \A o : o # owner => InfoOf(classes, o) = InfoOf(t.classes, o)
  BY DEF InfoOf
<1> HIDE DEF classes
<1> QED BY <1>2, <1>3, <1>4

\* The lists of one class.
ClassLists(class) ==
    IsList(class.includes) /\ IsList(class.prepends) /\ IsList(class.extends) /\ IsList(class.classMethods)

LEMMA EmptyList == IsList(<< >>)
BY DEF IsList

LEMMA InfoLists ==
    ASSUME NEW classes, NEW owner, HasLists(classes)
    PROVE  ClassLists(InfoOf(classes, owner))
BY EmptyList DEF HasLists, InfoOf, NoClass, ClassLists

LEMMA ListsEntered ==
    ASSUME NEW t, NEW s, NEW owner, NEW class, HasLists(t.classes), ClassLists(class),
           DOMAIN s.classes = DOMAIN t.classes \union {owner},
           InfoOf(s.classes, owner) = class,
           \A o : o # owner => InfoOf(s.classes, o) = InfoOf(t.classes, o)
    PROVE  HasLists(s.classes)
BY DEF HasLists, InfoOf, ClassLists
(* A mixin that takes place enters one module, and nothing else is made. *)
LEMMA MixinAdds ==
    ASSUME NEW t, NEW op, Listed(t), op.op = "mixin"
    PROVE  Adds(t, MixedIn(t, op), op)
<1> DEFINE class == InfoOf(t.classes, op.owner)
           changed == IF op.extend THEN [class EXCEPT !.extends = Append(@, op.module)]
                                   ELSE [class EXCEPT !.includes = Append(@, op.module)]
           entered == SetClass(t, op.owner, changed)
           forgot == ForgetSelves(ForgetLookups(entered))
           scheduled == Schedule(Schedule(forgot, op.owner), op.module)
           late == {k \in t.methods : k.owner = op.module}
<1>1. IsClass(class) /\ ClassLists(class)
  BY InfoIsClass, InfoLists DEF Listed, Shape
<1> HIDE DEF class
<1>2. /\ IsClass(changed) /\ ClassLists(changed)
      /\ op.extend => changed.includes = class.includes /\ Elements(changed.extends) = Elements(class.extends) \union {op.module}
      /\ ~ op.extend => changed.extends = class.extends /\ Elements(changed.includes) = Elements(class.includes) \union {op.module}
  <2>1. CASE op.extend
    <3>1. changed = [class EXCEPT !.extends = Append(class.extends, op.module)]
      BY <1>1, <2>1 DEF IsClass
    <3>2. IsList(Append(class.extends, op.module)) /\ Elements(Append(class.extends, op.module)) = Elements(class.extends) \union {op.module}
      BY <1>1, AppendList DEF ClassLists
    <3> DEFINE list == Append(class.extends, op.module)
    <3> HIDE DEF list, changed
    <3>3. /\ IsClass(changed) /\ changed.extends = list /\ changed.includes = class.includes
          /\ changed.prepends = class.prepends /\ changed.classMethods = class.classMethods
      BY <1>1, <3>1 DEF IsClass, list
    <3> QED BY <1>1, <2>1, <3>2, <3>3 DEF ClassLists, list
  <2>2. CASE ~ op.extend
    <3>1. changed = [class EXCEPT !.includes = Append(class.includes, op.module)]
      BY <1>1, <2>2 DEF IsClass
    <3>2. IsList(Append(class.includes, op.module)) /\ Elements(Append(class.includes, op.module)) = Elements(class.includes) \union {op.module}
      BY <1>1, AppendList DEF ClassLists
    <3> DEFINE list == Append(class.includes, op.module)
    <3> HIDE DEF list, changed
    <3>3. /\ IsClass(changed) /\ changed.includes = list /\ changed.extends = class.extends
          /\ changed.prepends = class.prepends /\ changed.classMethods = class.classMethods
      BY <1>1, <3>1 DEF IsClass, list
    <3> QED BY <1>1, <2>2, <3>2, <3>3 DEF ClassLists, list
  <2> QED BY <2>1, <2>2
<1> HIDE DEF changed
<1>3. /\ Shape(entered) /\ entered.methods = t.methods /\ entered.aliases = t.aliases
      /\ DOMAIN entered.classes = DOMAIN t.classes \union {op.owner}
      /\ InfoOf(entered.classes, op.owner) = changed
      /\ \A o : o # op.owner => InfoOf(entered.classes, o) = InfoOf(t.classes, o)
  <2>1. entered = SetClass(t, op.owner, changed) /\ Shape(t) /\ IsClass(changed)
    BY <1>2 DEF Listed
  <2> HIDE DEF entered, forgot, scheduled, late
  <2> QED BY <2>1, ClassEntered
<1> HIDE DEF entered
<1>4. HasLists(entered.classes)
  BY <1>2, <1>3, ListsEntered DEF Listed
<1>5. \A made : Made(entered, made) => Made(t, made) \/ Makes(op, made)
  <2> SUFFICES ASSUME NEW made, Made(entered, made) PROVE Made(t, made) \/ Makes(op, made)
    OBVIOUS
  <2>1. CASE made.op = "mixin" /\ made.owner = op.owner
    <3>1. made.module \in Elements(IF made.extend THEN changed.extends ELSE changed.includes)
      BY <1>3, <2>1 DEF Made
    <3>2. \/ made.module \in Elements(IF made.extend THEN class.extends ELSE class.includes)
          \/ made.module = op.module /\ (op.extend <=> made.extend)
      BY <1>2, <3>1
    <3> QED BY <2>1, <3>2 DEF Made, Makes, class
  <2>2. CASE made.op = "mixin" /\ made.owner # op.owner
    BY <1>3, <2>2 DEF Made
  <2>3. CASE made.op = "class"
    BY <1>3, <2>3 DEF Made, Makes
  <2>4. CASE made.op \notin {"mixin", "class"}
    BY <1>3, <2>4 DEF Made
  <2> QED BY <2>1, <2>2, <2>3, <2>4
<1>6. SameGraph(entered, forgot)
  <2>1. SameGraph(entered, ForgetLookups(entered)) /\ Shape(ForgetLookups(entered))
    BY <1>3, ForgetGraph DEF SameGraph
  <2>2. SameGraph(ForgetLookups(entered), forgot)
    BY <2>1, ForgetGraph
  <2> HIDE DEF forgot
  <2> QED BY <2>1, <2>2, SameGraphTransitive
<1> HIDE DEF forgot
<1>7. SameGraph(entered, scheduled)
  <2>1. Shape(forgot)
    BY <1>6 DEF SameGraph
  <2>2. SameGraph(forgot, Schedule(forgot, op.owner)) /\ Shape(Schedule(forgot, op.owner))
    BY <2>1, ScheduleGraph DEF SameGraph
  <2>3. SameGraph(Schedule(forgot, op.owner), scheduled)
    BY <2>2, ScheduleGraph
  <2> HIDE DEF scheduled
  <2> QED BY <1>6, <2>2, <2>3, SameGraphTransitive
<1> HIDE DEF scheduled
<1>8. SameGraph(entered, [scheduled EXCEPT !.changed = @ \union late])
  <2> DEFINE changes == scheduled.changed \union late
  <2>1. Shape(scheduled)
    BY <1>7 DEF SameGraph
  <2>2. [scheduled EXCEPT !.changed = @ \union late] = [scheduled EXCEPT !.changed = changes]
    BY <2>1 DEF Shape
  <2> HIDE DEF changes, late
  <2>3. SameGraph(scheduled, [scheduled EXCEPT !.changed = changes])
    BY <2>1, FieldsGraph
  <2>4. SameGraph(entered, [scheduled EXCEPT !.changed = changes])
    BY <1>7, <2>3, SameGraphTransitive
  <2> QED BY <2>2, <2>4
<1>9. MixedIn(t, op) = t \/ MixedIn(t, op) = [scheduled EXCEPT !.changed = @ \union late]
  BY DEF MixedIn, scheduled, forgot, entered, changed, class
<1>10. Adds(t, t, op)
  BY SameMade, FieldsGraph DEF Listed
<1>11. ASSUME NEW s, SameGraph(entered, s) PROVE Adds(t, s, op)
  <2>1. Listed(entered)
    BY <1>3, <1>4 DEF Listed
  <2>2. Listed(s) /\ \A made : Made(s, made) <=> Made(entered, made)
    BY <1>11, <2>1, SameMade DEF Adds
  <2> QED BY <1>5, <2>2 DEF Adds
<1> HIDE DEF late
<1> QED BY <1>8, <1>9, <1>10, <1>11

(* What keeps the graph makes nothing more. *)
LEMMA AddsSame ==
    ASSUME NEW t, NEW s, NEW r, NEW op, Adds(t, s, op), SameGraph(s, r)
    PROVE  Adds(t, r, op)
<1>1. Listed(r) /\ \A made : Made(r, made) <=> Made(s, made)
  BY SameMade DEF Adds
<1> QED BY <1>1 DEF Adds

LEMMA AfterMixinAdds ==
    ASSUME NEW t, NEW op, Listed(t), op.op = "mixin"
    PROVE  Adds(t, AfterMixin(t, op), op)
<1> DEFINE hook == Key(op.module, IF op.extend THEN "extended" ELSE "included", TRUE)
           known == Cached(MixedIn(t, op), hook)
<1>1. Adds(t, MixedIn(t, op), op) /\ Shape(MixedIn(t, op))
  BY MixinAdds DEF Adds, Listed
<1>2. Adds(t, known, op) /\ Shape(known)
  <2>1. SameGraph(MixedIn(t, op), known) /\ Shape(known)
    BY <1>1, CachedGraph DEF SameGraph
  <2> HIDE DEF known
  <2> QED BY <1>1, <2>1, AddsSame
<1>3. Adds(t, Record(known, hook, KeyOf(Unit)), op)
  <2> HIDE DEF known, hook
  <2> QED BY <1>2, RecordGraph, AddsSame
<1>4. AfterMixin(t, op) = known \/ AfterMixin(t, op) = Record(known, hook, KeyOf(Unit))
  BY DEF AfterMixin
<1> HIDE DEF known, hook
<1> QED BY <1>2, <1>3, <1>4

LEMMA AfterAliasAdds ==
    ASSUME NEW t, NEW op, Listed(t), op.op = "alias"
    PROVE  Adds(t, AfterAlias(t, op), op)
<1> DEFINE new == Key(op.owner, op.new, FALSE)
           old == Key(op.owner, op.old, FALSE)
           aliases == [k \in DOMAIN t.aliases \union {new} |-> IF k = new THEN old ELSE t.aliases[k]]
           renamed == [t EXCEPT !.aliases = aliases]
           s == ForgetLookups(renamed)
<1>0. renamed = [t EXCEPT !.aliases = [k \in DOMAIN @ \union {new} |-> IF k = new THEN old ELSE @[k]]]
  BY DEF Listed, Shape
<1>1. /\ Shape(renamed) /\ renamed.classes = t.classes /\ renamed.methods = t.methods
      /\ DOMAIN renamed.aliases = DOMAIN t.aliases \union {new}
  <2>1. DOMAIN aliases = DOMAIN t.aliases \union {new}
    OBVIOUS
  <2> HIDE DEF aliases
  <2>2. Shape(renamed) /\ renamed.classes = t.classes /\ renamed.methods = t.methods /\ renamed.aliases = aliases
    BY DEF Listed, Shape
  <2> QED BY <2>1, <2>2
<1> HIDE DEF renamed, aliases
<1>2. Adds(t, renamed, op)
  <2>1. Listed(renamed)
    BY <1>1 DEF Listed
  <2>2. ASSUME NEW made, Made(renamed, made) PROVE Made(t, made) \/ Makes(op, made)
    BY <1>1, <2>2 DEF Made, Makes, Key
  <2> QED BY <2>1, <2>2 DEF Adds
<1>3. Adds(t, s, op) /\ Shape(s)
  BY <1>1, <1>2, ForgetGraph, AddsSame DEF SameGraph
<1> HIDE DEF s
<1>4. Adds(t, Schedule(s, op.owner), op)
  BY <1>3, ScheduleGraph, AddsSame
<1>5. Adds(t, t, op)
  BY SameMade, FieldsGraph DEF Listed
<1>6. AfterAlias(t, op) = t \/ AfterAlias(t, op) = Schedule(s, op.owner)
  BY <1>0 DEF AfterAlias, s
<1> QED BY <1>4, <1>5, <1>6

LEMMA AfterClassNewAdds ==
    ASSUME NEW t, NEW op, Listed(t), op.op = "class"
    PROVE  Adds(t, AfterClassNew(t, op), op)
<1> DEFINE info == InfoOf(t.classes, op.owner)
           class == IF info.superclass = None THEN [info EXCEPT !.superclass = op.superclass] ELSE info
           entered == SetClass(t, op.owner, class)
<1>1. IsClass(info) /\ ClassLists(info)
  BY InfoIsClass, InfoLists DEF Listed, Shape
<1> HIDE DEF info
<1>2. /\ IsClass(class) /\ class.includes = info.includes /\ class.extends = info.extends
      /\ class.prepends = info.prepends /\ class.classMethods = info.classMethods
  <2>1. CASE info.superclass = None
    <3>1. class = [info EXCEPT !.superclass = op.superclass]
      BY <2>1
    <3> HIDE DEF class
    <3> QED BY <1>1, <3>1 DEF IsClass
  <2> QED BY <1>1, <2>1
<1> HIDE DEF class
<1>3. /\ Shape(entered) /\ entered.methods = t.methods /\ entered.aliases = t.aliases
      /\ DOMAIN entered.classes = DOMAIN t.classes \union {op.owner}
      /\ InfoOf(entered.classes, op.owner) = class
      /\ \A o : o # op.owner => InfoOf(entered.classes, o) = InfoOf(t.classes, o)
  <2>1. entered = SetClass(t, op.owner, class) /\ Shape(t) /\ IsClass(class)
    BY <1>2 DEF Listed
  <2> HIDE DEF entered
  <2> QED BY <2>1, ClassEntered
<1> HIDE DEF entered
<1>4. Listed(entered)
  <2>1. ClassLists(class)
    BY <1>1, <1>2 DEF ClassLists
  <2> QED BY <1>3, <2>1, ListsEntered DEF Listed
<1>5. ASSUME NEW made, Made(entered, made) PROVE Made(t, made) \/ Makes(op, made)
  <2>1. CASE made.op = "mixin"
    BY <1>2, <1>3, <1>5, <2>1 DEF Made, info
  <2>2. CASE made.op = "class"
    BY <1>3, <1>5, <2>2 DEF Made, Makes
  <2>3. CASE made.op \notin {"mixin", "class"}
    BY <1>3, <1>5, <2>3 DEF Made
  <2> QED BY <2>1, <2>2, <2>3
<1>6. Adds(t, entered, op)
  BY <1>4, <1>5 DEF Adds
<1>7. Adds(t, ForgetLookups(entered), op)
  BY <1>3, <1>6, ForgetGraph, AddsSame
<1>8. AfterClassNew(t, op) = ForgetLookups(entered)
  BY DEF AfterClassNew, entered, class, info
<1> QED BY <1>7, <1>8

LEMMA AfterDefineAdds ==
    ASSUME NEW t, NEW op, Listed(t), op.op = "define"
    PROVE  Adds(t, AfterDefine(t, op), op)
<1> DEFINE s == [t EXCEPT !.methods = t.methods \union {op.key}]
<1>1. AfterDefine(t, op) = s
  BY DEF AfterDefine, Listed, Shape
<1>2. Shape(s) /\ s.classes = t.classes /\ s.aliases = t.aliases /\ s.methods = t.methods \union {op.key}
  BY DEF Listed, Shape
<1> HIDE DEF s
<1>3. ASSUME NEW made, Made(s, made) PROVE Made(t, made) \/ Makes(op, made)
  BY <1>2, <1>3 DEF Made, Makes
<1> QED BY <1>1, <1>2, <1>3 DEF Adds, Listed

(* Whatever a body does, it makes what its operation says. *)
LEMMA AfterAdds ==
    ASSUME Listed(tables)
    PROVE  Adds(tables, After(tables, Op), Op)
<1> DEFINE op == Op
<1>0. Shape(tables)
  BY DEF Listed
<1>1. Adds(tables, AfterCall(tables, op), op)
  <2> DEFINE r == Record(tables, op.key, Caller(op))
             seen == [r.seen EXCEPT ![Unit].calls = @ \union {<< op.key, r.cache[op.key] >>}]
  <2>1. SameGraph(tables, r) /\ Shape(r)
    BY <1>0, RecordGraph DEF SameGraph
  <2> HIDE DEF r
  <2>2. AfterCall(tables, op) = [r EXCEPT !.seen = seen]
    BY <2>1 DEF AfterCall, r, Shape
  <2> HIDE DEF seen, op
  <2>3. SameGraph(r, [r EXCEPT !.seen = seen])
    BY <2>1, FieldsGraph
  <2>4. SameGraph(tables, [r EXCEPT !.seen = seen])
    BY <2>1, <2>3, SameGraphTransitive
  <2> QED BY <2>2, <2>4, SameMade
<1>2. Adds(tables, AfterSuper(tables, KeyOf(Unit)), op)
  <2> DEFINE found == SuperOf(tables.classes, tables.methods, tables.aliases, KeyOf(Unit))
             r == IF found = None THEN tables ELSE Record(tables, found, KeyOf(Unit))
             seen == [r.seen EXCEPT ![Unit].supers = @ \union {found}]
  <2> HIDE DEF found
  <2>1. SameGraph(tables, r) /\ Shape(r)
    BY <1>0, RecordGraph, FieldsGraph DEF SameGraph
  <2> HIDE DEF r
  <2>2. AfterSuper(tables, KeyOf(Unit)) = [r EXCEPT !.seen = seen]
    BY <2>1 DEF AfterSuper, r, found, Shape
  <2> HIDE DEF seen, op
  <2>3. SameGraph(r, [r EXCEPT !.seen = seen])
    BY <2>1, FieldsGraph
  <2>4. SameGraph(tables, [r EXCEPT !.seen = seen])
    BY <2>1, <2>3, SameGraphTransitive
  <2> QED BY <2>2, <2>4, SameMade
<1>3. /\ op.op = "mixin" => Adds(tables, AfterMixin(tables, op), op)
      /\ op.op = "alias" => Adds(tables, AfterAlias(tables, op), op)
      /\ op.op = "class" => Adds(tables, AfterClassNew(tables, op), op)
      /\ op.op = "define" => Adds(tables, AfterDefine(tables, op), op)
  BY AfterMixinAdds, AfterAliasAdds, AfterClassNewAdds, AfterDefineAdds
<1>4. Adds(tables, tables, op)
  BY <1>0, SameMade, FieldsGraph
<1> HIDE DEF op
<1>5. Adds(tables, After(tables, op), op)
  BY <1>1, <1>2, <1>3, <1>4 DEF After
<1> QED BY <1>5 DEF op
-----------------------------------------------------------------------------
(* Lists that are put together one element at a time. *)

(* A set of numbers that is not empty has a least member. *)
LEMMA LeastNumber ==
    ASSUME NEW T, T \subseteq Nat, T # {}
    PROVE  \E n \in T : \A m \in T : ~ (m < n)
<1> DEFINE R == OpToRel(<, Nat)
<1>1. IsWellFoundedOn(R, Nat)
  BY NatLessThanWellFounded
<1>2. \E n \in T : \A m \in T : ~ (<< m, n >> \in R)
  <2> HIDE DEF R
  <2> QED BY <1>1, WFMin
<1>3. \A m, n \in T : m < n => << m, n >> \in R
  BY DEF OpToRel
<1> QED BY <1>2, <1>3

(* What holds at the start and is kept by every step holds throughout. *)
LEMMA EveryStep ==
    ASSUME NEW n \in Nat, NEW S, NEW f, f[0] \in S, \A i \in 1 .. n : f[i - 1] \in S => f[i] \in S
    PROVE  \A i \in 0 .. n : f[i] \in S
<1> SUFFICES ASSUME NEW k \in 0 .. n, f[k] \notin S PROVE FALSE
  OBVIOUS
<1> DEFINE T == {i \in 0 .. n : f[i] \notin S}
<1>1. PICK i \in T : \A m \in T : ~ (m < i)
  <2>1. T \subseteq Nat /\ T # {}
    OBVIOUS
  <2> HIDE DEF T
  <2> QED BY <2>1, LeastNumber
<1>2. i \in 1 .. n /\ i - 1 \in 0 .. n /\ i - 1 < i
  BY <1>1
<1>3. f[i - 1] \in S
  BY <1>1, <1>2
<1> QED BY <1>1, <1>2, <1>3

\* A function that is given by its start and its steps.
StepsIn(n, S, step) == \A i \in 1 .. n : \A x \in S : step[i][x] \in S
TakesSteps(f, n, S, first, step) ==
    f \in [0 .. n -> S] /\ \A i \in 0 .. n : f[i] = IF i = 0 THEN first ELSE step[i][f[i - 1]]

(* There is one. *)
LEMMA StepsDefine ==
    ASSUME NEW n \in Nat, NEW S, NEW first \in S, NEW step, StepsIn(n, S, step)
    PROVE  \E f : TakesSteps(f, n, S, first, step)
<1> DEFINE Upto(k) == \E f : TakesSteps(f, k, S, first, step)
           T == {k \in 0 .. n : ~ Upto(k)}
<1> SUFFICES ASSUME ~ Upto(n) PROVE FALSE
  OBVIOUS
<1>1. PICK k \in T : \A m \in T : ~ (m < k)
  <2>1. T \subseteq Nat /\ T # {}
    <3> HIDE DEF Upto
    <3>1. n \in T
      OBVIOUS
    <3> QED BY <3>1
  <2> HIDE DEF T
  <2> QED BY <2>1, LeastNumber
<1>2. k \in 0 .. n /\ ~ Upto(k)
  BY <1>1
<1>3. k # 0
  <2> SUFFICES ASSUME k = 0 PROVE FALSE
    OBVIOUS
  <2> DEFINE f == [i \in 0 .. 0 |-> first]
  <2>1. TakesSteps(f, 0, S, first, step)
    BY DEF TakesSteps
  <2> HIDE DEF f
  <2> QED BY <1>2, <2>1
<1>4. k - 1 \in 0 .. n /\ k - 1 < k /\ k \in 1 .. n
  BY <1>2, <1>3
<1>5. Upto(k - 1)
  <2> HIDE DEF Upto
  <2> QED BY <1>1, <1>4
<1>6. PICK f : TakesSteps(f, k - 1, S, first, step)
  BY <1>5
<1> DEFINE last == step[k][f[k - 1]]
           g == [i \in 0 .. k |-> IF i = k THEN last ELSE f[i]]
<1>7. last \in S
  <2>1. f[k - 1] \in S
    BY <1>4, <1>6 DEF TakesSteps
  <2> QED BY <1>4, <2>1 DEF StepsIn
<1>8. \A i \in 0 .. k - 1 : g[i] = f[i]
  BY <1>4
<1>9. g[k] = last
  BY <1>4
<1>10. g \in [0 .. k -> S]
  <2>1. \A i \in 0 .. k : (IF i = k THEN last ELSE f[i]) \in S
    <3> HIDE DEF last
    <3> QED BY <1>4, <1>6, <1>7 DEF TakesSteps
  <2> HIDE DEF last
  <2> QED BY <2>1
<1> HIDE DEF g
<1>11. \A i \in 0 .. k : g[i] = IF i = 0 THEN first ELSE step[i][g[i - 1]]
  <2> SUFFICES ASSUME NEW i \in 0 .. k PROVE g[i] = IF i = 0 THEN first ELSE step[i][g[i - 1]]
    OBVIOUS
  <2>1. CASE i = k
    BY <1>4, <1>8, <1>9, <2>1
  <2>2. CASE i # k
    <3>1. i \in 0 .. k - 1 /\ (i # 0 => i - 1 \in 0 .. k - 1)
      BY <1>4, <2>2
    <3> QED BY <1>6, <1>8, <3>1 DEF TakesSteps
  <2> QED BY <2>1, <2>2
<1>12. TakesSteps(g, k, S, first, step)
  BY <1>10, <1>11 DEF TakesSteps
<1> QED BY <1>2, <1>12

(* The source order of some of the units. *)
LEMMA InOrderTyped ==
    ASSUME NEW U, NEW order \in Seq(U), NEW some
    PROVE  InOrder(order, some) \in Seq(U)
<1> DEFINE n == Len(order)
           Step1(x, i) == IF order[i] \in some THEN Append(x, order[i]) ELSE x
           F == CHOOSE f : f = [i \in 0 .. n |-> IF i = 0 THEN << >> ELSE Step1(f[i - 1], i)]
           step == [i \in 1 .. n |-> [x \in Seq(U) |-> Step1(x, i)]]
<1>1. n \in Nat /\ \A i \in 1 .. n : order[i] \in U
  OBVIOUS
<1>2. \A i \in 1 .. n : \A x \in Seq(U) : Step1(x, i) \in Seq(U)
  BY <1>1
<1> HIDE DEF n, Step1
<1>4. \A i \in 1 .. n : \A x \in Seq(U) : step[i][x] = Step1(x, i)
  OBVIOUS
<1> HIDE DEF step
<1>3. StepsIn(n, Seq(U), step) /\ << >> \in Seq(U)
  BY <1>2, <1>4 DEF StepsIn
<1>5. PICK f : TakesSteps(f, n, Seq(U), << >>, step)
  BY <1>1, <1>3, StepsDefine
<1>6. \A i \in 0 .. n : f[i] = IF i = 0 THEN << >> ELSE Step1(f[i - 1], i)
  <2> SUFFICES ASSUME NEW i \in 0 .. n PROVE f[i] = IF i = 0 THEN << >> ELSE Step1(f[i - 1], i)
    OBVIOUS
  <2>1. i # 0 => i \in 1 .. n /\ i - 1 \in 0 .. n
    BY <1>1
  <2> QED BY <1>4, <1>5, <2>1 DEF TakesSteps
<1>7. f = [i \in 0 .. n |-> IF i = 0 THEN << >> ELSE Step1(f[i - 1], i)]
  <2>1. f = [i \in 0 .. n |-> f[i]]
    BY <1>5 DEF TakesSteps
  <2> QED BY <1>6, <2>1
<1>8. F = [i \in 0 .. n |-> IF i = 0 THEN << >> ELSE Step1(F[i - 1], i)]
  BY <1>7
<1> HIDE DEF F
<1>9. \A i \in 0 .. n : F[i] \in Seq(U)
  <2>1. F[0] \in Seq(U)
    BY <1>1, <1>3, <1>8
  <2>2. \A i \in 1 .. n : F[i - 1] \in Seq(U) => F[i] \in Seq(U)
    <3> SUFFICES ASSUME NEW i \in 1 .. n, F[i - 1] \in Seq(U) PROVE F[i] \in Seq(U)
      OBVIOUS
    <3>1. F[i] = Step1(F[i - 1], i)
      BY <1>1, <1>8
    <3> QED BY <1>2, <3>1
  <2> DEFINE S == Seq(U)
  <2> HIDE DEF S
  <2>3. \A i \in 0 .. n : F[i] \in S
    BY <1>1, <2>1, <2>2, EveryStep DEF S
  <2> QED BY <2>3 DEF S
<1> QED BY <1>1, <1>9 DEF InOrder, F, n, Step1

(* Sequences are lists. *)
LEMMA SeqIsList ==
    ASSUME NEW S, NEW s \in Seq(S)
    PROVE  IsList(s) /\ Len(s) \in Nat
BY DEF IsList

(* A list stays one when others are pushed to it. *)
LEMMA PushAllList ==
    ASSUME NEW s, IsList(s), NEW new, Len(new) \in Nat
    PROVE  IsList(PushAll(s, new))
<1> DEFINE n == Len(new)
           T == {s[i] : i \in DOMAIN s} \union {new[i] : i \in 1 .. n}
           S == Seq(T)
           Step1(x, i) == PushNew(x, new[i])
           F == CHOOSE f : f = [i \in 0 .. n |-> IF i = 0 THEN s ELSE Step1(f[i - 1], i)]
           step == [i \in 1 .. n |-> [x \in S |-> Step1(x, i)]]
<1>1. n \in Nat /\ s \in S
  <2>1. s \in Seq({s[i] : i \in DOMAIN s})
    BY DEF IsList
  <2> QED BY <2>1, SeqMonotonic
<1>2. \A i \in 1 .. n : \A x \in S : Step1(x, i) \in S
  <2> SUFFICES ASSUME NEW i \in 1 .. n, NEW x \in Seq(T) PROVE PushNew(x, new[i]) \in Seq(T)
    OBVIOUS
  <2>1. new[i] \in T
    OBVIOUS
  <2> HIDE DEF T
  <2> QED BY <2>1 DEF PushNew
<1> HIDE DEF n, Step1, S
<1>3. \A i \in 1 .. n : \A x \in S : step[i][x] = Step1(x, i)
  OBVIOUS
<1> HIDE DEF step
<1>4. StepsIn(n, S, step)
  BY <1>2, <1>3 DEF StepsIn
<1>5. PICK f : TakesSteps(f, n, S, s, step)
  BY <1>1, <1>4, StepsDefine
<1>6. \A i \in 0 .. n : f[i] = IF i = 0 THEN s ELSE Step1(f[i - 1], i)
  <2> SUFFICES ASSUME NEW i \in 0 .. n PROVE f[i] = IF i = 0 THEN s ELSE Step1(f[i - 1], i)
    OBVIOUS
  <2>1. i # 0 => i \in 1 .. n /\ i - 1 \in 0 .. n
    BY <1>1
  <2> QED BY <1>3, <1>5, <2>1 DEF TakesSteps
<1>7. f = [i \in 0 .. n |-> IF i = 0 THEN s ELSE Step1(f[i - 1], i)]
  <2>1. f = [i \in 0 .. n |-> f[i]]
    BY <1>5 DEF TakesSteps
  <2> QED BY <1>6, <2>1
<1>8. F = [i \in 0 .. n |-> IF i = 0 THEN s ELSE Step1(F[i - 1], i)]
  BY <1>7
<1> HIDE DEF F
<1>9. \A i \in 0 .. n : F[i] \in S
  <2>1. F[0] \in S
    BY <1>1, <1>8
  <2>2. \A i \in 1 .. n : F[i - 1] \in S => F[i] \in S
    <3> SUFFICES ASSUME NEW i \in 1 .. n, F[i - 1] \in S PROVE F[i] \in S
      OBVIOUS
    <3>1. F[i] = Step1(F[i - 1], i)
      BY <1>1, <1>8
    <3> QED BY <1>2, <3>1
  <2> QED BY <1>1, <2>1, <2>2, EveryStep
<1>10. F[n] \in Seq(T)
  BY <1>1, <1>9 DEF S
<1>11. PushAll(s, new) = F[n]
  BY DEF PushAll, F, n, Step1
<1> HIDE DEF T
<1> QED BY <1>10, <1>11, SeqIsList

\* The two halves of Contributed.
NamedMethods(classes, mixins) ==
    LET all[i \in 0 .. Len(mixins)] ==
            IF i = 0 THEN << >> ELSE all[i - 1] \o InfoOf(classes, mixins[i]).classMethods
    IN all[Len(mixins)]
ConcernMethods(classes, mixins) ==
    LET concerns[i \in 0 .. Len(mixins)] ==
            IF i = 0 THEN << >>
            ELSE IF mixins[i] \in DOMAIN classes /\ IsConcern(classes, mixins[i])
                 THEN Append(concerns[i - 1], ClassMethodsOf[mixins[i]]) ELSE concerns[i - 1]
    IN concerns[Len(mixins)]

(* What the mixins name is a list. *)
LEMMA NamedList ==
    ASSUME NEW classes, HasLists(classes), NEW mixins, Len(mixins) \in Nat
    PROVE  \E T : NamedMethods(classes, mixins) \in Seq(T)
<1> DEFINE n == Len(mixins)
           T == UNION {Elements(InfoOf(classes, mixins[i]).classMethods) : i \in 1 .. n}
           S == Seq(T)
           Step1(x, i) == x \o InfoOf(classes, mixins[i]).classMethods
           F == CHOOSE f : f = [i \in 0 .. n |-> IF i = 0 THEN << >> ELSE Step1(f[i - 1], i)]
           step == [i \in 1 .. n |-> [x \in S |-> Step1(x, i)]]
<1>1. n \in Nat /\ << >> \in S
  OBVIOUS
<1>2. \A i \in 1 .. n : \A x \in S : Step1(x, i) \in S
  <2> SUFFICES ASSUME NEW i \in 1 .. n, NEW x \in Seq(T) PROVE x \o InfoOf(classes, mixins[i]).classMethods \in Seq(T)
    OBVIOUS
  <2> DEFINE list == InfoOf(classes, mixins[i]).classMethods
  <2>1. IsList(list)
    BY InfoLists DEF ClassLists
  <2>2. Elements(list) \subseteq T
    OBVIOUS
  <2> HIDE DEF T, list
  <2>3. list \in Seq(Elements(list))
    BY <2>1 DEF IsList, Elements
  <2>4. list \in Seq(T)
    BY <2>2, <2>3, SeqMonotonic
  <2>5. x \o list \in Seq(T)
    BY <2>4
  <2> QED BY <2>5 DEF list
<1> HIDE DEF n, Step1, S
<1>3. \A i \in 1 .. n : \A x \in S : step[i][x] = Step1(x, i)
  OBVIOUS
<1> HIDE DEF step
<1>4. StepsIn(n, S, step)
  BY <1>2, <1>3 DEF StepsIn
<1>5. PICK f : TakesSteps(f, n, S, << >>, step)
  BY <1>1, <1>4, StepsDefine
<1>6. \A i \in 0 .. n : f[i] = IF i = 0 THEN << >> ELSE Step1(f[i - 1], i)
  <2> SUFFICES ASSUME NEW i \in 0 .. n PROVE f[i] = IF i = 0 THEN << >> ELSE Step1(f[i - 1], i)
    OBVIOUS
  <2>1. i # 0 => i \in 1 .. n /\ i - 1 \in 0 .. n
    BY <1>1
  <2> QED BY <1>3, <1>5, <2>1 DEF TakesSteps
<1>7. f = [i \in 0 .. n |-> IF i = 0 THEN << >> ELSE Step1(f[i - 1], i)]
  <2>1. f = [i \in 0 .. n |-> f[i]]
    BY <1>5 DEF TakesSteps
  <2> QED BY <1>6, <2>1
<1>8. F = [i \in 0 .. n |-> IF i = 0 THEN << >> ELSE Step1(F[i - 1], i)]
  BY <1>7
<1> HIDE DEF F
<1>9. \A i \in 0 .. n : F[i] \in S
  <2>1. F[0] \in S
    BY <1>1, <1>8
  <2>2. \A i \in 1 .. n : F[i - 1] \in S => F[i] \in S
    <3> SUFFICES ASSUME NEW i \in 1 .. n, F[i - 1] \in S PROVE F[i] \in S
      OBVIOUS
    <3>1. F[i] = Step1(F[i - 1], i)
      BY <1>1, <1>8
    <3> QED BY <1>2, <3>1
  <2> QED BY <1>1, <2>1, <2>2, EveryStep
<1>10. F[n] \in Seq(T)
  BY <1>1, <1>9 DEF S
<1>11. NamedMethods(classes, mixins) = F[n]
  BY DEF NamedMethods, F, n, Step1
<1> HIDE DEF T
<1> QED BY <1>10, <1>11

(* So is what the concerns among them bring. *)
LEMMA ConcernList ==
    ASSUME NEW classes, NEW mixins, Len(mixins) \in Nat
    PROVE  \E T : ConcernMethods(classes, mixins) \in Seq(T)
<1> DEFINE n == Len(mixins)
           T == {ClassMethodsOf[mixins[i]] : i \in 1 .. n}
           S == Seq(T)
           Step1(x, i) == IF mixins[i] \in DOMAIN classes /\ IsConcern(classes, mixins[i])
                             THEN Append(x, ClassMethodsOf[mixins[i]]) ELSE x
           F == CHOOSE f : f = [i \in 0 .. n |-> IF i = 0 THEN << >> ELSE Step1(f[i - 1], i)]
           step == [i \in 1 .. n |-> [x \in S |-> Step1(x, i)]]
<1>1. n \in Nat /\ << >> \in S
  OBVIOUS
<1>2. \A i \in 1 .. n : \A x \in S : Step1(x, i) \in S
  <2> SUFFICES ASSUME NEW i \in 1 .. n, NEW x \in Seq(T) PROVE Append(x, ClassMethodsOf[mixins[i]]) \in Seq(T)
    OBVIOUS
  <2>1. ClassMethodsOf[mixins[i]] \in T
    OBVIOUS
  <2> HIDE DEF T
  <2> QED BY <2>1
<1> HIDE DEF n, Step1, S
<1>3. \A i \in 1 .. n : \A x \in S : step[i][x] = Step1(x, i)
  OBVIOUS
<1> HIDE DEF step
<1>4. StepsIn(n, S, step)
  BY <1>2, <1>3 DEF StepsIn
<1>5. PICK f : TakesSteps(f, n, S, << >>, step)
  BY <1>1, <1>4, StepsDefine
<1>6. \A i \in 0 .. n : f[i] = IF i = 0 THEN << >> ELSE Step1(f[i - 1], i)
  <2> SUFFICES ASSUME NEW i \in 0 .. n PROVE f[i] = IF i = 0 THEN << >> ELSE Step1(f[i - 1], i)
    OBVIOUS
  <2>1. i # 0 => i \in 1 .. n /\ i - 1 \in 0 .. n
    BY <1>1
  <2> QED BY <1>3, <1>5, <2>1 DEF TakesSteps
<1>7. f = [i \in 0 .. n |-> IF i = 0 THEN << >> ELSE Step1(f[i - 1], i)]
  <2>1. f = [i \in 0 .. n |-> f[i]]
    BY <1>5 DEF TakesSteps
  <2> QED BY <1>6, <2>1
<1>8. F = [i \in 0 .. n |-> IF i = 0 THEN << >> ELSE Step1(F[i - 1], i)]
  BY <1>7
<1> HIDE DEF F
<1>9. \A i \in 0 .. n : F[i] \in S
  <2>1. F[0] \in S
    BY <1>1, <1>8
  <2>2. \A i \in 1 .. n : F[i - 1] \in S => F[i] \in S
    <3> SUFFICES ASSUME NEW i \in 1 .. n, F[i - 1] \in S PROVE F[i] \in S
      OBVIOUS
    <3>1. F[i] = Step1(F[i - 1], i)
      BY <1>1, <1>8
    <3> QED BY <1>2, <3>1
  <2> QED BY <1>1, <2>1, <2>2, EveryStep
<1>10. F[n] \in Seq(T)
  BY <1>1, <1>9 DEF S
<1>11. ConcernMethods(classes, mixins) = F[n]
  BY DEF ConcernMethods, F, n, Step1
<1> HIDE DEF T
<1> QED BY <1>10, <1>11

LEMMA ContributedList ==
    ASSUME NEW classes, HasLists(classes), NEW mixins, Len(mixins) \in Nat
    PROVE  Len(Contributed(classes, mixins)) \in Nat
<1>1. Contributed(classes, mixins) = NamedMethods(classes, mixins) \o ConcernMethods(classes, mixins)
  BY DEF Contributed, NamedMethods, ConcernMethods
<1>2. PICK T : NamedMethods(classes, mixins) \in Seq(T)
  BY NamedList
<1>3. PICK R : ConcernMethods(classes, mixins) \in Seq(R)
  BY ConcernList
<1> DEFINE a == NamedMethods(classes, mixins)
           b == ConcernMethods(classes, mixins)
<1>4. a \in Seq(T \union R) /\ b \in Seq(T \union R)
  <2>1. a \in Seq(T) /\ b \in Seq(R)
    BY <1>2, <1>3
  <2> HIDE DEF a, b
  <2> QED BY <2>1, SeqMonotonic
<1> HIDE DEF a, b
<1>5. a \o b \in Seq(T \union R)
  BY <1>4
<1>6. Len(a \o b) \in Nat
  BY <1>5
<1> QED BY <1>1, <1>6 DEF a, b

(* Registration leaves a graph with lists. *)
LEMMA NormalizeLists ==
    ASSUME NEW classes, HasLists(classes), IsGraph(classes)
    PROVE  IsGraph(Normalize(classes)) /\ HasLists(Normalize(classes))
<1> DEFINE graph == WithObject(classes)
<1>1. IsGraph(graph) /\ HasLists(graph)
  <2>1. graph = [o \in DOMAIN classes |-> graph[o]] /\ DOMAIN graph = DOMAIN classes
    BY DEF WithObject
  <2>2. ASSUME NEW o \in DOMAIN classes
        PROVE  /\ IsClass(graph[o]) /\ graph[o].includes = classes[o].includes /\ graph[o].prepends = classes[o].prepends
               /\ graph[o].extends = classes[o].extends /\ graph[o].classMethods = classes[o].classMethods
    <3>1. IsClass(classes[o])
      BY DEF IsGraph
    <3>2. graph[o] = classes[o] \/ graph[o] = [classes[o] EXCEPT !.superclass = "Object"]
      BY DEF WithObject
    <3> HIDE DEF graph
    <3> QED BY <3>1, <3>2 DEF IsClass
  <2> HIDE DEF graph
  <2> QED BY <2>1, <2>2 DEF IsGraph, HasLists
<1> HIDE DEF graph
<1> DEFINE extends(o) == PushAll(graph[o].extends, Contributed(graph, graph[o].includes \o graph[o].prepends))
           normal == Normalize(classes)
<1>2. ASSUME NEW o \in DOMAIN graph
      PROVE  IsList(extends(o))
  <2> DEFINE a == graph[o].includes
             b == graph[o].prepends
  <2>1. IsList(a) /\ IsList(b) /\ IsList(graph[o].extends)
    BY <1>1 DEF HasLists
  <2> HIDE DEF a, b
  <2>2. Len(a \o b) \in Nat
    <3> DEFINE R == {a[i] : i \in DOMAIN a} \union {b[i] : i \in DOMAIN b}
    <3>1. a \in Seq(R) /\ b \in Seq(R)
      <4>1. a \in Seq({a[i] : i \in DOMAIN a}) /\ b \in Seq({b[i] : i \in DOMAIN b})
        BY <2>1 DEF IsList
      <4> QED BY <4>1, SeqMonotonic
    <3> HIDE DEF R
    <3>2. a \o b \in Seq(R)
      BY <3>1
    <3> QED BY <3>2
  <2>3. Len(Contributed(graph, a \o b)) \in Nat
    BY <1>1, <2>2, ContributedList
  <2>4. IsList(PushAll(graph[o].extends, Contributed(graph, a \o b)))
    BY <2>1, <2>3, PushAllList
  <2> QED BY <2>4 DEF a, b
<1>3. normal = [o \in DOMAIN graph |-> [graph[o] EXCEPT !.extends = extends(o)]]
  <2>1. normal = [o \in DOMAIN graph |-> [graph[o] EXCEPT !.extends = PushAll(@, Contributed(graph, graph[o].includes \o graph[o].prepends))]]
    BY DEF Normalize, graph
  <2>2. \A o \in DOMAIN graph : [graph[o] EXCEPT !.extends = PushAll(@, Contributed(graph, graph[o].includes \o graph[o].prepends))]
                                = [graph[o] EXCEPT !.extends = extends(o)]
    BY <1>1 DEF IsGraph, IsClass
  <2> QED BY <2>1, <2>2
<1> HIDE DEF normal, extends
<1>4. ASSUME NEW o \in DOMAIN graph
      PROVE  IsClass(normal[o]) /\ ClassLists(normal[o])
  <2>1. normal[o] = [graph[o] EXCEPT !.extends = extends(o)]
    BY <1>3
  <2>2. IsClass(graph[o]) /\ ClassLists(graph[o])
    BY <1>1 DEF IsGraph, HasLists, ClassLists
  <2>3. /\ IsClass(normal[o]) /\ normal[o].includes = graph[o].includes /\ normal[o].prepends = graph[o].prepends
        /\ normal[o].extends = extends(o) /\ normal[o].classMethods = graph[o].classMethods
    BY <2>1, <2>2 DEF IsClass
  <2> QED BY <1>2, <2>2, <2>3 DEF ClassLists
<1>5. DOMAIN normal = DOMAIN graph /\ normal = [o \in DOMAIN normal |-> normal[o]]
  BY <1>3
<1> QED BY <1>4, <1>5 DEF IsGraph, HasLists, ClassLists, normal

-----------------------------------------------------------------------------
(***************************************************************************)
(* The inductive invariant.  Between bodies the tables hold what the       *)
(* source or a live operation makes (Clean).  While a unit is evaluated    *)
(* they may also hold what an open body did that is still to give up       *)
(* (Doomed): it leaves with the snapshot of that body, or of one around    *)
(* it, since a snapshot holds what was there when its body was opened.     *)
(***************************************************************************)
Body(u) == program.body[u]
Depth(u) == program.depth[u]
Clean(t) == \A op : Made(t, op) => Kept(op)
Doomed(u, at, i) ==
    /\ i < at
    /\ \E open \in 1 .. i, fail \in at .. Len(Body(u)) : GivesUp(Body(u), Depth(u), open, fail)
Explained(t, u, at) ==
    \A op : Made(t, op) =>
        \/ Kept(op)
        \/ \E i \in DOMAIN Body(u) : Doomed(u, at, i) /\ Makes(Body(u)[i], op)
IsOpen(u, open, level, at) ==
    /\ open < at /\ Body(u)[open].op = "open" /\ Depth(u)[open] = level
    /\ \A i \in open .. at - 1 : Depth(u)[i] >= level
\* What is kept for an open body.
Keeps(u, open, entry) ==
    IF entry = << >> THEN ~ Body(u)[open].knownFailure
    ELSE Listed(entry[1]) /\ Explained(entry[1], u, open)
OpenBodies(u, at, entries) ==
    \A level \in 1 .. Len(entries) : \E open \in DOMAIN Body(u) :
        IsOpen(u, open, level, at) /\ Keeps(u, open, entries[level])
Holds(t, todo, at, entries) ==
    /\ program \in Programs /\ todo \in Seq(DOMAIN program.body) /\ at \in Nat
    /\ Listed(t) /\ IsList(entries)
    /\ at = 0 => entries = << >> /\ Clean(t)
    /\ at # 0 =>
          /\ todo # << >> /\ at \in 1 .. Len(Body(Head(todo))) + 1
          /\ Len(entries) = Depth(Head(todo))[at - 1]
          /\ Explained(t, Head(todo), at)
          /\ OpenBodies(Head(todo), at, entries)
LeakInv == Holds(tables, units, pc, saved)

\* The bodies of a unit nest.
Nested(u) == IsNested(Body(u), Depth(u)) /\ program.dead[u] = Dead(Body(u), Depth(u))

LEMMA UnitNested ==
    ASSUME LeakInv, units # << >>
    PROVE  Unit \in DOMAIN program.body /\ Nested(Unit)
<1>1. Unit \in DOMAIN program.body
  BY DEF LeakInv, Holds, Unit
<1> QED BY <1>1, ProgramsAssumption DEF LeakInv, Holds, Nested, Body, Depth

(* The source under analysis does not change. *)
LEMMA SameProgram ==
    ASSUME program' = program, Holds(tables', units', pc', saved')
    PROVE  LeakInv'
<1>1. \A op : Kept(op)' <=> Kept(op)
  BY DEF Kept
<1>2. \A u : Body(u)' = Body(u) /\ Depth(u)' = Depth(u)
  BY DEF Body, Depth
<1>3. \A u, at, i : Doomed(u, at, i)' <=> Doomed(u, at, i)
  BY <1>2 DEF Doomed, Body, Depth
<1>4. \A t, u, at : Explained(t, u, at)' <=> Explained(t, u, at)
  BY <1>1, <1>3 DEF Explained, Body, Doomed, Kept, Depth
<1>5. \A t : Clean(t)' <=> Clean(t)
  BY <1>1 DEF Clean, Kept
<1>6. Clean(tables') => Clean(tables)'
  BY <1>1 DEF Clean
<1>7. Explained(tables', Head(units'), pc') => Explained(tables, Head(units), pc)'
  BY <1>1, <1>2, <1>3 DEF Explained
<1>8. OpenBodies(Head(units'), pc', saved') => OpenBodies(Head(units), pc, saved)'
  BY <1>1, <1>2, <1>3, <1>4 DEF OpenBodies, IsOpen, Keeps
<1> QED BY <1>2, <1>6, <1>7, <1>8 DEF LeakInv, Holds

(* An operation that does not give up leaves what was doomed doomed. *)
LEMMA StillDoomed ==
    ASSUME NEW u, NEW at \in Nat, NEW i, Doomed(u, at, i), Body(u)[at].op # "fail", Len(Body(u)) \in Nat, i \in Nat
    PROVE  Doomed(u, at + 1, i)
<1>1. PICK open \in 1 .. i, fail \in at .. Len(Body(u)) : GivesUp(Body(u), Depth(u), open, fail)
  BY DEF Doomed
<1>2. fail # at
  BY <1>1 DEF GivesUp
<1>3. fail \in at + 1 .. Len(Body(u))
  BY <1>2
<1> QED BY <1>1, <1>3 DEF Doomed

(* The next operation explains what it makes. *)
LEMMA NextExplained ==
    ASSUME NEW u \in DOMAIN program.body, Nested(u), NEW at \in DOMAIN Body(u), Body(u)[at].op # "fail",
           NEW t, NEW s, Explained(t, u, at),
           \A op : Made(s, op) => Made(t, op) \/ Makes(Body(u)[at], op)
    PROVE  Explained(s, u, at + 1)
<1>1. Len(Body(u)) \in Nat /\ DOMAIN Body(u) = 1 .. Len(Body(u)) /\ at \in Nat
  BY DEF Nested, IsNested
<1> SUFFICES ASSUME NEW op, Made(s, op), ~ Kept(op)
             PROVE  \E i \in DOMAIN Body(u) : Doomed(u, at + 1, i) /\ Makes(Body(u)[i], op)
  BY DEF Explained
<1>2. CASE Made(t, op)
  <2>1. PICK i \in DOMAIN Body(u) : Doomed(u, at, i) /\ Makes(Body(u)[i], op)
    BY <1>2 DEF Explained
  <2>2. Doomed(u, at + 1, i)
    BY <1>1, <2>1, StillDoomed
  <2> QED BY <2>1, <2>2
<1>3. CASE Makes(Body(u)[at], op)
  <2>1. at \in Dead(Body(u), Depth(u))
    BY <1>3 DEF Kept, Nested, Body
  <2>2. PICK open \in 1 .. at, fail \in at .. Len(Body(u)) : GivesUp(Body(u), Depth(u), open, fail)
    BY <2>1 DEF Dead
  <2>3. fail # at
    BY <2>2 DEF GivesUp
  <2>4. fail \in at + 1 .. Len(Body(u)) /\ at < at + 1
    BY <1>1, <2>3
  <2>5. Doomed(u, at + 1, at)
    BY <2>2, <2>4 DEF Doomed
  <2> QED BY <1>3, <2>5
<1> QED BY <1>2, <1>3

(* Bodies that stay open. *)
LEMMA StayOpen ==
    ASSUME NEW u, NEW at \in Nat, NEW next \in Nat, at < next, NEW entries, NEW rest,
           OpenBodies(u, at, entries), Len(entries) \in Nat, Len(rest) \in Nat, Len(rest) <= Len(entries),
           \A level \in 1 .. Len(rest) : rest[level] = entries[level],
           DOMAIN Body(u) \subseteq Nat,
           \A i \in at .. next - 1 : Depth(u)[i] \in Nat /\ Depth(u)[i] >= Len(rest)
    PROVE  OpenBodies(u, next, rest)
<1> SUFFICES ASSUME NEW level \in 1 .. Len(rest)
             PROVE  \E open \in DOMAIN Body(u) : IsOpen(u, open, level, next) /\ Keeps(u, open, rest[level])
  BY DEF OpenBodies
<1>1. level \in 1 .. Len(entries) /\ rest[level] = entries[level]
  OBVIOUS
<1>2. PICK open \in DOMAIN Body(u) : IsOpen(u, open, level, at) /\ Keeps(u, open, entries[level])
  BY <1>1 DEF OpenBodies
<1>3. \A i \in open .. next - 1 : Depth(u)[i] >= level
  <2> SUFFICES ASSUME NEW i \in open .. next - 1 PROVE Depth(u)[i] >= level
    OBVIOUS
  <2>1. CASE i < at
    <3>1. i \in open .. at - 1
      BY <2>1
    <3> QED BY <1>2, <3>1 DEF IsOpen
  <2>2. CASE ~ (i < at)
    <3>1. i \in at .. next - 1
      BY <2>2
    <3> QED BY <3>1
  <2> QED BY <2>1, <2>2
<1>4. IsOpen(u, open, level, next)
  BY <1>2, <1>3 DEF IsOpen
<1> QED BY <1>1, <1>2, <1>4

\* Where a body that gives up goes on, and what the depths are on the way.
Leaves(u, at, end) ==
    /\ end \in at .. Len(Body(u)) /\ Body(u)[at].to = end + 1
    /\ Depth(u)[at] = Depth(u)[end] + 1 /\ \A j \in at .. end - 1 : Depth(u)[j] >= Depth(u)[at]

(* It leaves at the operation that closes it. *)
LEMMA LeavesAtClose ==
    ASSUME NEW u, Nested(u), NEW at \in DOMAIN Body(u), NEW end, Leaves(u, at, end)
    PROVE  /\ end > at /\ end \in DOMAIN Body(u) /\ Body(u)[end].op = "close"
           /\ Depth(u)[at] \in Nat /\ Depth(u)[end] \in Nat
<1>1. /\ Len(Body(u)) \in Nat /\ DOMAIN Body(u) = 1 .. Len(Body(u))
      /\ DOMAIN Depth(u) = 0 .. Len(Body(u)) /\ \A i \in 0 .. Len(Body(u)) : Depth(u)[i] \in Nat
  BY DEF Nested, IsNested
<1>2. end \in 1 .. Len(Body(u)) /\ at \in 1 .. Len(Body(u)) /\ end >= at
  BY <1>1 DEF Leaves
<1>3. Depth(u)[at] \in Nat /\ Depth(u)[end] \in Nat /\ Depth(u)[end - 1] \in Nat
  BY <1>1, <1>2
<1>4. end # at
  BY <1>3 DEF Leaves
<1>5. Depth(u)[end - 1] >= Depth(u)[at]
  <2>1. end - 1 \in at .. end - 1
    BY <1>2, <1>4
  <2> QED BY <2>1 DEF Leaves
<1>6. IF Body(u)[end].op = "open" THEN Depth(u)[end] = Depth(u)[end - 1] + 1
      ELSE IF Body(u)[end].op = "close" THEN Depth(u)[end - 1] = Depth(u)[end] + 1
      ELSE Depth(u)[end] = Depth(u)[end - 1]
  BY <1>1, <1>2 DEF Nested, IsNested
<1>7. Depth(u)[at] = Depth(u)[end] + 1
  BY DEF Leaves
<1>8. Body(u)[end].op = "close"
  BY <1>3, <1>5, <1>6, <1>7
<1> QED BY <1>1, <1>2, <1>3, <1>4, <1>8

(***************************************************************************)
(* What a snapshot held when its body was opened is doomed, if at all, by  *)
(* a body around it: one that gives up behind the end of this one.         *)
(***************************************************************************)
LEMMA DoomedAround ==
    ASSUME NEW u, Nested(u), NEW at \in DOMAIN Body(u), NEW end, Leaves(u, at, end), Body(u)[at].op = "fail",
           NEW open \in DOMAIN Body(u), IsOpen(u, open, Depth(u)[at], at),
           NEW i \in DOMAIN Body(u), Doomed(u, open, i)
    PROVE  Doomed(u, end + 1, i)
<1>1. /\ Len(Body(u)) \in Nat /\ DOMAIN Body(u) = 1 .. Len(Body(u))
      /\ DOMAIN Depth(u) = 0 .. Len(Body(u)) /\ \A j \in 0 .. Len(Body(u)) : Depth(u)[j] \in Nat
  BY DEF Nested, IsNested
<1>2. end > at /\ end \in DOMAIN Body(u) /\ Body(u)[end].op = "close" /\ Depth(u)[at] \in Nat
  BY LeavesAtClose
<1>3. PICK before \in 1 .. i, fail \in open .. Len(Body(u)) : GivesUp(Body(u), Depth(u), before, fail)
  BY DEF Doomed
<1>4. i < open /\ open < at /\ Body(u)[open].op = "open" /\ Depth(u)[open] = Depth(u)[at]
  BY DEF Doomed, IsOpen
<1>5. Depth(u)[open] = Depth(u)[open - 1] + 1 /\ open - 1 \in before .. fail
  <2>1. IF Body(u)[open].op = "open" THEN Depth(u)[open] = Depth(u)[open - 1] + 1
        ELSE IF Body(u)[open].op = "close" THEN Depth(u)[open - 1] = Depth(u)[open] + 1
        ELSE Depth(u)[open] = Depth(u)[open - 1]
    BY DEF Nested, IsNested
  <2>2. i \in 1 .. Len(Body(u)) /\ open \in 1 .. Len(Body(u))
    BY <1>1
  <2>3. open - 1 \in before .. fail
    BY <1>1, <1>3, <1>4, <2>2
  <2> QED BY <1>4, <2>1, <2>3
<1>6. Depth(u)[open - 1] >= Depth(u)[before] /\ Depth(u)[fail] = Depth(u)[before]
  BY <1>3, <1>5 DEF GivesUp
<1>7. Depth(u)[open - 1] \in Nat /\ Depth(u)[before] \in Nat /\ Depth(u)[fail] \in Nat
  BY <1>1, <1>3, <1>4
<1>8. Depth(u)[fail] < Depth(u)[at]
  BY <1>2, <1>4, <1>5, <1>6, <1>7
<1>9. fail # end
  BY <1>2, <1>3 DEF GivesUp
<1>10. ~ (fail < end)
  <2> SUFFICES ASSUME fail < end PROVE FALSE
    OBVIOUS
  <2>1. CASE fail < at
    <3>1. fail \in open .. at - 1
      BY <1>1, <1>3, <2>1
    <3>2. Depth(u)[fail] >= Depth(u)[at]
      BY <3>1 DEF IsOpen
    <3> QED BY <1>2, <1>7, <1>8, <3>2
  <2>2. CASE ~ (fail < at)
    <3>1. fail \in at .. end - 1
      BY <1>1, <1>2, <1>3, <2>2
    <3>2. Depth(u)[fail] >= Depth(u)[at]
      BY <3>1 DEF Leaves
    <3> QED BY <1>2, <1>7, <1>8, <3>2
  <2> QED BY <2>1, <2>2
<1>11. fail \in end + 1 .. Len(Body(u)) /\ i < end + 1
  BY <1>1, <1>2, <1>3, <1>4, <1>9, <1>10
<1> QED BY <1>3, <1>11 DEF Doomed

(* A body without a snapshot dooms nothing: who leaves it leaves all that was doomed doomed. *)
LEMMA DoomedBeyond ==
    ASSUME NEW u, Nested(u), NEW at \in DOMAIN Body(u), NEW end, Leaves(u, at, end), Body(u)[at].op = "fail",
           NEW open \in DOMAIN Body(u), IsOpen(u, open, Depth(u)[at], at), ~ Body(u)[open].knownFailure,
           NEW i \in DOMAIN Body(u), Doomed(u, at, i)
    PROVE  Doomed(u, end + 1, i)
<1>1. /\ Len(Body(u)) \in Nat /\ DOMAIN Body(u) = 1 .. Len(Body(u))
      /\ DOMAIN Depth(u) = 0 .. Len(Body(u)) /\ \A j \in 0 .. Len(Body(u)) : Depth(u)[j] \in Nat
  BY DEF Nested, IsNested
<1>2. end > at /\ end \in DOMAIN Body(u) /\ Body(u)[end].op = "close" /\ Depth(u)[at] \in Nat
  BY LeavesAtClose
<1>3. PICK before \in 1 .. i, fail \in at .. Len(Body(u)) : GivesUp(Body(u), Depth(u), before, fail)
  BY DEF Doomed
<1>4. i < at /\ open < at /\ Body(u)[open].op = "open" /\ Depth(u)[open] = Depth(u)[at]
  BY DEF Doomed, IsOpen
<1>5. Body(u)[before].op = "open" /\ Body(u)[before].knownFailure /\ before # open
  BY <1>3 DEF GivesUp
<1>6. /\ Depth(u)[open] = Depth(u)[open - 1] + 1 /\ Depth(u)[before] = Depth(u)[before - 1] + 1
      /\ Depth(u)[open - 1] \in Nat /\ Depth(u)[before - 1] \in Nat /\ Depth(u)[before] \in Nat /\ Depth(u)[fail] \in Nat
  <2>1. i \in 1 .. Len(Body(u)) /\ open \in 1 .. Len(Body(u))
    BY <1>1
  <2>2. before \in DOMAIN Body(u)
    BY <1>1, <2>1
  <2>3. IF Body(u)[open].op = "open" THEN Depth(u)[open] = Depth(u)[open - 1] + 1
        ELSE IF Body(u)[open].op = "close" THEN Depth(u)[open - 1] = Depth(u)[open] + 1
        ELSE Depth(u)[open] = Depth(u)[open - 1]
    BY DEF Nested, IsNested
  <2>4. IF Body(u)[before].op = "open" THEN Depth(u)[before] = Depth(u)[before - 1] + 1
        ELSE IF Body(u)[before].op = "close" THEN Depth(u)[before - 1] = Depth(u)[before] + 1
        ELSE Depth(u)[before] = Depth(u)[before - 1]
    BY <2>2 DEF Nested, IsNested
  <2>5. open - 1 \in 0 .. Len(Body(u)) /\ before - 1 \in 0 .. Len(Body(u)) /\ before \in 0 .. Len(Body(u)) /\ fail \in 0 .. Len(Body(u))
    BY <1>1, <1>3, <2>1, <2>2
  <2>6. /\ Depth(u)[open - 1] \in Nat /\ Depth(u)[before - 1] \in Nat /\ Depth(u)[before] \in Nat /\ Depth(u)[fail] \in Nat
    BY <1>1, <2>5
  <2> QED BY <1>4, <1>5, <2>3, <2>4, <2>6
<1>7. Depth(u)[fail] = Depth(u)[before] /\ Depth(u)[at] >= Depth(u)[before]
  <2>1. at \in before .. fail
    BY <1>1, <1>3, <1>4
  <2> QED BY <1>3, <2>1 DEF GivesUp
<1>8. fail # end
  BY <1>2, <1>3 DEF GivesUp
<1>9. ~ (fail < end)
  <2> SUFFICES ASSUME fail < end PROVE FALSE
    OBVIOUS
  <2>1. Depth(u)[before] = Depth(u)[at]
    <3>1. fail \in at .. end - 1
      BY <1>1, <1>2, <1>3
    <3>2. Depth(u)[fail] >= Depth(u)[at]
      BY <3>1 DEF Leaves
    <3> QED BY <1>2, <1>6, <1>7, <3>2
  <2>2. CASE before < open
    <3>1. open - 1 \in before .. fail
      BY <1>1, <1>3, <1>4, <2>2
    <3>2. Depth(u)[open - 1] >= Depth(u)[before]
      BY <1>3, <3>1 DEF GivesUp
    <3> QED BY <1>2, <1>4, <1>6, <2>1, <3>2
  <2>3. CASE open < before
    <3>1. before - 1 \in open .. at - 1
      BY <1>1, <1>3, <1>4, <2>3
    <3>2. Depth(u)[before - 1] >= Depth(u)[at]
      BY <3>1 DEF IsOpen
    <3> QED BY <1>2, <1>6, <2>1, <3>2
  <2> QED BY <1>1, <1>3, <1>5, <2>2, <2>3
<1>10. fail \in end + 1 .. Len(Body(u)) /\ i < end + 1
  BY <1>1, <1>2, <1>3, <1>4, <1>8, <1>9
<1> QED BY <1>3, <1>10 DEF Doomed

(* Giving up explains the tables the body goes back to. *)
LEMMA GiveUpExplained ==
    ASSUME LeakInv, GiveUp, NEW end, Leaves(Unit, pc, end)
    PROVE  Listed(tables') /\ Explained(tables', Unit, end + 1)
<1> DEFINE u == Unit
           entry == saved[Len(saved)]
<1>1. units # << >> /\ pc \in Nat /\ pc # 0
  BY DEF GiveUp, Running, LeakInv, Holds
<1>2. Nested(u)
  BY <1>1, UnitNested
<1>3. /\ Len(Body(u)) \in Nat /\ DOMAIN Body(u) = 1 .. Len(Body(u))
      /\ DOMAIN Depth(u) = 0 .. Len(Body(u)) /\ \A j \in 0 .. Len(Body(u)) : Depth(u)[j] \in Nat
  BY <1>2 DEF Nested, IsNested
<1>4. pc \in DOMAIN Body(u) /\ Body(u)[pc].op = "fail" /\ saved # << >>
  BY <1>1, <1>3 DEF GiveUp, Running, Op, Body
<1>5. Len(saved) = Depth(u)[pc]
  <2>1. Len(saved) = Depth(u)[pc - 1]
    BY <1>1 DEF LeakInv, Holds, Unit
  <2>2. Depth(u)[pc] = Depth(u)[pc - 1]
    BY <1>2, <1>4 DEF Nested, IsNested
  <2> QED BY <2>1, <2>2
<1>6. Len(saved) \in 1 .. Len(saved)
  BY <1>4 DEF LeakInv, Holds, IsList
<1>7. PICK open \in DOMAIN Body(u) : IsOpen(u, open, Len(saved), pc) /\ Keeps(u, open, entry)
  BY <1>1, <1>6 DEF LeakInv, Holds, Unit, OpenBodies
<1>8. tables' = IF entry = << >> THEN tables ELSE entry[1]
  BY DEF GiveUp, Restored
<1>9. IsOpen(u, open, Depth(u)[pc], pc)
  BY <1>5, <1>7
<1> HIDE DEF u, entry
<1>10. CASE entry = << >>
  <2>1. tables' = tables /\ ~ Body(u)[open].knownFailure
    BY <1>7, <1>8, <1>10 DEF Keeps
  <2>2. Listed(tables) /\ Explained(tables, u, pc)
    BY <1>1 DEF LeakInv, Holds, Unit, u
  <2>3. ASSUME NEW op, Made(tables, op), ~ Kept(op)
        PROVE  \E i \in DOMAIN Body(u) : Doomed(u, end + 1, i) /\ Makes(Body(u)[i], op)
    <3>1. PICK i \in DOMAIN Body(u) : Doomed(u, pc, i) /\ Makes(Body(u)[i], op)
      BY <2>2, <2>3 DEF Explained
    <3>2. Doomed(u, end + 1, i)
      BY <1>2, <1>4, <1>9, <2>1, <3>1, DoomedBeyond DEF u
    <3> QED BY <3>1, <3>2
  <2>4. Explained(tables, u, end + 1)
    BY <2>3 DEF Explained
  <2> QED BY <2>1, <2>2, <2>4 DEF u
<1>11. CASE entry # << >>
  <2> DEFINE t == entry[1]
  <2>1. tables' = t /\ Listed(t) /\ Explained(t, u, open)
    BY <1>7, <1>8, <1>11 DEF Keeps
  <2> HIDE DEF t
  <2>2. ASSUME NEW op, Made(t, op), ~ Kept(op)
        PROVE  \E i \in DOMAIN Body(u) : Doomed(u, end + 1, i) /\ Makes(Body(u)[i], op)
    <3>1. PICK i \in DOMAIN Body(u) : Doomed(u, open, i) /\ Makes(Body(u)[i], op)
      BY <2>1, <2>2 DEF Explained
    <3>2. Doomed(u, end + 1, i)
      BY <1>2, <1>4, <1>9, <3>1, DoomedAround DEF u
    <3> QED BY <3>1, <3>2
  <2>3. Explained(t, u, end + 1)
    BY <2>2 DEF Explained
  <2>4. tables' = t /\ Listed(t) /\ Explained(t, Unit, end + 1)
    BY <2>1, <2>3 DEF u
  <2> QED BY <2>4
<1> QED BY <1>10, <1>11
-----------------------------------------------------------------------------
(* A list without its last element. *)
LEMMA FrontList ==
    ASSUME NEW s, IsList(s), s # << >>, NEW r, r = SubSeq(s, 1, Len(s) - 1)
    PROVE  /\ IsList(r) /\ Len(s) \in Nat \ {0} /\ Len(r) = Len(s) - 1
           /\ \A i \in 1 .. Len(r) : r[i] = s[i]
<1> DEFINE S == {s[i] : i \in DOMAIN s}
<1>1. s \in Seq(S)
  BY DEF IsList
<1> HIDE DEF S
<1>2. Len(s) \in Nat /\ Len(s) # 0 /\ \A i \in 1 .. Len(s) : s[i] \in S
  BY <1>1
<1> DEFINE n == Len(s) - 1
<1>3. n \in Nat /\ 1 \in Int /\ n \in Int /\ \A i \in 1 .. n : s[i] \in S
  BY <1>2
<1>4. r = SubSeq(s, 1, n)
  OBVIOUS
<1> HIDE DEF n
<1>5. /\ SubSeq(s, 1, n) \in Seq(S)
      /\ Len(SubSeq(s, 1, n)) = IF 1 <= n THEN n - 1 + 1 ELSE 0
      /\ \A i \in 1 .. n - 1 + 1 : SubSeq(s, 1, n)[i] = s[1 + i - 1]
  BY <1>3, SubSeqProperties
<1>6. r \in Seq(S) /\ Len(r) = n /\ \A i \in 1 .. n : r[i] = s[i]
  BY <1>3, <1>4, <1>5
<1>7. IsList(r)
  BY <1>6, SeqIsList
<1> QED BY <1>2, <1>6, <1>7 DEF n

(* The invariant in the middle of a unit. *)
LEMMA RunningFacts ==
    ASSUME LeakInv, Running
    PROVE  /\ program \in Programs /\ units \in Seq(DOMAIN program.body) /\ units # << >>
           /\ Unit \in DOMAIN program.body /\ Nested(Unit)
           /\ Len(Body(Unit)) \in Nat /\ DOMAIN Body(Unit) = 1 .. Len(Body(Unit))
           /\ pc \in Nat /\ pc \in DOMAIN Body(Unit) /\ Op = Body(Unit)[pc]
           /\ Listed(tables) /\ IsList(saved) /\ Explained(tables, Unit, pc) /\ OpenBodies(Unit, pc, saved)
           /\ Depth(Unit)[pc] \in Nat /\ Len(saved) = Depth(Unit)[pc - 1] /\ Len(saved) \in Nat
           /\ IF Op.op = "open" THEN Depth(Unit)[pc] = Len(saved) + 1
              ELSE IF Op.op = "close" THEN Len(saved) = Depth(Unit)[pc] + 1
              ELSE Depth(Unit)[pc] = Len(saved)
<1> DEFINE u == Unit
<1>1. /\ program \in Programs /\ units \in Seq(DOMAIN program.body) /\ pc \in Nat /\ pc # 0 /\ units # << >>
      /\ Listed(tables) /\ IsList(saved) /\ Explained(tables, u, pc) /\ OpenBodies(u, pc, saved)
      /\ Len(saved) = Depth(u)[pc - 1] /\ pc <= Len(Body(u)) /\ Op = Body(u)[pc]
  BY DEF LeakInv, Holds, Running, Unit, Body, Op
<1>2. u \in DOMAIN program.body /\ Nested(u)
  BY <1>1, UnitNested
<1> HIDE DEF u
<1>3. /\ Len(Body(u)) \in Nat /\ DOMAIN Body(u) = 1 .. Len(Body(u))
      /\ DOMAIN Depth(u) = 0 .. Len(Body(u)) /\ \A i \in 0 .. Len(Body(u)) : Depth(u)[i] \in Nat
  BY <1>2 DEF Nested, IsNested
<1>4. pc \in DOMAIN Body(u) /\ pc \in 0 .. Len(Body(u)) /\ pc - 1 \in 0 .. Len(Body(u))
  BY <1>1, <1>3
<1>5. Depth(u)[pc] \in Nat /\ Depth(u)[pc - 1] \in Nat
  BY <1>3, <1>4
<1>6. IF Body(u)[pc].op = "open" THEN Depth(u)[pc] = Depth(u)[pc - 1] + 1
      ELSE IF Body(u)[pc].op = "close" THEN Depth(u)[pc - 1] = Depth(u)[pc] + 1
      ELSE Depth(u)[pc] = Depth(u)[pc - 1]
  BY <1>2, <1>4 DEF Nested, IsNested
<1>7. IF Op.op = "open" THEN Depth(u)[pc] = Len(saved) + 1
      ELSE IF Op.op = "close" THEN Len(saved) = Depth(u)[pc] + 1
      ELSE Depth(u)[pc] = Len(saved)
  BY <1>1, <1>6
<1> QED BY <1>1, <1>2, <1>3, <1>4, <1>5, <1>7 DEF u

(* A step within a unit keeps the invariant by these. *)
LEMMA WithinUnit ==
    ASSUME program' = program, units' = units, program \in Programs,
           units \in Seq(DOMAIN program.body), units # << >>, Len(Body(Unit)) \in Nat,
           pc' \in 1 .. Len(Body(Unit)) + 1, Listed(tables'), IsList(saved'),
           Len(saved') = Depth(Unit)[pc' - 1], Explained(tables', Unit, pc'), OpenBodies(Unit, pc', saved')
    PROVE  LeakInv'
<1>1. Holds(tables', units', pc', saved')
  BY DEF Holds, Unit
<1> QED BY <1>1, SameProgram

(* A unit begins with clean tables and nothing open. *)
LEMMA BeginKeeps == LeakInv /\ Begin => LeakInv'
<1> SUFFICES ASSUME LeakInv, Begin PROVE LeakInv'
  OBVIOUS
<1> DEFINE u == Unit
           t == Begun(tables, u)
<1>1. /\ program \in Programs /\ units \in Seq(DOMAIN program.body) /\ units # << >>
      /\ Listed(tables) /\ saved = << >> /\ Clean(tables)
      /\ program' = program /\ units' = units /\ saved' = saved /\ pc' = 1 /\ tables' = t
  BY DEF LeakInv, Holds, Begin
<1>2. SameGraph(tables, t)
  <2> DEFINE owner == program.key[u].owner
             known == IF owner = None THEN tables ELSE HostsCached(tables, owner)
             seen == [known.seen EXCEPT ![u] =
                         [Nothing EXCEPT !.self = IF owner = None THEN {} ELSE known.hosts[owner]]]
  <2>1. Shape(tables)
    BY <1>1 DEF Listed
  <2>2. SameGraph(tables, known) /\ Shape(known)
    BY <2>1, HostsGraph, FieldsGraph DEF SameGraph
  <2> HIDE DEF known
  <2>3. t = [known EXCEPT !.seen = seen]
    BY <2>2 DEF Begun, known, Shape
  <2> HIDE DEF seen, t
  <2>4. SameGraph(known, [known EXCEPT !.seen = seen])
    BY <2>2, FieldsGraph
  <2> QED BY <2>2, <2>3, <2>4, SameGraphTransitive
<1> HIDE DEF t
<1>3. Listed(t) /\ \A made : Made(t, made) <=> Made(tables, made)
  BY <1>1, <1>2, SameMade DEF Adds
<1>4. Explained(t, u, 1)
  BY <1>1, <1>3 DEF Clean, Explained
<1>5. Len(Body(u)) \in Nat /\ Depth(u)[0] = 0
  BY <1>1, UnitNested DEF Nested, IsNested
<1>6. IsList(saved') /\ Len(saved') = 0 /\ OpenBodies(u, 1, saved')
  BY <1>1, EmptyList DEF OpenBodies
<1>7. pc' \in 1 .. Len(Body(u)) + 1 /\ pc' - 1 = 0
  BY <1>1, <1>5
<1> QED BY <1>1, <1>3, <1>4, <1>5, <1>6, <1>7, WithinUnit

(* An operation adds what it makes, and opens and closes nothing. *)
LEMMA OperationKeeps == LeakInv /\ Operation => LeakInv'
<1> SUFFICES ASSUME LeakInv, Operation PROVE LeakInv'
  OBVIOUS
<1> DEFINE u == Unit
<1>1. /\ Running /\ Op.op \notin {"open", "close", "fail"} /\ program' = program /\ units' = units
      /\ saved' = saved /\ pc' = pc + 1 /\ tables' = After(tables, Op)
  BY DEF Operation
<1>2. /\ program \in Programs /\ units \in Seq(DOMAIN program.body) /\ units # << >>
      /\ u \in DOMAIN program.body /\ Nested(u)
      /\ Len(Body(u)) \in Nat /\ DOMAIN Body(u) = 1 .. Len(Body(u))
      /\ pc \in Nat /\ pc \in DOMAIN Body(u) /\ Op = Body(u)[pc]
      /\ Listed(tables) /\ IsList(saved) /\ Explained(tables, u, pc) /\ OpenBodies(u, pc, saved)
      /\ Len(saved) \in Nat /\ Depth(u)[pc] = Len(saved)
  BY <1>1, RunningFacts
<1>3. Adds(tables, tables', Op)
  BY <1>1, <1>2, AfterAdds
<1> HIDE DEF u
<1>4. Listed(tables') /\ \A op : Made(tables', op) => Made(tables, op) \/ Makes(Body(u)[pc], op)
  BY <1>2, <1>3 DEF Adds
<1>5. Explained(tables', u, pc + 1)
  BY <1>1, <1>2, <1>4, NextExplained
<1>6. OpenBodies(u, pc + 1, saved)
  <2>1. pc + 1 \in Nat /\ pc < pc + 1 /\ Len(saved) <= Len(saved) /\ DOMAIN Body(u) \subseteq Nat
    BY <1>2
  <2>2. \A i \in pc .. (pc + 1) - 1 : Depth(u)[i] \in Nat /\ Depth(u)[i] >= Len(saved)
    BY <1>2
  <2> QED BY <1>2, <2>1, <2>2, StayOpen
<1>7. pc' \in 1 .. Len(Body(u)) + 1 /\ pc' - 1 = pc
  BY <1>1, <1>2
<1> QED BY <1>1, <1>2, <1>4, <1>5, <1>6, <1>7, WithinUnit DEF u

(* A body that is opened keeps the tables of now, if anything. *)
LEMMA OpenKeeps == LeakInv /\ Open => LeakInv'
<1> SUFFICES ASSUME LeakInv, Open PROVE LeakInv'
  OBVIOUS
<1> DEFINE u == Unit
           entry == IF NeedsTransaction(Op) THEN << tables >> ELSE << >>
<1>1. /\ Running /\ Op.op = "open" /\ program' = program /\ units' = units
      /\ saved' = Append(saved, entry) /\ pc' = pc + 1 /\ tables' = tables
  BY DEF Open
<1>2. /\ program \in Programs /\ units \in Seq(DOMAIN program.body) /\ units # << >>
      /\ u \in DOMAIN program.body /\ Nested(u)
      /\ Len(Body(u)) \in Nat /\ DOMAIN Body(u) = 1 .. Len(Body(u))
      /\ pc \in Nat /\ pc \in DOMAIN Body(u) /\ Op = Body(u)[pc]
      /\ Listed(tables) /\ IsList(saved) /\ Explained(tables, u, pc) /\ OpenBodies(u, pc, saved)
      /\ Len(saved) \in Nat /\ Depth(u)[pc] = Len(saved) + 1
  BY <1>1, RunningFacts
<1>3. Keeps(u, pc, entry)
  <2>1. CASE NeedsTransaction(Op)
    <3>1. entry = << tables >> /\ entry # << >> /\ entry[1] = tables
      BY <2>1
    <3> HIDE DEF entry, u
    <3> QED BY <1>2, <3>1 DEF Keeps
  <2>2. CASE ~ NeedsTransaction(Op)
    <3>1. entry = << >> /\ ~ Op.knownFailure
      BY <2>2 DEF NeedsTransaction
    <3> HIDE DEF entry, u
    <3> QED BY <1>2, <3>1 DEF Keeps
  <2> QED BY <2>1, <2>2
<1> HIDE DEF u, entry
<1>4. Explained(tables', u, pc + 1)
  BY <1>1, <1>2, NextExplained
<1> DEFINE new == Append(saved, entry)
<1>5. IsList(new) /\ Len(new) = Len(saved) + 1 /\ new[Len(saved) + 1] = entry /\ \A i \in 1 .. Len(saved) : new[i] = saved[i]
  <2>1. IsList(new)
    BY <1>2, AppendList
  <2>2. saved \in Seq({saved[i] : i \in DOMAIN saved})
    BY <1>2 DEF IsList
  <2>3. saved \in Seq({saved[i] : i \in DOMAIN saved} \union {entry})
    BY <2>2, SeqMonotonic
  <2> DEFINE S == {saved[i] : i \in DOMAIN saved} \union {entry}
  <2>4. saved \in Seq(S) /\ entry \in S
    BY <2>3
  <2> HIDE DEF S
  <2> QED BY <2>1, <2>4
<1> HIDE DEF new
<1>6. OpenBodies(u, pc + 1, saved)
  <2>1. pc + 1 \in Nat /\ pc < pc + 1 /\ Len(saved) <= Len(saved) /\ DOMAIN Body(u) \subseteq Nat
    BY <1>2
  <2>2. \A i \in pc .. (pc + 1) - 1 : Depth(u)[i] \in Nat /\ Depth(u)[i] >= Len(saved)
    BY <1>2
  <2> QED BY <1>2, <2>1, <2>2, StayOpen
<1>7. IsOpen(u, pc, Len(saved) + 1, pc + 1)
  <2>1. pc < pc + 1 /\ \A i \in pc .. (pc + 1) - 1 : i = pc
    BY <1>2
  <2> QED BY <1>1, <1>2, <2>1 DEF IsOpen
<1>8. OpenBodies(u, pc + 1, new)
  <2> SUFFICES ASSUME NEW level \in 1 .. Len(new)
               PROVE  \E open \in DOMAIN Body(u) : IsOpen(u, open, level, pc + 1) /\ Keeps(u, open, new[level])
    BY DEF OpenBodies
  <2>1. CASE level = Len(saved) + 1
    BY <1>2, <1>3, <1>5, <1>7, <2>1
  <2>2. CASE level # Len(saved) + 1
    <3>1. level \in 1 .. Len(saved) /\ new[level] = saved[level]
      BY <1>2, <1>5, <2>2
    <3> QED BY <1>6, <3>1 DEF OpenBodies
  <2> QED BY <2>1, <2>2
<1>9. pc' \in 1 .. Len(Body(u)) + 1 /\ pc' - 1 = pc
  BY <1>1, <1>2
<1> QED BY <1>1, <1>2, <1>4, <1>5, <1>8, <1>9, WithinUnit DEF u, new

(* A body that ends forgets what was kept for it. *)
LEMMA CloseKeeps == LeakInv /\ Close => LeakInv'
<1> SUFFICES ASSUME LeakInv, Close PROVE LeakInv'
  OBVIOUS
<1> DEFINE u == Unit
           rest == SubSeq(saved, 1, Len(saved) - 1)
<1>1. /\ Running /\ Op.op = "close" /\ saved # << >> /\ program' = program /\ units' = units
      /\ saved' = rest /\ pc' = pc + 1 /\ tables' = tables
  BY DEF Close
<1>2. /\ program \in Programs /\ units \in Seq(DOMAIN program.body) /\ units # << >>
      /\ u \in DOMAIN program.body /\ Nested(u)
      /\ Len(Body(u)) \in Nat /\ DOMAIN Body(u) = 1 .. Len(Body(u))
      /\ pc \in Nat /\ pc \in DOMAIN Body(u) /\ Op = Body(u)[pc]
      /\ Listed(tables) /\ IsList(saved) /\ Explained(tables, u, pc) /\ OpenBodies(u, pc, saved)
      /\ Len(saved) \in Nat /\ Depth(u)[pc] \in Nat /\ Len(saved) = Depth(u)[pc] + 1
  BY <1>1, RunningFacts
<1>3. IsList(rest) /\ Len(rest) = Len(saved) - 1 /\ \A i \in 1 .. Len(rest) : rest[i] = saved[i]
  BY <1>1, <1>2, FrontList
<1> HIDE DEF u, rest
<1>4. Explained(tables', u, pc + 1)
  BY <1>1, <1>2, NextExplained
<1>5. Len(rest) = Depth(u)[pc] /\ Len(rest) \in Nat /\ Len(rest) <= Len(saved)
  BY <1>2, <1>3
<1>6. OpenBodies(u, pc + 1, rest)
  <2>1. pc + 1 \in Nat /\ pc < pc + 1 /\ DOMAIN Body(u) \subseteq Nat
    BY <1>2
  <2>2. \A i \in pc .. (pc + 1) - 1 : Depth(u)[i] \in Nat /\ Depth(u)[i] >= Len(rest)
    BY <1>2, <1>5
  <2> QED BY <1>2, <1>3, <1>5, <2>1, <2>2, StayOpen
<1>7. pc' \in 1 .. Len(Body(u)) + 1 /\ pc' - 1 = pc
  BY <1>1, <1>2
<1> QED BY <1>1, <1>2, <1>3, <1>4, <1>5, <1>6, <1>7, WithinUnit DEF u

(* A body that gives up takes what it did with it, now or with one around it. *)
LEMMA GiveUpKeeps == LeakInv /\ GiveUp => LeakInv'
<1> SUFFICES ASSUME LeakInv, GiveUp PROVE LeakInv'
  OBVIOUS
<1> DEFINE u == Unit
           rest == SubSeq(saved, 1, Len(saved) - 1)
<1>1. /\ Running /\ Op.op = "fail" /\ saved # << >> /\ program' = program /\ units' = units
      /\ saved' = rest /\ pc' = Op.to
  BY DEF GiveUp
<1>2. /\ program \in Programs /\ units \in Seq(DOMAIN program.body) /\ units # << >>
      /\ u \in DOMAIN program.body /\ Nested(u)
      /\ Len(Body(u)) \in Nat /\ DOMAIN Body(u) = 1 .. Len(Body(u))
      /\ pc \in Nat /\ pc \in DOMAIN Body(u) /\ Op = Body(u)[pc]
      /\ IsList(saved) /\ OpenBodies(u, pc, saved)
      /\ Len(saved) \in Nat /\ Depth(u)[pc] = Len(saved)
  BY <1>1, RunningFacts
<1>3. PICK end : Leaves(u, pc, end)
  BY <1>1, <1>2 DEF Nested, IsNested, Leaves
<1>4. Listed(tables') /\ Explained(tables', u, end + 1)
  BY <1>3, GiveUpExplained
<1>5. IsList(rest) /\ Len(rest) = Len(saved) - 1 /\ \A i \in 1 .. Len(rest) : rest[i] = saved[i]
  BY <1>1, <1>2, FrontList
<1> HIDE DEF u, rest
<1>6. end > pc /\ end \in DOMAIN Body(u) /\ Depth(u)[end] \in Nat
  BY <1>2, <1>3, LeavesAtClose
<1>7. pc' = end + 1 /\ Depth(u)[pc] = Depth(u)[end] + 1 /\ \A j \in pc .. end - 1 : Depth(u)[j] >= Depth(u)[pc]
  BY <1>1, <1>2, <1>3 DEF Leaves
<1>8. Len(rest) = Depth(u)[end] /\ Len(rest) \in Nat /\ Len(rest) <= Len(saved)
  BY <1>2, <1>5, <1>6, <1>7
<1>9. OpenBodies(u, end + 1, rest)
  <2>1. end + 1 \in Nat /\ pc < end + 1 /\ DOMAIN Body(u) \subseteq Nat
    BY <1>2, <1>6
  <2>2. \A i \in pc .. (end + 1) - 1 : Depth(u)[i] \in Nat /\ Depth(u)[i] >= Len(rest)
    <3> SUFFICES ASSUME NEW i \in pc .. (end + 1) - 1 PROVE Depth(u)[i] \in Nat /\ Depth(u)[i] >= Len(rest)
      OBVIOUS
    <3>1. i \in 0 .. Len(Body(u)) /\ (i = end \/ i \in pc .. end - 1)
      BY <1>2, <1>6
    <3>2. Depth(u)[i] \in Nat
      BY <1>2, <3>1 DEF Nested, IsNested
    <3>3. Depth(u)[end] \in Nat /\ Depth(u)[pc] > Depth(u)[end]
      BY <1>6, <1>7
    <3> QED BY <1>2, <1>7, <1>8, <3>1, <3>2, <3>3
  <2> QED BY <1>2, <1>5, <1>8, <2>1, <2>2, StayOpen
<1>10. pc' \in 1 .. Len(Body(u)) + 1 /\ pc' - 1 = end
  BY <1>2, <1>6, <1>7
<1> QED BY <1>1, <1>2, <1>4, <1>5, <1>7, <1>8, <1>9, <1>10, WithinUnit DEF u

(* At the end of a unit nothing is open, so nothing is doomed. *)
LEMMA EndKeeps == LeakInv /\ End => LeakInv'
<1> SUFFICES ASSUME LeakInv, End PROVE LeakInv'
  OBVIOUS
<1> DEFINE u == Unit
<1>1. /\ program \in Programs /\ units \in Seq(DOMAIN program.body) /\ units # << >> /\ pc \in 1 .. Len(Body(u)) + 1
      /\ Listed(tables) /\ IsList(saved) /\ Len(saved) = Depth(u)[pc - 1] /\ Explained(tables, u, pc)
      /\ pc > Len(Body(u)) /\ program' = program /\ units' = Tail(units) /\ pc' = 0 /\ tables' = tables /\ saved' = saved
  BY DEF LeakInv, Holds, End, Unit, Body
<1>2. Len(Body(u)) \in Nat /\ DOMAIN Body(u) = 1 .. Len(Body(u)) /\ Depth(u)[Len(Body(u))] = 0
  BY <1>1, UnitNested DEF Nested, IsNested
<1> HIDE DEF u
<1>3. pc = Len(Body(u)) + 1 /\ pc - 1 = Len(Body(u))
  BY <1>1, <1>2
<1>4. saved = << >>
  <2>1. Len(saved) = 0
    BY <1>1, <1>2, <1>3
  <2> DEFINE S == {saved[i] : i \in DOMAIN saved}
  <2>2. saved \in Seq(S)
    BY <1>1 DEF IsList
  <2> HIDE DEF S
  <2> QED BY <2>1, <2>2
<1>5. Clean(tables)
  <2>1. \A i \in DOMAIN Body(u) : ~ Doomed(u, pc, i)
    BY <1>2, <1>3 DEF Doomed
  <2> QED BY <1>1, <2>1 DEF Clean, Explained
<1>6. Tail(units) \in Seq(DOMAIN program.body)
  BY <1>1
<1>7. Holds(tables', units', pc', saved')
  BY <1>1, <1>4, <1>5, <1>6 DEF Holds
<1> QED BY <1>1, <1>7, SameProgram

(* The next pass takes the tables over. *)
LEMMA NextPassKeeps == LeakInv /\ (EndSeed \/ EndRound) => LeakInv'
<1> SUFFICES ASSUME LeakInv, EndSeed \/ EndRound PROVE LeakInv'
  OBVIOUS
<1> DEFINE U == DOMAIN program.body
<1>1. PICK scheduled : NextPass(scheduled) /\ pc = 0 /\ program' = program /\ pc' = pc /\ saved' = saved
  BY DEF EndSeed, EndRound, Over
<1>2. program \in Programs /\ Listed(tables) /\ saved = << >> /\ Clean(tables)
  BY <1>1 DEF LeakInv, Holds
<1>3. units' \in Seq(U)
  <2>1. program.order \in Seq(U) /\ Top \in U
    BY <1>2, ProgramsAssumption
  <2> DEFINE some == {u \in DOMAIN program.body \ {Top} : program.key[u] \in scheduled}
  <2>2. units' = program.order \/ units' = << Top >> \o InOrder(program.order, some)
    BY <1>1 DEF NextPass, RoundUnits
  <2> HIDE DEF U, some
  <2>3. InOrder(program.order, some) \in Seq(U)
    BY <2>1, InOrderTyped
  <2>4. << Top >> \o InOrder(program.order, some) \in Seq(U)
    BY <2>1, <2>3
  <2> QED BY <2>1, <2>2, <2>4
<1>4. tables' = [tables EXCEPT !.changed = {}]
  BY <1>1 DEF NextPass
<1>5. Listed(tables') /\ \A made : Made(tables', made) <=> Made(tables, made)
  <2>1. SameGraph(tables, tables')
    BY <1>2, <1>4, FieldsGraph DEF Listed
  <2> QED BY <1>2, <2>1, SameMade DEF Adds
<1>6. Clean(tables')
  BY <1>2, <1>5 DEF Clean
<1>7. Holds(tables', units', pc', saved')
  BY <1>1, <1>2, <1>3, <1>5, <1>6, EmptyList DEF Holds
<1> QED BY <1>1, <1>7, SameProgram

(* What registration left is clean by its meaning. *)
LEMMA InitLeak == Init => LeakInv
<1> SUFFICES ASSUME Init PROVE Holds(tables, units, pc, saved)
  BY DEF LeakInv
<1>1. program \in Programs /\ tables = Start(program) /\ units = program.order /\ pc = 0 /\ saved = << >>
  BY DEF Init
<1>2. Shape(tables)
  BY InitCInv DEF CInv, Good
<1>3. tables.classes = Normalize(program.classes)
  BY <1>1 DEF Start
<1>4. IsGraph(program.classes) /\ HasLists(program.classes) /\ program.order \in Seq(DOMAIN program.body)
  BY <1>1, ProgramsAssumption
<1>5. Listed(tables)
  BY <1>2, <1>3, <1>4, NormalizeLists DEF Listed
<1>6. Clean(tables)
  BY <1>1 DEF Clean, Kept
<1> QED BY <1>1, <1>4, <1>5, <1>6, EmptyList DEF Holds

LEMMA StepLeak == LeakInv /\ [Next]_vars => LeakInv'
<1> SUFFICES ASSUME LeakInv, [Next]_vars PROVE LeakInv'
  OBVIOUS
<1>1. CASE EndFinal \/ Done \/ UNCHANGED vars
  <2>1. program' = program /\ tables' = tables /\ units' = units /\ pc' = pc /\ saved' = saved
    BY <1>1 DEF EndFinal, Done, vars
  <2>2. Holds(tables', units', pc', saved')
    BY <2>1 DEF LeakInv
  <2> QED BY <2>1, <2>2, SameProgram
<1> QED BY <1>1, BeginKeeps, OperationKeeps, OpenKeeps, CloseKeeps, GiveUpKeeps, EndKeeps, NextPassKeeps DEF Next

(***************************************************************************)
(* NothingLeaks is an invariant: between bodies the tables hold nothing    *)
(* that only a body rolled back to its snapshot makes, however deep the    *)
(* bodies nest and wherever in them the one that fails gives up.           *)
(***************************************************************************)
THEOREM NothingLeaksCorrect == Spec => []NothingLeaks
<1>1. LeakInv => NothingLeaks
  BY DEF LeakInv, Holds, Clean, NothingLeaks
<1> QED BY InitLeak, StepLeak, <1>1, PTL DEF Spec
=============================================================================
