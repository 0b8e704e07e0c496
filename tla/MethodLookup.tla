---------------------------- MODULE MethodLookup ----------------------------
(***************************************************************************)
(* How a call finds its method: the class graph, the order in which the    *)
(* ancestors of a receiver are asked, the aliases followed on the way, and *)
(* the search behind super.  A method is named by its key: the owner, the  *)
(* name and whether it belongs to the class object.  The search carries an *)
(* agenda, the steps still to take in order, where the code recurses.      *)
(***************************************************************************)
EXTENDS Naturals, Sequences, FiniteSets

CONSTANTS
    None,            \* no owner, no superclass, no method
    Owner,           \* names of classes and modules
    Name,            \* names of methods
    ClassMethodsOf   \* the name M::ClassMethods of the modules M that have one

Key(owner, name, singleton) == [owner |-> owner, name |-> name, singleton |-> singleton]
MethodKey == [owner : Owner \union {None}, name : Name, singleton : BOOLEAN]

\* ClassInfo::default.
NoClass == [superclass |-> None, isModule |-> FALSE, extendSelf |-> FALSE,
            includes |-> << >>, prepends |-> << >>, extends |-> << >>,
            classMethods |-> << >>, requires |-> << >>]

\* ClassInfo is a record of these fields.
IsClass(class) ==
    class = [superclass |-> class.superclass, isModule |-> class.isModule, extendSelf |-> class.extendSelf,
             includes |-> class.includes, prepends |-> class.prepends, extends |-> class.extends,
             classMethods |-> class.classMethods, requires |-> class.requires]
IsGraph(classes) ==
    /\ classes = [o \in DOMAIN classes |-> classes[o]]
    /\ \A o \in DOMAIN classes : IsClass(classes[o])

\* What a class mixes in is kept in lists.
IsList(s) == s \in Seq({s[i] : i \in DOMAIN s})
HasLists(classes) ==
    \A o \in DOMAIN classes :
        /\ IsList(classes[o].includes) /\ IsList(classes[o].prepends) /\ IsList(classes[o].extends)
        /\ IsList(classes[o].classMethods)

InfoOf(classes, owner) == IF owner \in DOMAIN classes THEN classes[owner] ELSE NoClass
Elements(s) == {s[i] : i \in DOMAIN s}
PushNew(s, x) == IF x \in Elements(s) THEN s ELSE Append(s, x)
-----------------------------------------------------------------------------
(***************************************************************************)
(* The class graph after registration: a class without a superclass is a   *)
(* child of Object, and including a module extends the class with the      *)
(* module's class methods.                                                 *)
(***************************************************************************)
WithObject(classes) ==
    [o \in DOMAIN classes |->
        IF classes[o].superclass = None /\ ~ classes[o].isModule /\ o \notin {"Object", "BasicObject"}
        THEN [classes[o] EXCEPT !.superclass = "Object"] ELSE classes[o]]

IsConcern(classes, o) ==
    /\ "ActiveSupport::Concern" \in Elements(classes[o].extends)
    /\ o \in DOMAIN ClassMethodsOf
    /\ ClassMethodsOf[o] \in DOMAIN classes

\* What the included modules extend their host with: explicit class methods, then concerns.
Contributed(classes, mixins) ==
    LET all[i \in 0 .. Len(mixins)] ==
            IF i = 0 THEN << >> ELSE all[i - 1] \o InfoOf(classes, mixins[i]).classMethods
        concerns[i \in 0 .. Len(mixins)] ==
            IF i = 0 THEN << >>
            ELSE IF mixins[i] \in DOMAIN classes /\ IsConcern(classes, mixins[i])
                 THEN Append(concerns[i - 1], ClassMethodsOf[mixins[i]]) ELSE concerns[i - 1]
    IN all[Len(mixins)] \o concerns[Len(mixins)]

PushAll(s, new) ==
    LET pushed[i \in 0 .. Len(new)] == IF i = 0 THEN s ELSE PushNew(pushed[i - 1], new[i])
    IN pushed[Len(new)]

Normalize(classes) ==
    LET graph == WithObject(classes) IN
    [o \in DOMAIN graph |->
        [graph[o] EXCEPT !.extends = PushAll(@, Contributed(graph, graph[o].includes \o graph[o].prepends))]]
-----------------------------------------------------------------------------
(* The order in which the owners of a method are asked. *)

Step == [visit : BOOLEAN, owner : Owner, singleton : BOOLEAN]
Self(owner, singleton) == [visit |-> FALSE, owner |-> owner, singleton |-> singleton]
Visit(owner, singleton) == [visit |-> TRUE, owner |-> owner, singleton |-> singleton]

\* A slip: the modules in the order of the source.
ModulesForwards(list) == [i \in DOMAIN list |-> Visit(list[i], FALSE)]

\* The modules of a list, the last one first.
Modules(list) == [i \in DOMAIN list |-> Visit(list[Len(list) + 1 - i], FALSE)]
Superclass(class, singleton) ==
    IF class.superclass = None THEN << >> ELSE << Visit(class.superclass, singleton) >>

InstanceSteps(classes, owner) ==
    LET class == InfoOf(classes, owner) IN
    Modules(class.prepends) \o << Self(owner, FALSE) >>
        \o Modules(class.requires) \o Modules(class.includes)
        \o (IF owner \in DOMAIN classes THEN Superclass(class, FALSE)
            ELSE IF owner \in {"Object", "BasicObject"} THEN << >> ELSE << Visit("Object", FALSE) >>)

SingletonSteps(classes, owner) ==
    LET class == InfoOf(classes, owner)
        own == Modules(class.prepends) \o << Self(owner, FALSE) >>
                   \o Modules(class.requires) \o Modules(class.includes)
    IN << Self(owner, TRUE) >> \o (IF class.extendSelf THEN own ELSE << >>)
           \o Modules(class.extends) \o Superclass(class, TRUE)

\* append_method_candidates: an owner is entered once.
Candidates(classes, start, singletonStart) ==
    LET steps(s) == IF s.singleton THEN SingletonSteps(classes, s.owner) ELSE InstanceSteps(classes, s.owner)
        walk[agenda \in Seq(Step), seen \in SUBSET Owner] ==
            IF agenda = << >> THEN << >>
            ELSE LET s == Head(agenda) IN
                 IF ~ s.visit THEN << s >> \o walk[Tail(agenda), seen]
                 ELSE IF s.owner \in seen THEN walk[Tail(agenda), seen]
                 ELSE walk[steps(s) \o Tail(agenda), seen \union {s.owner}]
    IN walk[<< Visit(start, singletonStart) >>, {}]

Named(candidates, name) ==
    [i \in DOMAIN candidates |-> Key(candidates[i].owner, name, candidates[i].singleton)]

\* The keys a call with this key may mean; a class object is also an instance of Class.
KeysOf(classes, key) ==
    IF key.owner = None THEN << key >>
    ELSE Named(Candidates(classes, key.owner, key.singleton), key.name)
         \o (IF key.singleton THEN Named(Candidates(classes, "Class", FALSE), key.name) ELSE << >>)
-----------------------------------------------------------------------------
Lookup(key) == [lookup |-> TRUE, key |-> key]
Ask(keys) == [i \in DOMAIN keys |-> [lookup |-> FALSE, key |-> keys[i]]]

\* The first method found; an alias on the way is looked up in its place, each key once.
Search(classes, methods, aliases, start) ==
    LET find[agenda \in Seq([lookup : BOOLEAN, key : MethodKey]), seen \in SUBSET MethodKey] ==
            IF agenda = << >> THEN None
            ELSE LET key == Head(agenda).key IN
                 IF Head(agenda).lookup
                 THEN IF key \in seen THEN find[Tail(agenda), seen]
                      ELSE find[Ask(KeysOf(classes, key)) \o Tail(agenda), seen \union {key}]
                 ELSE IF key \in methods THEN key
                 ELSE IF key \in DOMAIN aliases
                      THEN find[<< Lookup(aliases[key]) >> \o Tail(agenda), seen]
                 ELSE find[Tail(agenda), seen]
    IN find[start, {}]

\* resolve_method_key_inner.
Resolve(classes, methods, aliases, key) == Search(classes, methods, aliases, << Lookup(key) >>)

\* super_method_key: what is left after the current owner; an alias there is looked up itself.
SuperOf(classes, methods, aliases, key) ==
    LET keys == Named(Candidates(classes, key.owner, key.singleton), key.name)
        at == CHOOSE i \in DOMAIN keys : keys[i].owner = key.owner /\ \A j \in 1 .. i - 1 : keys[j].owner # key.owner
        rest == SubSeq(keys, at + 1, Len(keys))
    IN IF key.owner = None THEN None
       ELSE Search(classes, methods, aliases, [i \in DOMAIN rest |->
                [lookup |-> rest[i] \notin methods /\ rest[i] \in DOMAIN aliases, key |-> rest[i]]])

\* nominal_subtype_names: superclasses, included and prepended modules, not the extended ones.
Above(classes, owner) ==
    LET parents(o) == ({InfoOf(classes, o).superclass} \ {None})
                          \union Elements(InfoOf(classes, o).includes) \union Elements(InfoOf(classes, o).prepends)
        up[s \in SUBSET Owner] ==
            LET next == s \union UNION {parents(o) : o \in s} IN IF next = s THEN s ELSE up[next]
    IN up[{owner}]
NominalSubtypeNames(classes, actual, expected) == expected \in Above(classes, actual)

\* instance_self_type: what self may be in a method of this owner.
SelfTypes(classes, owner) ==
    LET class == InfoOf(classes, owner)
        hosts == {o \in DOMAIN classes : owner \in Elements(classes[o].includes)
                      \union Elements(classes[o].prepends) \union Elements(classes[o].extends)}
        classObject(o) == owner \in Elements(classes[o].extends) \/ (classes[o].isModule /\ classes[o].extendSelf)
    IN IF ~ class.isModule THEN {Self(owner, FALSE)}
       ELSE IF hosts = {} THEN {Self(owner, class.extendSelf)}
       ELSE {Self(o, classObject(o)) : o \in hosts}
-----------------------------------------------------------------------------
(***************************************************************************)
(* Ruby's own order, for comparison: the ancestors of a class are its      *)
(* prepended modules, itself, its included modules and those of its        *)
(* superclass.  A module reached on two ways appears twice here; which     *)
(* place it keeps in Ruby depends on which include came first.             *)
(***************************************************************************)
RubyAncestors(classes, owner) ==
    LET lin[o \in Owner] ==
            LET class == InfoOf(classes, o)
                flat[list \in Seq(Owner)] == IF list = << >> THEN << >> ELSE flat[Tail(list)] \o lin[Head(list)]
            IN flat[class.prepends] \o << o >> \o flat[class.includes]
                   \o (IF class.superclass = None THEN << >> ELSE lin[class.superclass])
    IN lin[owner]

\* The singleton class: extended modules come after it, then the singleton of the superclass.
RubySingletonAncestors(classes, owner) ==
    LET lin[o \in Owner] ==
            LET class == InfoOf(classes, o)
                flat[list \in Seq(Owner)] ==
                    IF list = << >> THEN << >> ELSE flat[Tail(list)] \o RubyAncestors(classes, Head(list))
                instances(list) == [i \in DOMAIN list |-> Self(list[i], FALSE)]
            IN << Self(o, TRUE) >>
                   \o instances(IF class.extendSelf THEN RubyAncestors(classes, o) ELSE << >>)
                   \o instances(flat[class.extends])
                   \o (IF class.superclass = None THEN << >> ELSE lin[class.superclass])
    IN lin[owner]

RubyOrder(classes, owner, singleton) ==
    IF singleton THEN RubySingletonAncestors(classes, owner)
    ELSE LET order == RubyAncestors(classes, owner) IN [i \in DOMAIN order |-> Self(order[i], FALSE)]

\* No module is reached on two ways.
Once(order) == \A i, j \in DOMAIN order : order[i] = order[j] => i = j
=============================================================================
