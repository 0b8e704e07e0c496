---------------------------- MODULE RubyModules ----------------------------
(***************************************************************************)
(* What Ruby makes of the statements of class bodies: the reference for    *)
(* Declarations, written from the language.                                *)
(*                                                                         *)
(* A world has the scopes that are open (the lexical class, the class a    *)
(* def goes to, the default visibility), the classes with their superclass *)
(* and mixins, and the methods: what their body is and who may call them.  *)
(* A constant is written [absolute, path]; a path is a sequence of names.  *)
(***************************************************************************)
EXTENDS Naturals, SequencesExt

\* A map and an entry more, which counts before the one that is there or after it.
Insert(map, key, value) == [k \in DOMAIN map \union {key} |-> IF k = key THEN value ELSE map[k]]
OrInsert(map, key, value) == [k \in DOMAIN map \union {key} |-> IF k \in DOMAIN map THEN map[k] ELSE value]
Over(map, other) == [k \in DOMAIN map \union DOMAIN other |-> IF k \in DOMAIN map THEN map[k] ELSE other[k]]

Key(owner, name, singleton) == [owner |-> owner, name |-> name, singleton |-> singleton]
Scope(kind, cref, owner, singleton) ==
    [kind |-> kind, cref |-> cref, owner |-> owner, singleton |-> singleton, visibility |-> "public"]
Object == << "Object" >>
TopLevel == << >>

TStruct == << "T", "Struct" >>
ConcernModule == << "ActiveSupport", "Concern" >>
ClassNew == Key(<< "Class" >>, "new", FALSE)

\* Before the program: a few classes, a module (one without a superclass), and Class#new.
Main ==
    [scopes |-> << Scope("class", TopLevel, TopLevel, FALSE) >>,
     superclasses |-> Insert([c \in {Object, << "Class" >>, << "Struct" >>, TStruct} |-> Object],
                             ConcernModule, TopLevel),
     mixins |-> << >>, structs |-> << >>, members |-> << >>,
     declared |-> Insert(<< >>, 0, ClassNew),
     methods |-> Insert(<< >>, ClassNew, [body |-> << "def", 0 >>, visibility |-> "public"]),
     sigs |-> << >>, comments |-> << >>, contracts |-> {}]

Inner(world) == Last(world.scopes)

\* Constants are looked up in the scopes around the reference, innermost first; those a
\* class inherits are left out.
Lookup(world, reference) ==
    LET scopes == world.scopes
        having == {i \in DOMAIN scopes :
                        scopes[i].cref \o << Head(reference.path) >> \in DOMAIN world.superclasses}
    IN IF reference.absolute \/ having = {} THEN reference.path
       ELSE scopes[CHOOSE i \in having : \A j \in having : j <= i].cref \o reference.path

Defined(world, reference) == Lookup(world, reference) \in DOMAIN world.superclasses

\* class A belongs to the innermost scope, class M::A to what M is found to be.
Opened(world, reference) ==
    IF reference.absolute THEN reference.path
    ELSE IF Len(reference.path) = 1 THEN Inner(world).cref \o reference.path
    ELSE Lookup(world, [reference EXCEPT !.path = Front(@)]) \o << Last(reference.path) >>

Enter(world, scope) == [world EXCEPT !.scopes = Append(@, scope)]
Leave(world) == [world EXCEPT !.scopes = Front(@)]

\* parent is what the superclass expression gave, before the class exists. A class opened
\* in a singleton class is named like one opened beside it.
OpenClass(world, path, parent) ==
    [Enter(world, Scope("class", path, path, FALSE)) EXCEPT !.superclasses = OrInsert(@, path, parent)]

OpenSingleton(world) == Enter(world, Scope("singleton", Inner(world).cref, Inner(world).owner, TRUE))
OpenBlockOf(world, class, singleton) == Enter(world, Scope("block", Inner(world).cref, class, singleton))

Mix(world, class, singleton, kind, module) ==
    LET target == << class, singleton, kind >>
    IN [world EXCEPT !.mixins =
            Insert(@, target, IF target \in DOMAIN @ THEN Append(@[target], module) ELSE << module >>)]

Define(world, key, body, visibility) ==
    [world EXCEPT !.methods = Insert(@, key, [body |-> body, visibility |-> visibility])]
DefineAll(world, keys, body, visibility) ==
    [world EXCEPT !.methods = Over([key \in keys |-> [body |-> body, visibility |-> visibility]], @)]

\* module_function leaves a private method, and a public copy for the module itself.
Def(world, key, offset, onSelf, modifier) ==
    LET body == << "def", offset >>
        visibility ==
            CASE modifier \in {"private_class_method", "module_function"} -> "private"
              [] modifier = "none" /\ ~onSelf -> Inner(world).visibility
              [] OTHER -> "public"
        defined == Define(world, key, body, visibility)
    IN IF modifier # "module_function" THEN defined
       ELSE Define(defined, [key EXCEPT !.singleton = TRUE], body, "public")

\* A signature is for the def or the attr_reader that follows it: a sig or, without one,
\* the comment above. Any other statement but a bare private ends the wait.
Sign(world, key, file) ==
    LET waiting == IF world.sigs # << >> THEN world.sigs ELSE world.comments
    IN [world EXCEPT !.contracts =
            @ \union {[key |-> key, file |-> file, signature |-> s] : s \in ToSet(waiting)}]
Detached(world) == [world EXCEPT !.sigs = << >>, !.comments = << >>]

SetDefault(world, visibility) ==
    [world EXCEPT !.scopes = [@ EXCEPT ![Len(@)] = [Inner(world) EXCEPT !.visibility = visibility]]]

SetVisibility(world, key, visibility) ==
    [world EXCEPT !.methods = [@ EXCEPT ![key] = [world.methods[key] EXCEPT !.visibility = visibility]]]

\* What class objects are asked for and do not define, they inherit from Class.
Found(world, key) ==
    IF key \notin DOMAIN world.methods /\ key.singleton THEN Key(<< "Class" >>, key.name, FALSE) ELSE key

\* An alias is a copy of the method the name has now; module_function leaves a public copy.
Alias(world, new, old) == Define(world, new, world.methods[old].body, world.methods[old].visibility)
Function(world, key) ==
    SetVisibility(Define(world, [key EXCEPT !.singleton = TRUE], world.methods[key].body, "public"), key, "private")

Attr(world, key) == Define(world, key, << "accessor" >>, Inner(world).visibility)

\* The block of Struct.new is no scope for constants.
OpenStruct(world, class, fields) ==
    [Enter(world, Scope("struct", Inner(world).cref, class, FALSE)) EXCEPT
        !.superclasses = OrInsert(@, class, << "Struct" >>), !.structs = OrInsert(@, class, fields)]
AddField(world, class, field) ==
    [world EXCEPT !.structs =
        Insert(@, class, IF class \in DOMAIN @ THEN Append(@[class], field) ELSE << field >>)]

Member(world, class, name) ==
    [world EXCEPT !.members =
        Insert(@, class, IF class \notin DOMAIN @ THEN << name >>
                         ELSE IF name \in ToSet(@[class]) THEN @[class] ELSE Append(@[class], name))]
=============================================================================
