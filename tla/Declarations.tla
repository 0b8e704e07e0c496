---------------------------- MODULE Declarations ----------------------------
(***************************************************************************)
(* The declaration tables of the analyzer (infer/declarations.rs,          *)
(* infer/registration.rs, signature.rs): a visitor walks the files of the  *)
(* workspace, source and RBI, in the order they come, keeps stacks of what *)
(* is open, and fills the tables; when it is through, register_methods     *)
(* normalizes the classes and gives every method its contract.             *)
(*                                                                         *)
(* The program is written as it is visited: every step adds a statement.   *)
(* Beside the tables runs the world of RubyModules, which says what Ruby   *)
(* makes of the same statements; RBI files only declare.                   *)
(***************************************************************************)
EXTENDS ConstantNames, RubyModules, FiniteSets, FiniteSetsExt, Functions

CONSTANTS
    Themes,          \* what the programs of a kind are written with: [statements, length, files]
    Written(_, _, _) \* may the statement follow here, in this world and kind of file?

VARIABLES
    theme, left,     \* what may still be written
    offset, file,    \* where the visitor is, and the kind of file
    pending,         \* the signatures that wait for their definition
    registrar,       \* the stacks of MethodRegistrar
    tables,          \* DeclarationState
    world,           \* Ruby's view
    registered

vars == << theme, left, offset, file, pending, registrar, tables, world, registered >>

Path == Seq(STRING)
NamePaths == Path \ {<< >>}
Reference == [absolute : BOOLEAN, path : NamePaths]
MethodVisibilities == {"public", "private", "protected"}

\* What a statement is made of, as far as its place in the classes goes.
ThemesAssumption ==
    \A name \in DOMAIN Themes :
        /\ Themes[name].length \in Nat
        /\ \A t \in Themes[name].statements :
              /\ t.op \in {"class", "struct"} => t.name \in Reference
              /\ t.op = "eval" => t.class \in Reference /\ t.singleton \in BOOLEAN
              /\ t.op = "mixin" => t.on = << >> \/ t.on[1] \in Reference
              /\ t.op = "def" => t.onSelf \in BOOLEAN
              /\ t.op = "default" => t.visibility \in MethodVisibilities
ASSUME ThemesAssumption

SourceFile == "source"
Kinds == {SourceFile, "rbi", "builtin"}

-----------------------------------------------------------------------------
(* The tables. *)

ClassInfo ==
    [superclass |-> << >>, isModule |-> FALSE, extendSelf |-> FALSE, fields |-> << >>,
     include |-> << >>, prepend |-> << >>, extend |-> << >>, mixes_in_class_methods |-> << >>,
     singletonExtends |-> << >>, members |-> << >>, attached |-> 0]

\* body: a definition, an accessor, fields of a struct, anything; open: it may return anything.
MethodState(body, visibility) ==
    [explicit |-> FALSE, overloads |-> << >>, visibility |-> visibility, body |-> body, open |-> FALSE]
Explicit(signatures) ==
    [MethodState(<< "contract" >>, "public") EXCEPT !.explicit = TRUE, !.overloads = signatures]
AccessorState == MethodState(<< "accessor" >>, "public")
PredicateState == MethodState(<< "predicate" >>, "public")
Anything == << "anything" >>

InfoOf(t, class) == IF class \in DOMAIN t.classes THEN t.classes[class] ELSE ClassInfo
SetInfo(t, class, info) == [t EXCEPT !.classes = Insert(@, class, info)]
Known(t) == DOMAIN t.classes

-----------------------------------------------------------------------------
(* The stacks. *)

LastOr(stack, default) == IF stack = << >> THEN default ELSE Last(stack)
CurrentSingleton(r) == r.singletonStack # << >>
CurrentOwner(r) == LastOr(r.singletonStack, LastOr(r.classStack, TopLevel))
CurrentKey(r, name) == Key(CurrentOwner(r), name, CurrentSingleton(r))
InClass(r) == r.classStack # << >>

DefinitionKey(r, t) ==
    IF ~t.onSelf /\ r.dynamicStack # << >>
    THEN Key(Last(r.dynamicStack).owner, t.name, Last(r.dynamicStack).singleton)
    ELSE IF t.onSelf THEN Key(LastOr(r.classStack, TopLevel), t.name, TRUE)
    ELSE CurrentKey(r, t.name)

\* Wrong: the singleton classes around a class stay open in it.
OpenBodyInSingleton(r, class) ==
    [r EXCEPT !.classStack = Append(@, class), !.visibilityStack = Append(@, "public"),
              !.open = Append(@, [kind |-> "class", singletonStack |-> r.singletonStack])]

\* The body of a class or module: what was open around it comes back at its end.
OpenBody(r, class) ==
    [r EXCEPT !.classStack = Append(@, class), !.visibilityStack = Append(@, "public"),
              !.open = Append(@, [kind |-> "class", singletonStack |-> r.singletonStack]),
              !.singletonStack = << >>]

OpenSingletonBody(r) ==
    [r EXCEPT !.singletonStack = Append(@, LastOr(r.classStack, Object)),
              !.visibilityStack = Append(@, "public"),
              !.open = Append(@, [kind |-> "singleton"])]

\* The block of X = Struct.new(:f) do is the body of the class X.
OpenStructBody(r, class) ==
    [r EXCEPT !.classStack = Append(@, class), !.visibilityStack = Append(@, "public"),
              !.open = Append(@, [kind |-> "struct"])]

OpenBlock(r, class, singleton) ==
    [r EXCEPT !.dynamicStack = Append(@, [owner |-> class, singleton |-> singleton]),
              !.open = Append(@, [kind |-> "block"])]

\* Wrong: the visibility of a body is that of what follows it.
CloseKeepingVisibility(r) ==
    LET node == Last(r.open)
        closed == [r EXCEPT !.open = Front(@)]
    IN CASE node.kind = "class" -> [closed EXCEPT !.classStack = Front(@), !.singletonStack = node.singletonStack]
         [] node.kind = "struct" -> [closed EXCEPT !.classStack = Front(@)]
         [] node.kind = "singleton" -> [closed EXCEPT !.singletonStack = Front(@)]
         [] OTHER -> [closed EXCEPT !.dynamicStack = Front(@)]

CloseNode(r) ==
    LET node == Last(r.open)
        closed == [r EXCEPT !.open = Front(@)]
    IN CASE node.kind = "class" ->
              [closed EXCEPT !.classStack = Front(@), !.visibilityStack = Front(@),
                             !.singletonStack = node.singletonStack]
         [] node.kind = "struct" ->
              [closed EXCEPT !.classStack = Front(@), !.visibilityStack = Front(@)]
         [] node.kind = "singleton" ->
              [closed EXCEPT !.singletonStack = Front(@), !.visibilityStack = Front(@)]
         [] OTHER -> [closed EXCEPT !.dynamicStack = Front(@)]

-----------------------------------------------------------------------------
(* The signatures: sig calls and comments, paired with what follows them. *)

NothingPending == [sigs |-> << >>, attributes |-> << >>, rbs |-> << >>]
AfterSig(p, at) == [sigs |-> Append(p.sigs, at), attributes |-> Append(p.attributes, at), rbs |-> << >>]
AfterComment(p, at) == [p EXCEPT !.rbs = << at >>]
\* Only the words of a modifier may come between a sig and its def.
AfterModifier(p) == [NothingPending EXCEPT !.sigs = p.sigs]

Annotation(sigs, rbs) == IF sigs # << >> THEN sigs ELSE rbs
MethodAnnotation(p, t) ==
    Annotation(IF t.modifier = "private_class_method" THEN << >> ELSE p.sigs, p.rbs)
AttributeAnnotation(p, t) ==
    IF t.onSingletonClass THEN << >> ELSE Annotation(p.attributes, p.rbs)

-----------------------------------------------------------------------------
(* The statements. *)

Init ==
    /\ theme \in DOMAIN Themes
    /\ left = Themes[theme].length
    /\ offset = 1 /\ file \in Themes[theme].files
    /\ pending = NothingPending
    /\ registrar = [classStack |-> << >>, singletonStack |-> << >>, dynamicStack |-> << >>,
                    visibilityStack |-> << >>, overrides |-> {}, open |-> << >>]
    /\ tables = [methods |-> Insert(<< >>, ClassNew, MethodState(<< "def", 0 >>, "public")),
                 definitions |-> Insert(<< >>, 0, ClassNew), states |-> << >>, annotations |-> Insert(<< >>, 0, << >>),
                 kinds |-> Insert(<< >>, 0, "builtin"), aliases |-> << >>, accessors |-> {}, structFields |-> << >>,
                 classes |-> [c \in DOMAIN Main.superclasses |-> ClassInfo]]
    /\ world = Main
    /\ registered = FALSE

Of(op) == {t \in Themes[theme].statements : t.op = op /\ Written(world, file, t)}

Step(r, t, p, w) ==
    /\ left > 0 /\ ~registered
    /\ left' = left - 1 /\ offset' = offset + 1
    /\ registrar' = r /\ tables' = t /\ pending' = p /\ world' = w
    /\ UNCHANGED << theme, file, registered >>

\* Signatures wait for the next statement only.
Statement(r, t, w) == Step(r, t, NothingPending, Detached(w))

\* visit_class_node and visit_module_node; a superclass may be Struct.new(fields).
VisitClass ==
    \E t \in Of("class") :
        LET path == ScopeName(registrar.classStack, t.name, Known(tables))
            info == InfoOf(tables, path)
            superclass == IF t.fields # << >> THEN << Relative(<< "Struct" >>) >>
                          ELSE IF t.superclass = << >> THEN << >>
                          ELSE << ScopeReference(registrar.classStack, t.superclass[1], Known(tables)) >>
            opened == Opened(world, t.name)
            parent == IF t.isModule THEN TopLevel
                      ELSE IF t.fields # << >> THEN << "Struct" >>
                      ELSE IF t.superclass = << >> THEN Object ELSE Lookup(world, t.superclass[1])
            isOpen == opened \in DOMAIN world.superclasses
        IN  /\ Len(t.name.path) > 1 => Defined(world, [t.name EXCEPT !.path = Front(@)])
            /\ t.superclass # << >> => Defined(world, t.superclass[1]) /\ world.superclasses[parent] # TopLevel
            /\ isOpen => /\ (world.superclasses[opened] = TopLevel) = t.isModule
                         /\ t.fields = << >>
                         /\ (t.superclass # << >> => parent = world.superclasses[opened])
            /\ Statement(OpenBody(registrar, path),
                  SetInfo(tables, path, [info EXCEPT
                      !.isModule = @ \/ t.isModule,
                      !.superclass = IF @ = << >> THEN superclass ELSE @,
                      !.fields = IF t.fields # << >> THEN t.fields ELSE @]),
                  LET entered == OpenClass(world, opened, parent)
                  IN IF t.fields = << >> THEN entered ELSE [entered EXCEPT !.structs = Insert(@, opened, t.fields)])

VisitStruct ==
    \E t \in Of("struct") :
        LET path == ConstantAssignmentName(registrar.classStack, t.name)
            opened == Opened(world, t.name)
        IN  /\ opened \notin DOMAIN world.superclasses
            /\ Statement(OpenStructBody(registrar, path),
                  SetInfo(tables, path, [InfoOf(tables, path) EXCEPT
                      !.superclass = << Relative(<< "Struct" >>) >>, !.fields = t.fields]),
                  OpenStruct(world, opened, t.fields))

VisitSingletonClass ==
    \E t \in Of("singleton") :
        /\ Len(world.scopes) > 1
        /\ Statement(OpenSingletonBody(registrar), tables, OpenSingleton(world))

\* C.class_eval do and C.instance_eval do: the name of the class is the text of its reference.
VisitBlock ==
    \E t \in Of("eval") :
        /\ Defined(world, t.class)
        /\ Statement(
              OpenBlock(registrar, NameText(ScopeReference(registrar.classStack, t.class, Known(tables))), t.singleton),
              tables, OpenBlockOf(world, Lookup(world, t.class), t.singleton))

Close ==
    \E t \in Of("close") :
        /\ registrar.open # << >>
        /\ Statement(CloseNode(registrar), tables, Leave(world))

VisitDef ==
    \E t \in Of("def") :
        LET key == DefinitionKey(registrar, t)
            overrides == IF t.modifier = "private_class_method" /\ InClass(registrar)
                         THEN registrar.overrides \union {key} ELSE registrar.overrides
            visibility == IF key \in overrides THEN "private" ELSE LastOr(registrar.visibilityStack, "public")
            state == MethodState(<< "def", offset >>, visibility)
            function == [key EXCEPT !.owner = CurrentOwner(registrar), !.singleton = FALSE]
            rubyKey == Key(Inner(world).owner, t.name, t.onSelf \/ Inner(world).singleton)
            declared == [Sign(world, rubyKey, file) EXCEPT !.declared = Insert(@, offset, rubyKey)]
        IN Statement([registrar EXCEPT !.overrides = overrides],
              [tables EXCEPT
                  !.definitions = Insert(@, offset, key), !.states = Insert(@, offset, state),
                  !.methods = OrInsert(@, key, state), !.kinds = Insert(@, offset, file),
                  !.annotations = Insert(@, offset, MethodAnnotation(pending, t)),
                  !.aliases = IF t.modifier = "module_function" /\ InClass(registrar)
                              THEN Insert(@, [function EXCEPT !.singleton = TRUE], function) ELSE @],
              IF file = SourceFile THEN Def(declared, rubyKey, offset, t.onSelf, t.modifier) ELSE declared)

VisitSig ==
    \E t \in Of("sig") :
        Step(registrar, tables, AfterSig(pending, offset), [world EXCEPT !.sigs = Append(@, offset)])

VisitComment ==
    \E t \in Of("rbs") :
        Step(registrar, tables, AfterComment(pending, offset), [world EXCEPT !.comments = Append(@, offset)])

\* private without arguments.
SetDefaultVisibility ==
    \E t \in Of("default") :
        /\ InClass(registrar)
        /\ Step([registrar EXCEPT !.visibilityStack = Append(Front(@), t.visibility)], tables,
                AfterModifier(pending), [SetDefault(world, t.visibility) EXCEPT !.comments = << >>])

\* private :m and private_class_method :m.
SetVisibilityForMethodNames ==
    \E t \in Of("visibility") :
        LET key == Key(CurrentOwner(registrar), t.name, t.classMethod \/ CurrentSingleton(registrar))
            rubyKey == Key(Inner(world).owner, t.name, t.classMethod \/ Inner(world).singleton)
        IN  /\ InClass(registrar) /\ rubyKey \in DOMAIN world.methods
            /\ Statement(registrar,
                  IF key \in DOMAIN tables.methods
                  THEN [tables EXCEPT !.methods = [@ EXCEPT ![key] = [tables.methods[key] EXCEPT !.visibility = t.visibility]]]
                  ELSE tables,
                  SetVisibility(world, rubyKey, t.visibility))

\* Wrong: what class objects inherit is never the target.
AliasTargetOwn(t, key) == key

\* The method of that name that is registered by now, or what class objects inherit.
AliasTarget(t, key) ==
    LET Has(k) == k \in DOMAIN t.methods \/ k \in DOMAIN t.aliases
        inherited == Key(<< "Class" >>, key.name, FALSE)
    IN IF ~Has(key) /\ key.singleton /\ Has(inherited) THEN inherited ELSE key

\* alias and alias_method.
VisitAlias ==
    \E t \in Of("alias") :
        LET new == Key(Inner(world).owner, t.name, Inner(world).singleton)
            old == Found(world, [new EXCEPT !.name = t.old])
        IN  /\ old \in DOMAIN world.methods
            /\ Statement(registrar,
                  [tables EXCEPT !.aliases =
                      Insert(@, CurrentKey(registrar, t.name), AliasTarget(tables, CurrentKey(registrar, t.old)))],
                  Alias(world, new, old))

\* module_function :m.
VisitModuleFunction ==
    \E t \in Of("module_function") :
        LET function == Key(CurrentOwner(registrar), t.name, FALSE)
            rubyKey == Key(Inner(world).owner, t.name, FALSE)
        IN  /\ InClass(registrar) /\ rubyKey \in DOMAIN world.methods
            /\ Statement(registrar,
                  [tables EXCEPT !.aliases = Insert(@, [function EXCEPT !.singleton = TRUE], function)],
                  Function(world, rubyKey))

AddAccessors(t, keys, signatures) ==
    [t EXCEPT !.accessors = @ \union keys,
              !.methods = Over(@, [key \in keys |-> IF signatures = << >> THEN AccessorState ELSE Explicit(signatures)])]

\* attr_reader, also as singleton_class.attr_reader.
VisitAttr ==
    \E t \in Of("attr") :
        LET key == IF t.onSingletonClass THEN Key(LastOr(registrar.classStack, TopLevel), t.name, TRUE)
                   ELSE CurrentKey(registrar, t.name)
            rubyKey == Key(Inner(world).owner, t.name, t.onSingletonClass \/ Inner(world).singleton)
            signed == Sign(world, rubyKey, file)
        IN  /\ InClass(registrar)
            /\ Statement(registrar, AddAccessors(tables, {key}, AttributeAnnotation(pending, t)),
                         IF file = SourceFile THEN Attr(signed, rubyKey) ELSE signed)

\* include, prepend, extend and mixes_in_class_methods, in a body or on a class that is named.
VisitMixin ==
    \E t \in Of("mixin") :
        LET owner == IF t.on = << >> THEN CurrentOwner(registrar)
                     ELSE ScopeReference(registrar.classStack, t.on[1], Known(tables)).path
            info == InfoOf(tables, owner)
            module == ScopeReference(registrar.classStack, t.module, Known(tables))
            class == IF t.on = << >> THEN Inner(world).owner ELSE Lookup(world, t.on[1])
        IN  /\ t.on = << >> => InClass(registrar)
            /\ t.on # << >> => Defined(world, t.on[1])
            /\ Defined(world, t.module)
            /\ Statement(registrar,
                  SetInfo(tables, owner,
                      IF t.on = << >> /\ t.kind = "extend" /\ CurrentSingleton(registrar)
                      THEN [info EXCEPT !.singletonExtends = Append(@, module)]
                      ELSE [info EXCEPT ![t.kind] = Append(@, module)]),
                  Mix(world, class, t.on = << >> /\ Inner(world).singleton, t.kind, Lookup(world, t.module)))

\* extend self
ExtendSelf ==
    \E t \in Of("extend_self") :
        LET info == InfoOf(tables, CurrentOwner(registrar))
        IN  /\ InClass(registrar) /\ info.isModule
            /\ Statement(registrar,
                  SetInfo(tables, CurrentOwner(registrar), [info EXCEPT !.extendSelf = TRUE]),
                  Mix(world, Inner(world).owner, Inner(world).singleton, "extend", Inner(world).owner))

\* The chain of superclasses as they are recorded so far, not yet resolved.
ExtendsTStruct(t, owner) ==
    LET Above(r) == IF r.absolute \/ r.path \notin Known(t) \/ t.classes[r.path].superclass = << >>
                    THEN r ELSE t.classes[r.path].superclass[1]
        up[n \in 0 .. Cardinality(Known(t))] == IF n = 0 THEN Relative(owner) ELSE Above(up[n - 1])
    IN \E n \in DOMAIN up : up[n].path = TStruct

\* What the DSL itself is called with is not checked.
DslMethod(t, owner, name) == [t EXCEPT !.methods = OrInsert(@, Key(owner, name, TRUE), Explicit(<< offset >>))]

\* abstract! and interface!
RegisterClassDslMethod ==
    \E t \in Of("dsl") :
        /\ InClass(registrar)
        /\ Statement(registrar, DslMethod(tables, CurrentOwner(registrar), t.name), world)

\* prop :f, Type declares a reader, a writer and a field; const no writer.
RegisterStructProperty ==
    \E t \in Of("prop") :
        LET owner == CurrentOwner(registrar)
            fields == IF owner \in DOMAIN tables.structFields THEN tables.structFields[owner] ELSE << >>
            keys == {Key(owner, t.name, FALSE)} \union (IF t.immutable THEN {} ELSE {Key(owner, t.writer, FALSE)})
            class == Inner(world).owner
        IN  /\ InClass(registrar) /\ world.superclasses[class] = TStruct
            /\ class \in DOMAIN world.structs => t.name \notin ToSet(world.structs[class])
            /\ Statement(registrar,
                  IF ~ExtendsTStruct(tables, owner) THEN tables
                  ELSE DslMethod(
                          [AddAccessors(tables, keys, << offset >>) EXCEPT !.structFields =
                              Insert(@, owner, IF t.name \in ToSet(fields) THEN fields ELSE Append(fields, t.name))],
                          owner, IF t.immutable THEN "const" ELSE "prop"),
                  AddField(world, class, t.name))

GeneratedAccessors(t, keys) == AddAccessors(t, keys, << >>)
GeneratedPredicates(t, keys) == [t EXCEPT !.methods = Over(@, [key \in keys |-> PredicateState])]

\* class_attribute :a with its options: on the class a reader, a writer and a predicate, on
\* instances those that are not refused.
RegisterClassAttribute ==
    \E t \in Of("class_attribute") :
        LET Accessors(o) ==
                {Key(o, t.name, TRUE), Key(o, t.writer, TRUE)}
                \union (IF t.instanceReader THEN {Key(o, t.name, FALSE)} ELSE {})
                \union (IF t.instanceWriter THEN {Key(o, t.writer, FALSE)} ELSE {})
            Predicates(o) ==
                IF ~t.predicates THEN {}
                ELSE {Key(o, t.predicate, TRUE)}
                     \union (IF t.instanceReader THEN {Key(o, t.predicate, FALSE)} ELSE {})
            owner == CurrentOwner(registrar)
            class == Inner(world).owner
        IN  /\ InClass(registrar)
            /\ Statement(registrar,
                  GeneratedPredicates(GeneratedAccessors(tables, Accessors(owner)), Predicates(owner)),
                  DefineAll(DefineAll(world, Accessors(class), << "accessor" >>, Inner(world).visibility),
                            Predicates(class), << "predicate" >>, "public"))

\* delegate :m, to: target, private: true.
RegisterDelegateMethods ==
    \E t \in Of("delegate") :
        LET state == MethodState(Anything, t.visibility)
        IN  /\ InClass(registrar)
            /\ Statement(registrar,
                  [tables EXCEPT !.methods = OrInsert(@, CurrentKey(registrar, t.name), state)],
                  Define(world, Key(Inner(world).owner, t.name, Inner(world).singleton), Anything, t.visibility))

\* E = type_member.
RegisterMember ==
    \E t \in Of("member") :
        LET owner == Last(registrar.classStack)
            info == InfoOf(tables, owner)
        IN  /\ InClass(registrar)
            /\ Statement(registrar,
                  SetInfo(tables, owner, [info EXCEPT
                      !.members = Insert(@, t.name, Cardinality(DOMAIN info.members) + 1)]),
                  Member(world, Inner(world).cref, t.name))

\* has_attached_class!(:out).
RegisterAttachedClass ==
    \E t \in Of("attached") :
        LET owner == CurrentOwner(registrar)
            info == InfoOf(tables, owner)
            members == OrInsert(info.members, t.name, Cardinality(DOMAIN info.members) + 1)
        IN  /\ InClass(registrar)
            /\ Statement(registrar,
                  SetInfo(tables, owner, [info EXCEPT !.members = members, !.attached = members[t.name]]),
                  Member(world, Inner(world).owner, t.name))

\* The boundary between files is a statement.
NextFile ==
    \E kind \in Themes[theme].files :
        /\ left > 0 /\ ~registered /\ registrar.open = << >>
        /\ file' = kind /\ offset' = offset + 1 /\ left' = left - 1
        /\ pending' = NothingPending /\ world' = Detached(world)
        /\ UNCHANGED << theme, registrar, tables, registered >>

-----------------------------------------------------------------------------
(* register_methods, when the visitor is through. *)

\* Every class but a module inherits from Object; a module that is mixed in brings the
\* class methods it names, a concern those in its ClassMethods.
NormalizeClassGraph(t) ==
    LET known == Known(t)
        Resolved(list, owner) == [i \in DOMAIN list |-> Relative(ResolveName(list[i], owner, known))]
        Superclass(info, owner) ==
            IF info.superclass # << >>
            THEN << Relative(ResolveSuperclass(info.superclass[1], owner, known)) >>
            ELSE IF info.isModule \/ owner = Object THEN << >> ELSE << Relative(Object) >>
        resolved == [c \in known |->
            [t.classes[c] EXCEPT !.superclass = Superclass(t.classes[c], c), !.include = Resolved(@, c),
                                 !.prepend = Resolved(@, c), !.extend = Resolved(@, c),
                                 !.mixes_in_class_methods = Resolved(@, c)]]
        mixedIn == [c \in known |-> resolved[c].include \o resolved[c].prepend]
        Named(r) == IF r.path \in known THEN resolved[r.path].mixes_in_class_methods ELSE << >>
        classMethods == [c \in known |-> c \o << "ClassMethods" >>]
        Concern(r) == IF /\ r.path \in known /\ classMethods[r.path] \in known
                         /\ Relative(ConcernModule) \in ToSet(resolved[r.path].extend)
                      THEN << Relative(classMethods[r.path]) >> ELSE << >>
        Push(list, module) == IF module \in ToSet(list) THEN list ELSE Append(list, module)
        brought == [c \in known |-> FlattenSeq([i \in DOMAIN mixedIn[c] |-> Named(mixedIn[c][i])])
                                    \o FlattenSeq([i \in DOMAIN mixedIn[c] |-> Concern(mixedIn[c][i])])]
    IN [t EXCEPT !.classes =
          [c \in known |-> [resolved[c] EXCEPT !.extend = FoldLeft(Push, @, brought[c])]]]

\* Struct.new generates accessors and an initializer, T::Struct an initializer of keywords.
\* The writer f= goes with the reader f.
GenerateStructMethods(t) ==
    LET structs == {c \in Known(t) : t.classes[c].fields # << >>}
        fields == Over([c \in structs |-> t.classes[c].fields], t.structFields)
        own == UNION {{Key(c, f, FALSE) : f \in ToSet(fields[c])} : c \in structs}
        properties == {c \in DOMAIN t.structFields : c \in Known(t)
                            /\ t.classes[c].superclass = << Relative(TStruct) >>}
        initializers == [k \in {Key(c, "initialize", FALSE) : c \in structs \union properties} |->
                            MethodState(<< "fields", fields[k.owner] >>, "public")]
    IN [t EXCEPT !.structFields = fields, !.accessors = @ \union own,
                 !.methods = Over(Over(@, [k \in own |-> AccessorState]), initializers)]

DefinitionsOf(t, key, kind) == {o \in DOMAIN t.definitions : t.definitions[o] = key /\ t.kinds[o] = kind}

InOrder(offsets) == SelectSeq([i \in 1 .. offset |-> i - 1], LAMBDA o : o \in offsets)

\* All signatures of a key in the files of a kind, in their order: its overloads.
SignaturesOf(t, key, kind) ==
    LET definitions == InOrder(DefinitionsOf(t, key, kind))
    IN FlattenSeq([i \in DOMAIN definitions |-> t.annotations[definitions[i]]])

\* Wrong: the signatures of RBI files are put in place first.
ContractRbiFirst(t, key) ==
    LET Signed(kind) == SignaturesOf(t, key, kind)
    IN IF Signed("rbi") # << >> THEN Signed("rbi")
       ELSE IF Signed(SourceFile) # << >> THEN Signed(SourceFile)
       ELSE IF DefinitionsOf(t, key, SourceFile) # {} THEN << >> ELSE Signed("builtin")

\* Source before RBI before builtin; a source definition replaces what is declared outside.
Contract(t, key) ==
    LET Signed(kind) == SignaturesOf(t, key, kind)
    IN IF Signed(SourceFile) # << >> THEN Signed(SourceFile)
       ELSE IF DefinitionsOf(t, key, SourceFile) # {} THEN << >>
       ELSE IF Signed("rbi") # << >> THEN Signed("rbi") ELSE Signed("builtin")

\* The state a key ends with: an accessor's contract is kept, the first source body counts,
\* and what an RBI declares without describing it may return anything.
Reconciled(t, key) ==
    LET state == t.methods[key]
        source == DefinitionsOf(t, key, SourceFile)
        inferred == IF source = {} THEN state ELSE t.states[Min(source)]
        contract == Contract(t, key)
        external == DefinitionsOf(t, key, "rbi") \union DefinitionsOf(t, key, "builtin")
    IN IF state.explicit THEN Explicit(state.overloads)
       ELSE IF contract # << >> THEN Explicit(contract)
       ELSE [inferred EXCEPT !.open = @ \/ (external # {} /\ inferred.body[1] = "def")]

RegisterMethods ==
    /\ ~registered /\ registrar.open = << >>
    /\ registered' = TRUE
    /\ \E t \in {GenerateStructMethods(NormalizeClassGraph(tables))} :
          tables' = [t EXCEPT !.methods = [key \in DOMAIN @ |-> Reconciled(t, key)]]
    /\ UNCHANGED << theme, left, offset, file, pending, registrar, world >>

Next ==
    \/ VisitClass \/ VisitStruct \/ VisitSingletonClass \/ VisitBlock \/ Close
    \/ VisitDef \/ VisitSig \/ VisitComment \/ VisitAttr
    \/ SetDefaultVisibility \/ SetVisibilityForMethodNames
    \/ VisitAlias \/ VisitModuleFunction \/ VisitMixin \/ ExtendSelf
    \/ RegisterClassDslMethod \/ RegisterStructProperty \/ RegisterClassAttribute \/ RegisterDelegateMethods
    \/ RegisterMember \/ RegisterAttachedClass
    \/ NextFile \/ RegisterMethods

Spec == Init /\ [][Next]_vars

-----------------------------------------------------------------------------
(* The programs whose definitions go where the registrar takes them. *)

Single(reference) == reference.absolute \/ Len(reference.path) = 1

\* class M::A is known from the top, or M is a class of the innermost scope; the registrar
\* searches no scope between them.
FoundInnermost(w, reference) ==
    \/ Single(reference)
    \/ Opened(w, reference) = reference.path /\ reference.path \in DOMAIN w.superclasses
    \/ /\ Lookup(w, [reference EXCEPT !.path = << Head(@) >>]) = Inner(w).cref \o << Head(reference.path) >>
       /\ Inner(w).cref # TopLevel => ~IsPrefix(Inner(w).cref, reference.path)

\* Bodies nest as they do in Ruby programs: a block or the body of a Struct.new opens no class
\* and no block, self is a class where a def is written on it, a class a mixin is sent to is
\* named by one constant or in full, and one whose class_eval is called by one constant: the
\* root marker of ::A would stay in the owner.
Regular(w, t) ==
    LET here == Inner(w)
    IN  /\ t.op = "class" => here.kind \in {"class", "singleton"} /\ FoundInnermost(w, t.name)
        /\ t.op = "struct" => here.kind = "class" /\ Single(t.name)
        /\ t.op = "singleton" => here.kind = "class"
        /\ t.op = "eval" =>
              here.kind \in {"class", "singleton"} /\ Single(t.class) /\ ~t.class.absolute
        /\ t.op = "def" /\ t.onSelf => here.kind \in {"class", "struct"}
        /\ t.op = "mixin" /\ t.on # << >> => here.kind \in {"class", "singleton"} /\ Single(t.on[1])

-----------------------------------------------------------------------------
(* What the tables must say. *)

TypeOK ==
    /\ left \in 0 .. Themes[theme].length /\ file \in Themes[theme].files /\ registered \in BOOLEAN
    /\ Len(registrar.visibilityStack) = Len(registrar.open) - Len(registrar.dynamicStack)
    /\ Len(registrar.open) + 1 = Len(world.scopes)
    /\ DOMAIN tables.definitions = DOMAIN tables.kinds
    /\ \A o \in DOMAIN tables.definitions : tables.definitions[o] \in DOMAIN tables.methods

\* Every def is recorded under the class Ruby defines it in, whatever was opened and closed
\* before: declarations.rs visits with a stack of classes, one of singleton classes that a class
\* puts aside, and one of class_eval blocks.
DefinitionsOwned == TypeOK /\ tables.definitions = world.declared

\* The signatures that describe key, in the order docs/08-clean-room-rbi-signature-and-inference-design.md
\* 8.1 gives: those of the source, of RBI files, of the builtin ones.
SignedIn(kind, key) == {c.signature : c \in {d \in world.contracts : d.key = key /\ d.file = kind}}
Described(key) ==
    IF SignedIn(SourceFile, key) # {} THEN SignedIn(SourceFile, key)
    ELSE IF SignedIn("rbi", key) # {} THEN SignedIn("rbi", key) ELSE SignedIn("builtin", key)

\* After registration (register_methods) a method or an accessor has the signatures Ruby would
\* pair with it, those of the best kind of file and in their order, however the files of the
\* kinds were mixed; one that only RBI files declare and nothing describes may return anything.
\* Two cases are no part of the claim and of the programs it is checked on: a source def without
\* a signature that an RBI file describes, and an accessor after an RBI declaration of its name.
ContractPrecedence ==
    registered =>
        \A key \in Range(world.declared) \union {c.key : c \in world.contracts} :
            LET state == tables.methods[key]
            IN /\ state.explicit = (Described(key) # {})
               /\ state.overloads = InOrder(Described(key))
               /\ Described(key) = {} /\ key \notin DOMAIN world.methods => state.open

\* The state an alias reaches, as method lookup follows it.
Reached(key) ==
    LET Next1(k) == IF k \in DOMAIN tables.methods \/ k \notin DOMAIN tables.aliases THEN k ELSE tables.aliases[k]
        reached[n \in 0 .. Cardinality(DOMAIN tables.aliases)] == IF n = 0 THEN key ELSE Next1(reached[n - 1])
    IN reached[Cardinality(DOMAIN tables.aliases)]

\* The generated methods of a struct, which the class may define itself.
StructsAnswer ==
    \A class \in DOMAIN world.structs :
        /\ tables.structFields[class] = world.structs[class]
        /\ Key(class, "initialize", FALSE) \in DOMAIN world.methods
            \/ tables.methods[Key(class, "initialize", FALSE)].body = << "fields", world.structs[class] >>
        /\ \A f \in ToSet(world.structs[class]) : Key(class, f, FALSE) \in DOMAIN tables.methods

\* After registration every method Ruby has is found, and it is the body Ruby runs: an alias
\* is the method of the time of the alias, a struct and the class attributes have what they
\* generate. What a signature describes is known by its signature.
MethodsAnswer ==
    registered =>
        /\ StructsAnswer
        /\ \A key \in DOMAIN world.methods :
               /\ Reached(key) \in DOMAIN tables.methods
               /\ LET state == tables.methods[Reached(key)]
                  IN state.explicit \/ state.body = world.methods[key].body

\* After registration a method without a signature may be called by whom Ruby lets call it: the
\* default visibility is that of the innermost body, and it comes back when a nested body ends.
\* The original of a module function, private in Ruby, is left public.
VisibilityKept ==
    registered =>
        \A key \in DOMAIN world.methods :
            LET state == tables.methods[Reached(key)]
                isFunction == [key EXCEPT !.singleton = TRUE] \in DOMAIN tables.aliases /\ ~key.singleton
            IN state.explicit \/ isFunction \/ state.visibility = world.methods[key].visibility

\* What is mixed into a class or, for extend, into its singleton class.
MixedIn(class, kind) ==
    LET target == << class, FALSE, kind >>
    IN IF target \in DOMAIN world.mixins THEN world.mixins[target] ELSE << >>

\* The type members of a class are numbered in their order, once each: arguments are read by
\* these numbers (type_resolution.rs:137).
MembersInOrder ==
    \A class \in DOMAIN world.members :
        LET members == InfoOf(tables, class).members
        IN /\ DOMAIN members = ToSet(world.members[class])
           /\ \A i \in DOMAIN world.members[class] : members[world.members[class][i]] = i

\* After registration the class graph is Ruby's: a reference in a superclass or a mixin means
\* the class Ruby finds from where it is written, and a module that is included brings the class
\* methods it names.
NamesResolve ==
    registered =>
        \A class \in DOMAIN world.superclasses \ DOMAIN Main.superclasses :
            LET info == tables.classes[class]
                Paths(list) == [i \in DOMAIN list |-> list[i].path]
                Brought(module) == ToSet(MixedIn(module, "mixes_in_class_methods"))
                    \union {c \in DOMAIN world.superclasses :
                                c = module \o << "ClassMethods" >> /\ ConcernModule \in ToSet(MixedIn(module, "extend"))}
                included == ToSet(MixedIn(class, "include")) \union ToSet(MixedIn(class, "prepend"))
            IN /\ Paths(info.superclass) =
                      IF world.superclasses[class] = TopLevel THEN << >> ELSE << world.superclasses[class] >>
               /\ Paths(info.include) = MixedIn(class, "include")
               /\ Paths(info.prepend) = MixedIn(class, "prepend")
               /\ ToSet(Paths(info.extend)) \union (IF info.extendSelf THEN {class} ELSE {}) =
                      ToSet(MixedIn(class, "extend")) \union UNION {Brought(module) : module \in included}

ClassesAgree == NamesResolve /\ MembersInOrder

=============================================================================
