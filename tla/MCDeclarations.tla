--------------------------- MODULE MCDeclarations ---------------------------
(***************************************************************************)
(* Instances of Declarations: a theme is the statements programs of one    *)
(* kind are written with. Allowed is what the named exclusions of README   *)
(* leave: statements the tables are known to record otherwise.             *)
(***************************************************************************)
EXTENDS Declarations

A == Relative(<< "A" >>)
B == Relative(<< "B" >>)
M == Relative(<< "M" >>)
ClassOf(name, isModule, superclass) ==
    [op |-> "class", name |-> name, isModule |-> isModule, superclass |-> superclass, fields |-> << >>]
Class(name) == ClassOf(name, FALSE, << >>)
Module(name) == ClassOf(name, TRUE, << >>)
Sub(name, superclass) == ClassOf(name, FALSE, << superclass >>)
StructClass(name, fields) == [Class(name) EXCEPT !.fields = fields]
Struct(name, fields) == [op |-> "struct", name |-> name, fields |-> fields]
Close1 == [op |-> "close"]
Singleton == [op |-> "singleton"]
Eval(class, singleton) == [op |-> "eval", class |-> class, singleton |-> singleton]
MethodDef(name, onSelf, modifier) == [op |-> "def", name |-> name, onSelf |-> onSelf, modifier |-> modifier]
Method(name) == MethodDef(name, FALSE, "none")
SelfMethod(name) == MethodDef(name, TRUE, "none")
Sig == [op |-> "sig"]
Comment == [op |-> "rbs"]
Default(visibility) == [op |-> "default", visibility |-> visibility]
Named(name, visibility, classMethod) ==
    [op |-> "visibility", name |-> name, visibility |-> visibility, classMethod |-> classMethod]
Reader(name, onSingletonClass) == [op |-> "attr", name |-> name, onSingletonClass |-> onSingletonClass]
AliasOf(name, old) == [op |-> "alias", name |-> name, old |-> old]
ModuleFunction(name) == [op |-> "module_function", name |-> name]
Mixin(kind, module) == [op |-> "mixin", on |-> << >>, kind |-> kind, module |-> module]
MixinOn(class, kind, module) == [Mixin(kind, module) EXCEPT !.on = << class >>]
Property(name, writer, immutable) == [op |-> "prop", name |-> name, writer |-> writer, immutable |-> immutable]
Attribute(reader, writer, predicates) ==
    [op |-> "class_attribute", name |-> "f", writer |-> "f=", predicate |-> "f?",
     instanceReader |-> reader, instanceWriter |-> writer, predicates |-> predicates]
Delegate(name, visibility) == [op |-> "delegate", name |-> name, visibility |-> visibility]
MemberOf(name) == [op |-> "member", name |-> name]
Attached(name) == [op |-> "attached", name |-> name]

Theme(statements, length, files) == [statements |-> statements \union {Close1}, length |-> length, files |-> files]

\* Where a def goes, through classes, singleton classes and blocks.
Scopes ==
    Theme({Module(M), Class(A), Class(Absolute(<< "A" >>)), Class(Relative(<< "M", "A" >>)), Singleton,
           Eval(A, FALSE), Eval(A, TRUE), Method("m"), SelfMethod("m")}, 6, {SourceFile})

\* Signatures and the kinds of files.
Contracts ==
    Theme({Class(A), Sig, Method("m"), MethodDef("m", FALSE, "private"), Default("public")}, 7, Kinds)
Comments ==
    Theme({Class(A), Comment, Sig, Method("m"), MethodDef("m", TRUE, "private_class_method"), Reader("m", FALSE)}, 6,
          {SourceFile, "rbi"})

\* Accessors that are described beside an RBI file that declares them too.
Accessors == Theme({Class(A), Sig, Method("m"), Reader("m", FALSE)}, 9, {SourceFile, "rbi"})

\* Who may call what.
Visibilities ==
    Theme({Class(A), Singleton, Default("private"), Default("public"), Method("m"),
           MethodDef("m", TRUE, "private_class_method"), Reader("n", FALSE), Named("n", "private", FALSE),
           Delegate("n", "private")}, 7, {SourceFile})

\* Aliases, also of what is inherited, and module functions.
Aliases ==
    Theme({Module(M), Singleton, Method("m"), Method("new"), AliasOf("n", "m"), AliasOf("create", "new"),
           AliasOf("o", "n"), ModuleFunction("m"), MethodDef("f", FALSE, "module_function")}, 7, {SourceFile})

\* Generated methods.
Structs ==
    Theme({Sub(A, Relative(TStruct)), StructClass(A, << "f" >>), Struct(A, << "f", "g" >>), Class(A),
           Property("f", "f=", FALSE), Property("g", "g=", TRUE), Method("initialize"), Method("g")}, 6, {SourceFile})
Attributes ==
    Theme({Class(A), Singleton, Attribute(TRUE, TRUE, TRUE), Attribute(FALSE, TRUE, TRUE), Attribute(TRUE, FALSE, FALSE),
           Delegate("m", "public"), Reader("m", TRUE), Reader("f", FALSE), [op |-> "dsl", name |-> "abstract!"]},
          5, {SourceFile})

\* References between classes and modules.
References ==
    Theme({Module(M), Class(A), Sub(B, A), Sub(B, Relative(<< "M", "A" >>)), Sub(Relative(<< "M", "B" >>), A),
           Mixin("include", M), Mixin("prepend", Relative(<< "M", "M" >>)), MixinOn(A, "extend", M), [op |-> "extend_self"]}, 8, {SourceFile})
Concerns ==
    Theme({Module(M), Module(Relative(<< "ClassMethods" >>)), Class(Absolute(<< "A" >>)),
           Mixin("extend", Relative(ConcernModule)), Mixin("include", M),
           Mixin("mixes_in_class_methods", Relative(<< "ClassMethods" >>))}, 8, {SourceFile})

Members == Theme({Class(A), Singleton, MemberOf("K"), MemberOf("V"), Attached("out"), Attached("K")}, 6, {SourceFile})

AllThemes ==
    [scopes |-> Scopes, contracts |-> Contracts, comments |-> Comments, accessors |-> Accessors, visibilities |-> Visibilities,
     aliases |-> Aliases, structs |-> Structs, attributes |-> Attributes, references |-> References,
     concerns |-> Concerns, members |-> Members]

-----------------------------------------------------------------------------
NotYet(w, t) ==
    Key(Inner(w).owner, t.name, Inner(w).singleton) \notin DOMAIN w.methods

\* A reference from class to a target is looked up once more when all classes are known, and
\* then a class of that path would be found before the target.
Captures(path, class, target) ==
    /\ path # target
    /\ \E n \in DOMAIN class : /\ Len(path) > n /\ IsPrefix(SubSeq(class, 1, n), path)
                              /\ IsSuffix(SubSeq(path, n + 1, Len(path)), target)

ReferenceAllowed(w, class, target) ==
    \A path \in DOMAIN w.superclasses \union {class} : ~Captures(path, class, target)

HasMixin(w, class, kind, module) ==
    LET target == << class, FALSE, kind >>
    IN target \in DOMAIN w.mixins /\ module \in ToSet(w.mixins[target])

\* What a new class may be called and inherit from.
ClassAllowed(w, t) ==
    LET path == Opened(w, t.name)
        parent == IF t.superclass = << >> THEN Object ELSE Lookup(w, t.superclass[1])
    IN path \notin DOMAIN w.superclasses =>
          /\ ReferenceAllowed(w, path, parent)
          /\ \A c \in DOMAIN w.superclasses : ~Captures(path, c, w.superclasses[c])
          /\ \A target \in DOMAIN w.mixins :
                \A to \in ToSet(w.mixins[target]) : ~Captures(path, target[1], to)

\* Of a source def without a signature registration.rs:384 says other than the documentation when
\* an RBI file, before or after it, describes the method: such a method is not written.
OneContract(w, kind, key, unsigned) ==
    LET SignedInFiles(kinds) == \E c \in w.contracts : c.key = key /\ c.file \in kinds
    IN IF kind = SourceFile THEN unsigned => ~SignedInFiles({"rbi", "builtin"})
       ELSE ~unsigned /\ key \in DOMAIN w.methods /\ w.methods[key].body[1] = "def" => SignedInFiles({SourceFile})

AllowedHere(w, kind, t) ==
    LET here == Inner(w)
        unsigned == w.sigs = << >> /\ w.comments = << >>
    IN CASE t.op = "class" -> unsigned /\ Len(w.scopes) <= 3 /\ ClassAllowed(w, t)
         [] t.op = "eval" -> here.visibility = "public"
         [] t.op = "close" -> unsigned
         [] t.op = "def" ->
              /\ OneContract(w, kind, Key(here.owner, t.name, t.onSelf \/ here.singleton), unsigned)
              /\ kind = SourceFile =>
                    Key(here.owner, t.name, t.onSelf \/ here.singleton) \notin DOMAIN w.methods
              /\ here.owner \in DOMAIN w.structs /\ w.superclasses[here.owner] = TStruct
                    => t.name \notin ToSet(w.structs[here.owner])
              /\ t.onSelf => here.visibility = "public"
              /\ t.modifier = "private" => w.sigs # << >>
              /\ t.modifier = "private_class_method" => w.sigs = << >> /\ Len(w.scopes) > 1
              /\ t.modifier = "module_function" =>
                    /\ here.kind = "class" /\ here.visibility = "public" /\ Len(w.scopes) > 1
                    /\ Key(here.owner, t.name, TRUE) \notin DOMAIN w.methods
         [] t.op = "attr" ->
              /\ here.kind \in {"class", "singleton"} /\ here.visibility = "public" /\ kind = SourceFile
              /\ NotYet([w EXCEPT !.scopes[Len(w.scopes)].singleton = t.onSingletonClass \/ here.singleton], t)
              /\ Key(here.owner, t.name, t.onSingletonClass \/ here.singleton) \notin Range(w.declared)
              /\ t.onSingletonClass => unsigned /\ ~here.singleton
         [] t.op = "default" -> here.kind # "block"
         [] t.op = "visibility" ->
              LET key == Key(here.owner, t.name, t.classMethod \/ here.singleton)
              IN here.kind # "block" /\ key \in DOMAIN w.methods /\ w.methods[key].body[1] # "def"
         [] t.op = "delegate" -> here.kind # "block" /\ NotYet(w, t)
         [] t.op = "alias" ->
              LET old == Key(here.owner, t.old, here.singleton)
              IN /\ here.kind # "block" /\ NotYet(w, t)
                 /\ old \in DOMAIN w.methods => w.methods[old].visibility = "public"
         [] t.op = "module_function" ->
              here.kind = "class" /\ Key(here.owner, t.name, TRUE) \notin DOMAIN w.methods
         [] t.op = "mixin" ->
              LET class == IF t.on = << >> THEN here.owner ELSE Lookup(w, t.on[1])
                  module == Lookup(w, t.module)
              IN here.kind = "class" /\ ~HasMixin(w, class, t.kind, module) /\ ReferenceAllowed(w, class, module)
         [] t.op = "extend_self" -> here.kind = "class" /\ ~HasMixin(w, here.owner, "extend", here.owner)
         [] t.op \in {"prop", "class_attribute"} -> here.kind = "class" /\ NotYet(w, t)
         [] t.op = "attached" -> here.kind = "class"
         [] t.op = "member" ->
              here.kind = "class" /\ (here.cref \in DOMAIN w.members => t.name \notin ToSet(w.members[here.cref]))
         [] t.op = "rbs" -> unsigned
         [] OTHER -> TRUE

Allowed(w, kind, t) == Regular(w, t) /\ AllowedHere(w, kind, t)

=============================================================================
