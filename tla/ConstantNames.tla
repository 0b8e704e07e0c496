--------------------------- MODULE ConstantNames ---------------------------
(***************************************************************************)
(* How the registrar names the classes it meets, and how the class graph   *)
(* resolves the references it recorded (infer/declarations.rs,             *)
(* infer/type_system.rs). stack holds the full names of the classes that   *)
(* are open, known the names registered so far.                            *)
(***************************************************************************)
EXTENDS Sequences, SequencesExt

Relative(path) == [absolute |-> FALSE, path |-> path]
Absolute(path) == [absolute |-> TRUE, path |-> path]

\* The full name a class statement opens.
ScopeName(stack, reference, known) ==
    IF stack = << >> \/ reference.absolute THEN reference.path
    ELSE LET scope == Last(stack)
             path == reference.path
         IN IF Len(path) > 1 /\ ( \/ IsPrefix(scope, path)
                                  \/ scope \o << Head(path) >> \notin known /\ path \in known)
            THEN path ELSE scope \o path

\* Wrong: only the innermost class is asked.
ScopeReferenceInnermost(stack, reference, known) ==
    IF reference.absolute \/ Len(reference.path) > 1 \/ stack = << >> THEN reference
    ELSE IF Last(stack) \o reference.path \in known THEN Relative(Last(stack) \o reference.path)
    ELSE reference

\* A reference as it is recorded: a single name takes the innermost open class that has it.
ScopeReference(stack, reference, known) ==
    LET having == {i \in DOMAIN stack : stack[i] \o reference.path \in known}
    IN IF reference.absolute \/ Len(reference.path) > 1 \/ having = {} THEN reference
       ELSE Relative(stack[CHOOSE i \in having : \A j \in having : j <= i] \o reference.path)

\* A reference where its text is taken for a name: "::A" keeps the marker of the root, which
\* no name of a class has.
NameText(reference) == IF reference.absolute THEN << "" >> \o reference.path ELSE reference.path

\* A constant that is assigned: X = Struct.new.
ConstantAssignmentName(stack, reference) ==
    IF reference.absolute \/ Len(reference.path) > 1 \/ stack = << >> THEN reference.path
    ELSE Last(stack) \o reference.path

\* After registration: the enclosing classes of owner, owner first, then the top.
ResolveName(reference, owner, known) ==
    LET having == {n \in 1 .. Len(owner) : SubSeq(owner, 1, n) \o reference.path \in known}
    IN IF reference.absolute \/ having = {} THEN reference.path
       ELSE SubSeq(owner, 1, CHOOSE n \in having : \A m \in having : m <= n) \o reference.path

\* A superclass loses its root marker first; a qualified name that is known is kept.
ResolveSuperclass(reference, owner, known) ==
    IF Len(reference.path) > 1 /\ reference.path \in known THEN reference.path
    ELSE ResolveName(Relative(reference.path), owner, known)
=============================================================================
