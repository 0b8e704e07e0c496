--------------------------- MODULE MCMethodTables ---------------------------
(* Small sources for MethodTables: classes A and B < A, modules M and N. *)
EXTENDS MethodTables, Integers

MCOwner == {"Object", "Class", "A", "B", "M", "N", "M::ClassMethods", "ActiveSupport::Concern", "Anonymous"}
MCName == {"x", "y", "v", "w", "z", "k", "m", "n", "included", "extended", "<bound-block>"}
MCClassMethodsOf == [o \in {"M"} |-> "M::ClassMethods"]

Call(owner, name, singleton) == [op |-> "call", key |-> Key(owner, name, singleton), bound |-> FALSE]
Super == [op |-> "super"]
Include(owner, module) == [op |-> "mixin", owner |-> owner, module |-> module, extend |-> FALSE, needs |-> None]
Extend(owner, module) == [op |-> "mixin", owner |-> owner, module |-> module, extend |-> TRUE, needs |-> None]
Rename(owner, new, old) == [op |-> "alias", owner |-> owner, new |-> new, old |-> old, needs |-> None]
ClassNew(superclass) == [op |-> "class", owner |-> "Anonymous", superclass |-> superclass, needs |-> None]
Define(owner, name) == [op |-> "define", key |-> Key(owner, name, FALSE), needs |-> None]

Open1(known, yields) == << [op |-> "open", knownFailure |-> known, yields |-> yields] >>
Shut == << [op |-> "close"] >>
\* A body of its own that completes, or gives up after its operations.
Nested(ops) == Open1(TRUE, FALSE) \o ops \o Shut
Failing(known, yields, ops) == Open1(known, yields) \o ops \o << [op |-> "fail"] >> \o Shut
\* How many bodies are open after the first i operations.
Depth(body) ==
    LET depth[i \in 0 .. Len(body)] ==
            IF i = 0 THEN 0 ELSE depth[i - 1] + (IF body[i].op = "open" THEN 1 ELSE IF body[i].op = "close" THEN -1 ELSE 0)
    IN depth
\* A failing operation leads behind the operation that closes its body.
Located(body) ==
    LET depth == Depth(body)
        end(i) == CHOOSE j \in i .. Len(body) : depth[j] < depth[i] /\ \A k \in i .. j - 1 : depth[k] >= depth[i]
    IN [i \in DOMAIN body |-> IF body[i].op = "fail" THEN [op |-> "fail", to |-> end(i) + 1] ELSE body[i]]

Class(superclass) == [NoClass EXCEPT !.superclass = superclass]
Module == [NoClass EXCEPT !.isModule = TRUE]
Graph(a, b, m) ==
    [o \in MCOwner \ {"Anonymous"} |->
        CASE o = "Object" -> NoClass [] o = "Class" -> NoClass
          [] o = "A" -> a [] o = "B" -> b [] o = "M" -> m [] OTHER -> Module]

\* The method called by what a late change needs: it is there only when the unit "late" has renamed.
Wanted == Key("A", "w", FALSE)
Needing(op) == IF op.op \in {"mixin", "alias", "class", "define"} THEN [op EXCEPT !.needs = Wanted] ELSE op
Asked == Call("A", "w", FALSE)
Early == << Rename("A", "w", "v") >>

\* Methods asks, changes and enables, in source order, and the top-level code between them.
Source(graph, extra, askOwner, asks, top, changes, enables) ==
    LET body == [asks |-> Located(asks), top |-> Located(top), changes |-> Located(changes), enables |-> Located(enables)]
        key == [asks |-> Key(askOwner, "k", FALSE), top |-> Key(None, "x", FALSE),
                changes |-> Key("A", "m", FALSE), enables |-> Key("A", "n", FALSE)]
    IN [classes |-> graph, aliases |-> [k \in {} |-> None],
        methods |-> extra \union {key.asks, key.changes, key.enables, Key("A", "v", FALSE)},
        order |-> << "asks", "top", "changes", "enables" >>, body |-> body, key |-> key,
        depth |-> [u \in DOMAIN body |-> Depth(body[u])],
        dead |-> [u \in DOMAIN body |-> Dead(body[u], Depth(body[u]))]]

Plain == Graph(NoClass, Class("A"), Module)
Included == Graph([NoClass EXCEPT !.includes = << "N" >>], Class("A"), Module)
Prepended == Graph([NoClass EXCEPT !.prepends = << "N" >>], Class("A"), [Module EXCEPT !.includes = << "N" >>])
Concern == Graph([NoClass EXCEPT !.extends = << "N" >>], [Class("A") EXCEPT !.includes = << "M" >>],
                 [Module EXCEPT !.extends = << "ActiveSupport::Concern" >>])
Graphs == {Plain, Included, Prepended, Concern}
X(o) == Key(o, "x", FALSE)
Extras == { {X("A")}, {X("M")}, {X("N")}, {X("M"), X("N"), Key("M", "included", TRUE)}, {X("B"), X("Object"), X("M::ClassMethods")} }
Calls == { << Call("A", "x", FALSE) >>, << Call("B", "x", FALSE), Call("B", "y", FALSE) >>, << Call("B", "x", TRUE) >> }
Late(ops) == << Asked >> \o [i \in DOMAIN ops |-> Needing(ops[i])]
One == { << Include("A", "M") >>, << Extend("A", "M") >>, << Rename("A", "y", "x") >>, << Include("M", "N") >> }
Changes == One \union { << Include("A", "N"), Include("A", "M") >>, << Rename("B", "x", "y"), Rename("A", "y", "x") >> }
MadeClass == << ClassNew("B"), Call("Anonymous", "x", FALSE) >>

\* Changes seen by a caller; by the self of a module's methods; by top-level code; and in bodies that fail.
Seen == { Source(g, e, o, k, << >>, Late(m), Early) :
            g \in Graphs, e \in Extras, o \in {"A"}, k \in Calls, m \in Changes }
Hosted == { Source(g, {X("N")}, "N", << >>, << >>, Late(m), Early) : g \in Graphs,
            m \in Changes \union { << Include("B", "M") >>, << Define("B", "z"), Call("B", "z", FALSE) >>, << Extend("A", "N") >>, << Extend("M", "N") >> } }
AtTop == { Source(Plain, e, "M", << Call("M", "x", FALSE) >>, Late(m), MadeClass, Early) : e \in Extras, m \in One }
Undone == { Source(Plain, e, "A", k, << >>, Late(m), Early) : e \in {{X("A"), X("N")}, {X("M")}}, k \in Calls,
            m \in { Failing(TRUE, FALSE, d \o << Call("B", "x", FALSE) >>) : d \in One }
                \union { Failing(FALSE, y, d) : d \in One, y \in BOOLEAN }
                \union { Failing(TRUE, FALSE, MadeClass), Failing(TRUE, FALSE, << Define("B", "z"), Call("B", "z", FALSE) >>) }
                \union { Nested(<< Include("A", "N") >> \o Failing(TRUE, FALSE, d)) : d \in One }
                \union { Failing(TRUE, FALSE, << Include("A", "N") >> \o Nested(d)) \o << Include("A", "M") >> : d \in One } }
\* A super of B#k that finds A#k whatever the changes.
Below == { Source(Plain, {Key("A", "k", FALSE), X("M")}, "B", << Super >>, << >>, Late(m), Early) : m \in Changes }
MCPrograms == Seen \union Below \union Hosted \union AtTop \union Undone
=============================================================================
