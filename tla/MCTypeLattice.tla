--------------------------- MODULE MCTypeLattice ---------------------------
(***************************************************************************)
(* The slot is shown up to three types: the laws of a semilattice involve  *)
(* three operands.  Regular holds the types whose joins obey them; what it *)
(* leaves out is T.anything (checked in GradualLoop) and tuples of         *)
(* different shapes next to arrays (see the README).                       *)
(***************************************************************************)
EXTENDS NominalTypes

Atoms == {TAny, TNever, TNil, TTrue, TFalse, TInteger, TString, TObject, TNumeric,
          << "TypeVar", "T" >>}
Containers ==
    { TArray(t) : t \in {TAny, TInteger, TString, TNil} }
        \union { TTuple(<< TInteger >>) }
        \union { TNamed("Box", << >>), TNamed("Box", << TInteger >>), TNamed("Box", << TString >>) }
        \union { TProc(<< TInteger >>, TString), TProc(<< TString >>, TNil) }
        \union { THash(TSymbol, TAny), THash(TSymbol, TInteger) }
        \union { TUnion({TNil, TString}) }

\* Base has subclasses Foo and Bar, of which Bar and a subclass of Foo include Mod.
MCClassGraph ==
    [ Base |-> [parents |-> {"Object"}, isModule |-> FALSE],
      Foo  |-> [parents |-> {"Base"}, isModule |-> FALSE],
      Bar  |-> [parents |-> {"Base", "Mod"}, isModule |-> FALSE],
      Sub  |-> [parents |-> {"Foo", "Mod"}, isModule |-> FALSE],
      Mod  |-> [parents |-> {}, isModule |-> TRUE] ]
Class(name) == TNamed(name, << >>)
Classes == {Class(name) : name \in {"Base", "Foo", "Bar", "Mod"}}
Tested == Classes \union {TNil, TInteger, TObject}

Regular == Atoms \union Containers \union Classes
=============================================================================
