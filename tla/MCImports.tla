------------------------------- MODULE MCImports -------------------------------
(***************************************************************************)
(* Worlds for the model checking of Imports: an importer of the module B,  *)
(* of which two versions are loaded, and C, which B's versions import from *)
(* and which may import from them.  Nothing is loaded under the names Old, *)
(* of which C is an alias, and Gone.                                       *)
(***************************************************************************)
EXTENDS Imports, TLC

CONSTANTS A, B, C, Old, Gone, x, y, macro

MCAliasOf == [n \in {A, B, C, Old, Gone} |-> IF n = Old THEN C ELSE NoName]

I(s, n) == [symbol |-> s, module |-> n]

M(name, clauses, defs, updated) ==
  [name |-> name, imports |-> clauses, defs |-> defs, updated |-> updated]

Ts(length, y4, day) == [length |-> length, digits |-> TRUE, year |-> y4, month |-> 2,
                        day |-> day, hour |-> 0, minute |-> 0]

Importers == {<<I(x, B), I(macro, B), I(y, B)>>,
              <<I(macro, C), I(x, B), I(x, C), I(y, C)>>,
              <<I(x, Old), I(y, Old)>>,
              <<I(x, Gone), I(macro, Old), I(y, B)>>}

Forwarders == {<<>>, <<I(x, C), I(y, C)>>, <<I(x, B), I(y, Gone)>>, <<I(x, Old), I(x, C)>>}

\* Two versions of B, each newer than the other in turn: the second by the century
\* of its timestamp, the first because that of the second is no date.
TwoVersions ==
  {[constrained |-> TRUE,
    modules |-> <<M(A, importer, {}, Ts(11, 99, 1)), M(B, f1, d1, u[1]),
                  M(B, f2, d2, u[2]), M(C, c[1], c[2], Ts(13, 1999, 1))>>] :
     importer \in Importers,
     f1 \in Forwarders, d1 \in {{}, {x}},
     f2 \in Forwarders, d2 \in {{}, {x, y}},
     u \in {<<Ts(11, 99, 1), Ts(11, 5, 1)>>, <<Ts(13, 1999, 1), Ts(11, 99, 30)>>},
     c \in {<< <<>>, {x, y}>>, << <<I(x, B)>>, {}>>}}

\* One version, with and without the fallbacks, and C may import from the importer.
OneVersion ==
  {[constrained |-> k,
    modules |-> <<M(A, importer, d, Ts(11, 99, 1)), M(B, f, {}, Ts(11, 99, 1)),
                  M(C, <<I(x, A)>>, {y}, Ts(11, 99, 1))>>] :
     k \in BOOLEAN, importer \in Importers, d \in {{}, {x}}, f \in Forwarders}

MCWorlds == TwoVersions \cup OneVersion

\* B imports x from Old, as vendors do.
AliasWorlds ==
  {[constrained |-> TRUE,
    modules |-> <<M(A, <<I(s, B)>>, {}, Ts(11, 99, 1)), M(B, <<I(s, Old)>>, d, Ts(11, 99, 1)),
                  M(C, <<>>, e, Ts(11, 99, 1))>>] :
     s \in {x, y}, d \in SUBSET {x, y}, e \in SUBSET {x, y}}

==============================================================================
