------------------------------ MODULE MCNamedLoad ------------------------------
(***************************************************************************)
(* Worlds for the model checking of NamedLoad: import graphs over the      *)
(* modules P, Q and R, self imports and cycles included.  R is the         *)
(* foundation module, in the second source, which stands for the embedded  *)
(* one.                                                                    *)
(***************************************************************************)
EXTENDS NamedLoad, TLC

CONSTANTS P, Q, R, d1, d2

\* P is in d1 of the first source, R in d1 of the second.  Where Q is varies:
\* in the document of P, behind a phantom, in the later source only, nowhere, or
\* behind a read error or a document too large to intern.
QPlaces ==
  {[find |-> <<d1>>, holds1 |-> {P, Q}, holds2 |-> {R, Q}, large |-> {}],
   [find |-> <<d2>>, holds1 |-> {P}, holds2 |-> {R, Q}, large |-> {}],
   [find |-> <<d2, d1>>, holds1 |-> {P}, holds2 |-> {R}, large |-> {}],
   [find |-> <<d1, IoError>>, holds1 |-> {P}, holds2 |-> {R}, large |-> {}],
   [find |-> <<d2>>, holds1 |-> {P}, holds2 |-> {R}, large |-> {d2}]}

ImportGraphs == {(P :> p) @@ (Q :> q) @@ (R :> r) :
             p \in SUBSET {P, Q, R}, q \in {{}, {P}, {Q, R}, {P, R}},
             r \in {{}, {Q}}}

MCWorlds ==
  {<<[listFails |-> FALSE, lists |-> <<>>,
      find |-> (P :> <<d1>>) @@ (Q :> q.find) @@ (R :> <<>>),
      holds |-> (d1 :> q.holds1) @@ (d2 :> {}),
      imports |-> [d \in {d1, d2} |-> g], tooLarge |-> q.large],
     [listFails |-> FALSE, lists |-> <<>>,
      find |-> (P :> <<>>) @@ (Q :> <<d1>>) @@ (R :> <<d1>>),
      holds |-> (d1 :> q.holds2) @@ (d2 :> {}),
      imports |-> [d \in {d1, d2} |-> g], tooLarge |-> {}]>> :
     q \in QPlaces, g \in ImportGraphs}

MCRequests == {<<P>>, <<Q, P, Q>>, <<>>}
MCBaseModules == <<R>>

==============================================================================
