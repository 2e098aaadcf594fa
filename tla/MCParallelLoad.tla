---------------------------- MODULE MCParallelLoad ----------------------------
(***************************************************************************)
(* Worlds for the model checking of ParallelLoad: two sources (the second  *)
(* stands for the embedded fallback) with two documents each.              *)
(***************************************************************************)
EXTENDS ParallelLoad, TLC

CONSTANTS A, B1, d1, d2, t1, t2

World(lists1, find1, holds1, large1, lists2, find2, holds2) ==
  <<[listFails |-> FALSE, lists |-> lists1, find |-> find1, holds |-> holds1,
     imports |-> [d \in Doc |-> [n \in Module |-> {}]], tooLarge |-> large1],
    [listFails |-> FALSE, lists |-> lists2, find |-> find2, holds |-> holds2,
     imports |-> [d \in Doc |-> [n \in Module |-> {}]], tooLarge |-> {}]>>

\* find_candidates and decoded contents, by name and by document.
Find(a, b) == (A :> a) @@ (B1 :> b)
Holds(x, y) == (d1 :> x) @@ (d2 :> y)

\* Two names whose searches share documents, with phantom advertisements, read
\* errors before and after a hit, documents too large to intern, and a name that
\* no document holds.
SmallWorlds ==
  {World(<<A, B1, A>>, Find(a, b), Holds(h, {A}), large,
         <<B1, A>>, Find(<<d1>>, <<d1, d2>>), Holds(g, {B1})) :
     a \in {<<d1>>, <<d1, d2>>, <<d2, IoError>>, <<IoError, d2>>, <<>>},
     b \in {<<d1>>, <<d1, IoError>>},
     h \in {{A, B1}, {A}, {B1}, {}},
     large \in {{}, {d1}}, g \in {{A}, {}}}

FailingWorlds ==
  {[w EXCEPT ![s].listFails = TRUE] : s \in 1 .. 2,
     w \in {World(<<A>>, Find(<<d1>>, <<>>), Holds({A}, {}), {},
                  <<B1>>, Find(<<>>, <<d1>>), Holds({B1}, {}))}}

MCWorlds == SmallWorlds \cup FailingWorlds

==============================================================================
