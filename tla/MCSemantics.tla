----------------------------- MODULE MCSemantics -----------------------------
(***************************************************************************)
(* Two modules U and V over a small tree with a table tab, its row and a   *)
(* column col: V defines the same nodes in another way, or nodes of its    *)
(* own, and either of them is preferred.                                   *)
(***************************************************************************)
EXTENDS Trace, TLC

CONSTANTS U, V, T, E, C, F, N, G, S, INTEGER, root, tab, row, col, row2, col2, note, grp

MCNode == {root, tab, row, col, row2, col2, note, grp}
MCParent == [n \in MCNode |->
               CASE n = root -> NoNode [] n = col -> row [] n = col2 -> row2
                 [] n \in {row, row2} -> tab [] OTHER -> root]
MCNameOrder == (U :> 1) @@ (V :> 2)
MCOrder == <<U, V>>

Ts == [length |-> 0, digits |-> FALSE, year |-> 0, month |-> 0, day |-> 0, hour |-> 0, minute |-> 0]
Language(l) == [base |-> FALSE, language |-> l, updated |-> Ts]
FactsSet == {(U :> Language("SMIv1")) @@ (V :> Language("SMIv2")),
             (U :> Language("SMIv2")) @@ (V :> Language("SMIv2"))}

D(m, n, s) == [module |-> m, name |-> n, sort |-> s, status |-> "current", table |-> FALSE,
               index |-> <<>>, augments |-> NoName, syntax |-> NoName, path |-> <<>>,
               notAccessible |-> FALSE, objects |-> <<>>, members |-> <<>>,
               notifications |-> FALSE, clauses |-> <<>>, variations |-> <<>>]
Older(d, s) == [d EXCEPT !.status = s]
Typed(d, s, u) ==
  [d EXCEPT !.syntax = s,
            !.path = <<[module |-> NoModule, name |-> u], [module |-> V, name |-> E],
                       [module |-> NoModule, name |-> G], [module |-> NoModule, name |-> NoName]>>]
Object(m, n) == D(m, n, "Object")
Table(m, n) == [Object(m, n) EXCEPT !.table = TRUE, !.notAccessible = TRUE, !.syntax = S]
Row(m, n, i) == [Object(m, n) EXCEPT !.index = i, !.notAccessible = TRUE, !.syntax = S]
Augmenting(m, n, a) == [Object(m, n) EXCEPT !.augments = a]
Notification(m, n, o) == [D(m, n, "Notification") EXCEPT !.objects = o]
Group(m, n, b, k) == [D(m, n, "Group") EXCEPT !.notifications = b, !.members = k]
Compliance(m, n, o, k) ==
  [D(m, n, "Compliance") EXCEPT !.clauses = <<[module |-> NoModule, objects |-> o, groups |-> k],
                                              [module |-> U, objects |-> <<>>, groups |-> <<C>>]>>]
Capability(m, n, v) == [D(m, n, "Capability") EXCEPT !.variations = v]
Varied(m, n, b, a) == [module |-> m, name |-> n, shaped |-> b, access |-> a, requires |-> <<C, E>>]

UDefs ==
  {<<Table(U, T), Row(U, E, i), Object(U, C)>> : i \in {<<C>>, <<INTEGER, C>>, <<F, C>>}}
  \cup {<<Row(U, E, <<C>>), Augmenting(U, E, a), Older(Object(U, C), "obsolete")>> : a \in {F, E, G}}
  \cup {<<Augmenting(U, E, F), Notification(U, N, <<C, E, N>>), Group(U, G, FALSE, <<C, N>>)>>,
        <<Augmenting(U, E, F), Object(U, F), Group(U, G, FALSE, <<C, F>>)>>}

VDefs ==
  {<<d, Object(V, C), Augmenting(V, F, a)>> :
     a \in {E, F, N}, d \in {Object(V, E), Table(V, E), Row(V, E, <<C, N>>)}}
  \cup {<<Augmenting(V, F, E), Notification(V, N, <<C, E, G>>),
          Older(Group(V, G, b, <<C, N, E, F>>), s)>> : b \in BOOLEAN, s \in {"current", "mandatory"}}
  \cup {<<Object(V, N), Compliance(V, G, <<E>>, <<C>>), Capability(V, T,
          <<Varied(U, N, FALSE, "other"), Varied(V, E, TRUE, "none"),
            Varied(U, F, FALSE, "not-implemented")>>)>>,
        <<Row(V, F, <<E>>), Compliance(V, E, <<>>, <<C>>), Group(V, N, TRUE, <<E, N>>)>>}

\* The node of a name; V may have a row and a column of its own, or no place for its F.
Place(n, own) == CASE n = T -> tab [] n = E -> IF own THEN row2 ELSE row
                   [] n = C -> IF own THEN col2 ELSE col
                   [] n = N -> note [] n = G -> grp [] n = F -> row2 [] OTHER -> NoNode

NodeKind == [Object |-> "Scalar", Notification |-> "Notification", Group |-> "Group",
             Compliance |-> "Compliance", Capability |-> "Capability"]

MCWorld(defs, fields, own, placed, i, facts, permissive) ==
  LET definers(n) == {m \in Module : \E k \in DOMAIN defs : defs[k].module = m /\ defs[k].name = n}
      sym == [m \in Module |-> [n \in Name |->
                IF m \in definers(n) /\ (n = F /\ m = V => placed) THEN Place(n, own /\ m = V) ELSE NoNode]]
      there(x) == {k \in DOMAIN defs : sym[defs[k].module][defs[k].name] = x}
  IN [facts |-> facts, defs |-> defs, symbols |-> sym, permissive |-> permissive,
      sequences |-> [m \in Module |-> [n \in Name |-> IF n = S THEN fields ELSE <<>>]],
      imports |-> [m \in Module |-> [n \in Name |->
                     IF n \in {E, C, F} /\ i THEN (IF m = U THEN V ELSE U) ELSE NoModule]],
      named |-> [n \in Name |-> LET at(m) == IF sym[m][n] = NoNode THEN <<>> ELSE <<sym[m][n]>>
                                IN at(V) \o at(U)],
      kind |-> [x \in Node |-> IF there(x) = {} THEN "Node"
                               ELSE NodeKind[defs[CHOOSE k \in there(x) : TRUE].sort]]]

Linked ==
  {MCWorld(u \o v, <<C>>, own, placed, i, f, p) : u \in UDefs, v \in VDefs, own \in BOOLEAN,
     placed \in BOOLEAN, i \in BOOLEAN, f \in FactsSet, p \in BOOLEAN}

\* What one module may declare of a table: a second table or row, an object that two rows
\* could claim, names defined twice, parents that are named, or left to the OID.
Seconds == {Typed(Row(U, E, i), s, u) : i \in {<<>>, <<C>>}, s \in {S, NoName}, u \in {T, F, NoName}}
Thirds == {Typed(d, S, u) : d \in {Table(U, F), Row(U, F, <<C>>), Row(U, E, <<>>)},
                            u \in {T, E, NoName}}
Structured ==
  {MCWorld(<<Table(U, T), e, f, Typed(Object(U, C), INTEGER, u)>>, fields, FALSE, placed,
           FALSE, facts, FALSE) :
     e \in Seconds, f \in Thirds, u \in {E, F, NoName},
     fields \in {<<C>>, <<C, N>>, <<C, E, C>>}, placed \in BOOLEAN,
     facts \in {CHOOSE f \in FactsSet : TRUE}}

MCWorlds == Linked \cup Structured

==============================================================================
