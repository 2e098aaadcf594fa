----------------------------- MODULE MCOidResolve -----------------------------
(***************************************************************************)
(* Worlds for the model checking of OidResolve: SNMPv2-SMI (S), which      *)
(* defines "ent" under the well-known root "iso", and two user modules U   *)
(* and V whose definitions refer to each other, to S and to nothing.       *)
(***************************************************************************)
EXTENDS OidResolve, TLC

CONSTANTS S, V1Base, U, V, iso, ent, a, b, c, t

MCNameOrder == (V1Base :> 1) @@ (S :> 2) @@ (U :> 3) @@ (V :> 4)
MCRootArc == iso :> 1

Num(v) == [form |-> "Number", module |-> NoModule, name |-> NoName, value |-> v]
Nm(n) == [form |-> "Name", module |-> NoModule, name |-> n, value |-> 0]
NN(n, v) == [form |-> "NamedNumber", module |-> NoModule, name |-> n, value |-> v]
QN(m, n) == [form |-> "QualifiedName", module |-> m, name |-> n, value |-> 0]
QNN(m, n, v) ==
  [form |-> "QualifiedNamedNumber", module |-> m, name |-> n, value |-> v]

D(m, n, k, oid) ==
  [mod |-> m, name |-> n, kind |-> k, oid |-> oid, described |-> TRUE]

Ts(y) == [length |-> 11, digits |-> TRUE, year |-> y, month |-> 2, day |-> 28,
          hour |-> 0, minute |-> 0]
NoTs == [length |-> 0, digits |-> FALSE, year |-> 0, month |-> 0, day |-> 0,
         hour |-> 0, minute |-> 0]
F(base, language, ts) == [base |-> base, language |-> language, updated |-> ts]
Facts(u, v) == (V1Base :> F(TRUE, "SMIv1", NoTs)) @@ (S :> F(TRUE, "SMIv2", NoTs))
                 @@ (U :> u) @@ (V :> v)

\* V is preferred by language, V by the century of its timestamp, U by its name.
FactsSet == {Facts(F(FALSE, "SMIv1", Ts(99)), F(FALSE, "SMIv2", Ts(70))),
             Facts(F(FALSE, "SMIv2", Ts(70)), F(FALSE, "SMIv2", Ts(5))),
             Facts(F(FALSE, "SPPI", Ts(70)), F(FALSE, "SMIv1", Ts(70)))}

NoImports == [m \in Module |-> [n \in Name |-> NoModule]]
Imports(s) == [NoImports EXCEPT ![U] = [@ EXCEPT ![ent] = s, ![c] = V]]

SmiDefs == {<<D(S, ent, "ValueAssignment", <<Nm(iso), Num(1)>>)>>,
            <<D(S, ent, "ObjectIdentity", <<NN(iso, 1), NN(t, 0), Num(1)>>)>>}

\* The definitions of U, in both orders; b(2) in one of them agrees with b.
UDefs ==
  LET A(oid) == D(U, a, "ObjectType", oid)
      B(oid) == D(U, b, "ModuleIdentity", oid)
      Pairs == {<<A(x), B(y)>> :
                  x \in {<<Nm(ent), Num(1)>>, <<Nm(b), Num(1)>>, <<QN(S, ent), Num(0)>>},
                  y \in {<<Nm(ent), Num(2)>>, <<Nm(a), Num(1)>>, <<NN(c, 3), Num(1)>>,
                         <<>>}}
                \cup {<<A(<<Nm(ent), NN(b, 2), Num(1)>>), B(<<Nm(ent), Num(2)>>)>>,
                      <<A(<<Nm(ent), NN(b, 2)>>), A(<<Nm(b)>>)>>}
  IN Pairs \cup {<<p[2], p[1]>> : p \in Pairs}

VDefs ==
  LET A(oid) == D(V, a, "ObjectIdentity", oid)
      X(oid) == D(V, c, "Notification", oid)
  IN {<<A(<<QNN(S, ent, 3), Num(1)>>), X(<<Nm(a), Num(1)>>)>>,
      <<X(<<QN(U, b), Num(1)>>), A(<<NN(iso, 1), Num(1), Num(2)>>)>>}

\* The trap's number is the largest one where V's "a" cannot be found through S.
MCWorlds ==
  {[facts |-> f, defs |-> s \o u \o v, imports |-> Imports(i), constrained |-> k,
    traps |-> <<[mod |-> V, name |-> t, enterprise |-> a,
                 number |-> IF i = S THEN 1 ELSE MaxArc]>>] :
     f \in FactsSet, s \in SmiDefs, u \in UDefs, v \in VDefs,
     i \in {S, NoModule}, k \in BOOLEAN}

\* U names b on the way to a, then defines it as its MODULE-IDENTITY, or V does.
SyncWorlds ==
  {[facts |-> f, defs |-> s \o <<D(U, a, "ObjectType", <<Nm(ent), NN(b, n), Num(1)>>),
                               D(m, b, "ModuleIdentity", <<Nm(ent), Num(k)>>)>>,
    imports |-> [m2 \in Module |-> [NoImports[m2] EXCEPT ![ent] = S]],
    constrained |-> TRUE, traps |-> <<>>] :
     f \in FactsSet, s \in SmiDefs, m \in {U, V}, n \in {2, 3}, k \in {2, 3}}

\* V defines "b" and refers, by a qualified name with a number, to the "b" of U.
ScopeWorlds ==
  {[facts |-> f,
    defs |-> s \o <<D(U, b, "ObjectType", <<Nm(ent), Num(1)>>),
                  D(V, n, "ObjectIdentity", <<Nm(ent), Num(2)>>),
                  D(V, c, "ObjectType", <<QNN(U, b, 1), Num(1)>>),
                  D(V, t, "ObjectType", <<Nm(n), Num(1)>>)>>,
    imports |-> [m \in Module |-> [NoImports[m] EXCEPT ![ent] = S]],
    constrained |-> TRUE, traps |-> <<>>] :
     f \in FactsSet, s \in SmiDefs, n \in {b, a}}

MCSnmpTraps == <<1, 1, 1>>

==============================================================================
