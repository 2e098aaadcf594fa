--------------------------- MODULE OidResolveProofs ---------------------------
(***************************************************************************)
(* What OID resolution keeps for all modules, names, arcs and worlds: its  *)
(* types, which include that the OID tree is closed under parents, and the *)
(* ownership of contested nodes.  Ownership only ever passes to a module   *)
(* that overrules the owner, and Overrules is a strict order, so that the  *)
(* owner a definition lost to, and all later ones, are preferred to it.    *)
(***************************************************************************)
EXTENDS OidResolve, SequenceTheorems, WellFoundedInduction, TLAPS

(* The order of preference. *)

Stamp == [date : Nat, time : Nat]

\* A normalized timestamp is a date and a time, whatever the text.
LEMMA StampType ==
  ASSUME NEW ts \in Timestamps
  PROVE  normalize_timestamp(ts) \in Stamp
<1>1. FullYear(ts) \in Nat
  BY DEF Timestamps, FullYear
<1> QED
  BY <1>1, SMT DEF Timestamps, normalize_timestamp, Stamp

\* A language has a rank among the numbers.
LEMMA RankType ==
  ASSUME NEW language \in Languages
  PROVE  language_rank(language) \in Nat
BY DEF Languages, language_rank

\* Of two timestamps at most one is the later, and later is transitive.
LEMMA LaterIsStrict ==
  ASSUME NEW x \in Stamp, NEW y \in Stamp, NEW z \in Stamp
  PROVE  /\ ~ Later(x, x)
         /\ Later(x, y) /\ Later(y, z) => Later(x, z)
BY DEF Stamp, Later

\* The decision of should_prefer_module is a strict order on the modules.
LEMMA OverrulesIsStrict ==
  ASSUME NEW facts \in [Module -> ModuleFacts],
         NEW k \in Module, NEW m \in Module, NEW n \in Module
  PROVE  /\ ~ Overrules(facts, m, m)
         /\ Overrules(facts, k, m) /\ Overrules(facts, m, n) => Overrules(facts, k, n)
<1> DEFINE rank(x) == language_rank(facts[x].language)
           stamp(x) == normalize_timestamp(facts[x].updated)
<1>1. \A x \in Module : /\ facts[x].base \in BOOLEAN
                        /\ rank(x) \in Nat
                        /\ stamp(x) \in Stamp
                        /\ NameOrder[x] \in Nat
  BY RankType, StampType, ModuleAssumption DEF ModuleFacts
<1>2. \A x, y \in Module :
        Overrules(facts, x, y) <=>
          \/ facts[x].base /\ ~ facts[y].base
          \/ /\ facts[x].base = facts[y].base
             /\ \/ rank(x) > rank(y)
                \/ /\ rank(x) = rank(y)
                   /\ \/ Later(stamp(x), stamp(y))
                      \/ /\ stamp(x) = stamp(y)
                         /\ NameOrder[x] < NameOrder[y]
  BY DEF Overrules
<1> HIDE DEF rank, stamp
<1>3. ~ Overrules(facts, m, m)
  BY <1>1, <1>2, LaterIsStrict
<1>4. ASSUME Overrules(facts, k, m), Overrules(facts, m, n)
      PROVE  Overrules(facts, k, n)
  <2>1. /\ Later(stamp(k), stamp(m)) /\ Later(stamp(m), stamp(n))
             => Later(stamp(k), stamp(n))
    BY <1>1, LaterIsStrict
  <2> QED
    BY <1>1, <1>2, <1>4, <2>1
<1> QED
  BY <1>3, <1>4

------------------------------------------------------------------------------
(* Types of the world and of the lookups. *)

\* What the assumption on Worlds says of the world of a state.
LEMMA WorldType ==
  ASSUME world \in Worlds
  PROVE  /\ world.facts \in [Module -> ModuleFacts]
         /\ \A i \in DefIdx : Def(i) \in Definition
         /\ \A t \in 1 .. Len(world.traps) : world.traps[t] \in Trap
         /\ world.imports \in [Module -> [Name -> Module \cup {NoModule}]]
<1>1. world \in World
  BY OidAssumption
<1> QED
  BY <1>1 DEF World, DefIdx, Def

\* A set of naturals that is not empty has a smallest member.
LEMMA SmallestMember ==
  ASSUME NEW S \in SUBSET Nat, S # {}
  PROVE  \E x \in S : \A y \in S : x <= y
<1>1. \A x, y \in Nat : y < x => <<y, x>> \in OpToRel(<, Nat)
  BY DEF OpToRel
<1>2. PICK x \in S : \A y \in S : ~ (<<y, x>> \in OpToRel(<, Nat))
  BY WFMin, NatLessThanWellFounded
<1>3. \A y \in S : ~ (y < x)
  BY <1>1, <1>2
<1> QED
  BY <1>3

\* The first of some modules that has a name has it at a node.
LEMMA FirstInType ==
  ASSUME TypeOK, NEW ms \in Seq(Module \cup {NoModule}), NEW n \in Name
  PROVE  FirstIn(ms, n) \in DOMAIN node \cup {NoPath}
<1> DEFINE Has == {i \in 1 .. Len(ms) : sym[ms[i]][n] # NoPath}
<1>1. CASE Has = {}
  BY <1>1 DEF FirstIn
<1>2. CASE Has # {}
  <2>1. PICK i \in Has : \A j \in Has : i <= j
    <3>1. Has \in SUBSET Nat
      OBVIOUS
    <3> HIDE DEF Has
    <3> QED
      BY <1>2, <3>1, SmallestMember
  <2>2. /\ i \in 1 .. Len(ms) /\ sym[ms[i]][n] # NoPath
        /\ \A j \in 1 .. i - 1 : sym[ms[j]][n] = NoPath
    BY <2>1
  <2>3. PICK k \in 1 .. Len(ms) : FirstIn(ms, n) = sym[ms[k]][n]
    BY <2>2 DEF FirstIn
  <2> QED
    BY <2>3, ElementOfSeq DEF TypeOK, TablesOK
<1> QED
  BY <1>1, <1>2

\* So have the scope of a module and the foundation modules.
LEMMA LookupType ==
  ASSUME TypeOK, NEW m \in Module, NEW n \in Name
  PROVE  /\ lookup_name(m, n) \in DOMAIN node \cup {NoPath}
         /\ FirstIn(Scope(m, n), n) \in DOMAIN node \cup {NoPath}
         /\ UsedImport(m, n) \subseteq Module \X Name
<1>1. Scope(m, n) \in Seq(Module \cup {NoModule})
  BY WorldType DEF Scope, TypeOK
<1>2. Fallback \in Seq(Module \cup {NoModule})
  <2>1. Smi \in Module \cup {NoModule} /\ Rfc \in Module \cup {NoModule}
    BY OidAssumption
  <2>2. <<Smi, Rfc>> \in Seq(Module \cup {NoModule})
    BY <2>1
  <2>3. <<>> \in Seq(Module \cup {NoModule})
    OBVIOUS
  <2> QED
    BY <2>2, <2>3 DEF Fallback
<1>3. Scope(m, n) \o Fallback \in Seq(Module \cup {NoModule})
  BY <1>1, <1>2
<1>4. FirstIn(Scope(m, n) \o Fallback, n) \in DOMAIN node \cup {NoPath}
  BY <1>3, FirstInType
<1>5. FirstIn(Scope(m, n), n) \in DOMAIN node \cup {NoPath}
  BY <1>1, FirstInType
<1>6. UsedImport(m, n) \subseteq Module \X Name
  BY SMT DEF UsedImport
<1> QED
  BY <1>4, <1>5, <1>6, Zenon DEF lookup_name

\* The search of all modules by their names leads to a node, too.
LEMMA GlobalType ==
  ASSUME TypeOK, NEW n \in Name
  PROVE  lookup_node_global(n) \in DOMAIN node \cup {NoPath}
<1> DEFINE Having == {m \in Module : sym[m][n] # NoPath}
           Places == {NameOrder[m] : m \in Having}
<1>1. CASE Having = {}
  BY <1>1 DEF lookup_node_global
<1>2. CASE Having # {}
  <2>1. Places \in SUBSET Nat /\ Places # {}
    BY <1>2, ModuleAssumption
  <2>2. PICK x \in Places : \A y \in Places : x <= y
    BY <2>1, SmallestMember
  <2>3. PICK m \in Having : \A k \in Having : NameOrder[m] <= NameOrder[k]
    BY <2>2
  <2>4. PICK k \in Module : lookup_node_global(n) = sym[k][n]
    BY <2>3 DEF lookup_node_global
  <2> QED
    BY <2>4 DEF TypeOK, TablesOK
<1> QED
  BY <1>1, <1>2

------------------------------------------------------------------------------
(* The invariant, and what it takes to keep it. *)

\* A node about which nothing is known is a node.
LEMMA FreshIsNode ==
  ASSUME world \in Worlds
  PROVE  Fresh \in NodeRecord
<1>1. Len(world.defs) \in Nat
  BY OidAssumption DEF World
<1> QED
  BY <1>1 DEF Fresh, NodeRecord, Kinds

\* cur is a definition or a trap, as the phase says.
CurOK ==
  /\ phase = "cycles" => cur = 0
  /\ phase = "defs" => cur \in {0} \cup DefIdx
  /\ phase = "traps" => cur # 0

IInv == TypeOK /\ CurOK /\ OwnerPreferred

\* A node's owner stays, or is followed by a module that overrules it.
Promoted(old, new) ==
  \/ new = old
  \/ /\ new \in Module
     /\ old # NoModule => Overrules(world.facts, new, old)

\* The tree grows, and no node changes hands against the preference.
Grown ==
  /\ TreeOK'
  /\ DOMAIN node \subseteq DOMAIN node'
  /\ \A p \in DOMAIN node : Promoted(node[p].module, node'[p].module)

\* A node put below an existing one, or in the place of itself, grows the tree.
LEMMA PutGrows ==
  ASSUME TreeOK, world' = world,
         NEW q, q \in DOMAIN node \/ \E p \in DOMAIN node, a \in Arc : q = Append(p, a),
         NEW r \in NodeRecord, Promoted(NodeAt(q).module, r.module),
         node' = Put(q, r)
  PROVE  Grown /\ q \in DOMAIN node'
<1>1. /\ DOMAIN node' = DOMAIN node \cup {q}
      /\ node'[q] = r
      /\ \A p \in DOMAIN node \ {q} : node'[p] = node[p]
      /\ node' = [p \in DOMAIN node' |-> node'[p]]
  BY DEF Put
<1>2. q \in Path
  <2>1. CASE q \in DOMAIN node
    BY <2>1 DEF TreeOK
  <2>2. CASE \E p \in DOMAIN node, a \in Arc : q = Append(p, a)
    <3>1. PICK p \in DOMAIN node, a \in Arc : q = Append(p, a)
      BY <2>2
    <3>2. p \in Seq(Arc)
      BY <3>1 DEF TreeOK, Path
    <3> QED
      BY <3>1, <3>2, AppendProperties DEF Path
  <2> QED
    BY <2>1, <2>2
<1>3. NodeRecord' = NodeRecord
  BY DEF NodeRecord
<1>4. node' \in [DOMAIN node' -> NodeRecord']
  BY <1>1, <1>3 DEF TreeOK
<1>5. TreeOK'
  BY <1>1, <1>2, <1>4 DEF TreeOK
<1>6. \A p \in DOMAIN node : Promoted(node[p].module, node'[p].module)
  BY <1>1 DEF NodeAt, Promoted
<1> QED
  BY <1>1, <1>5, <1>6 DEF Grown

\* Without a change of the tree there is nothing to show.
LEMMA SameTreeGrown ==
  ASSUME TreeOK, world' = world, node' = node
  PROVE  Grown
<1>1. NodeRecord' = NodeRecord
  BY DEF NodeRecord
<1> QED
  BY <1>1 DEF TreeOK, Grown, Promoted

\* What led to a node still does when the tree has grown.
LEMMA TablesKept ==
  ASSUME TablesOK, world' = world, DOMAIN node \subseteq DOMAIN node'
  PROVE  /\ sym \in [Module \cup {NoModule} -> [Name -> DOMAIN node' \cup {NoPath}]]
         /\ \A n \in Name : sym[NoModule][n] = NoPath
         /\ index \subseteq Name \X DOMAIN node'
         /\ listed \subseteq Module \X Name \X DOMAIN node'
         /\ moduleOid \in [Module -> DOMAIN node' \cup {NoPath}]
         /\ placed \in [DefIdx' -> DOMAIN node' \cup {NoPath}]
         /\ at \in DOMAIN node'
<1>1. DefIdx' = DefIdx
  BY DEF DefIdx
<1>2. sym \in [Module \cup {NoModule} -> [Name -> DOMAIN node' \cup {NoPath}]]
  <2>1. \A m \in Module \cup {NoModule} : sym[m] \in [Name -> DOMAIN node' \cup {NoPath}]
    BY DEF TablesOK
  <2> QED
    BY <2>1 DEF TablesOK
<1>3. moduleOid \in [Module -> DOMAIN node' \cup {NoPath}]
  BY DEF TablesOK
<1>4. placed \in [DefIdx -> DOMAIN node' \cup {NoPath}]
  BY DEF TablesOK
<1>5. /\ index \subseteq Name \X DOMAIN node'
      /\ listed \subseteq Module \X Name \X DOMAIN node'
  BY DEF TablesOK
<1> QED
  BY <1>1, <1>2, <1>3, <1>4, <1>5 DEF TablesOK

\* A name bound in a module leads to the node it is bound to.
LEMMA BindType ==
  ASSUME NEW m \in Module, NEW n \in Name, NEW p \in DOMAIN node',
         sym \in [Module \cup {NoModule} -> [Name -> DOMAIN node' \cup {NoPath}]],
         \A k \in Name : sym[NoModule][k] = NoPath, sym' = Bind(m, n, p)
  PROVE  /\ sym' \in [Module \cup {NoModule} -> [Name -> DOMAIN node' \cup {NoPath}]]
         /\ \A k \in Name : sym'[NoModule][k] = NoPath
BY ModuleAssumption DEF Bind

\* Growth keeps the owners preferred to the definitions already placed.
LEMMA GrownKeepsOwners ==
  ASSUME TypeOK, OwnerPreferred, Grown, world' = world, placed' = placed
  PROVE  OwnerPreferred'
<1> SUFFICES ASSUME NEW i \in DefIdx', placed'[i] # NoPath
             PROVE  LET owner == node'[placed[i]].module
                    IN  owner # NoModule /\ ~ Overrules(world.facts, Def(i).mod, owner)
  BY DEF OwnerPreferred, Def
<1> DEFINE p == placed[i]
           old == node[p].module
           new == node'[p].module
<1>1. i \in DefIdx
  BY DEF DefIdx
<1>2. p \in DOMAIN node
  BY <1>1 DEF TypeOK, TablesOK
<1>3. /\ old # NoModule /\ ~ Overrules(world.facts, Def(i).mod, old)
      /\ old \in Module
  BY <1>1, <1>2 DEF OwnerPreferred, TypeOK, TreeOK, NodeRecord
<1>4. Promoted(old, new)
  BY <1>2 DEF Grown
<1>5. CASE new = old
  BY <1>3, <1>5
<1>6. CASE new # old
  <2>1. new \in Module /\ Overrules(world.facts, new, old)
    BY <1>3, <1>4, <1>6 DEF Promoted
  <2>2. Def(i).mod \in Module /\ world.facts \in [Module -> ModuleFacts]
    BY <1>1, WorldType DEF TypeOK, Definition
  <2>3. ~ Overrules(world.facts, Def(i).mod, new)
    BY <1>3, <2>1, <2>2, OverrulesIsStrict
  <2> QED
    BY <2>1, <2>3, ModuleAssumption
<1> QED
  BY <1>5, <1>6

\* The component at hand, and the module and the definition it is of.
LEMMA Context ==
  ASSUME TypeOK, CurOK, Resolving
  PROVE  /\ cur \in DefIdx /\ Def(cur) \in Definition
         /\ M \in Module
         /\ MoreComponents => C \in Component
<1>1. cur \in DefIdx
  BY DEF CurOK, Resolving
<1>2. Def(cur) \in Definition
  BY <1>1, WorldType DEF TypeOK
<1>3. ASSUME MoreComponents PROVE C \in Component
  BY <1>2, <1>3 DEF Definition, TypeOK, MoreComponents, C
<1> QED
  BY <1>1, <1>2, <1>3 DEF Definition, M

\* The trap at hand and its enterprise.
LEMMA TrapContext ==
  ASSUME TypeOK, CurOK, NextTrap
  PROVE  /\ T \in Trap
         /\ EnterpriseNode \in DOMAIN node \cup {NoPath}
         /\ used' \subseteq Module \X Name
<1>1. T \in Trap
  <2>1. cur \in 1 .. Len(world.traps)
    <3>1. Len(world.traps) \in Nat
      BY OidAssumption DEF TypeOK, World
    <3> QED
      BY <3>1 DEF TypeOK, CurOK, NextTrap
  <2> QED
    BY <2>1, WorldType DEF T, TypeOK
<1>2. T.mod \in Module /\ T.enterprise \in Name
  BY <1>1 DEF Trap
<1>3. EnterpriseNode \in DOMAIN node \cup {NoPath}
  BY <1>2, LookupType, GlobalType DEF EnterpriseNode
<1>4. UsedImport(T.mod, T.enterprise) \subseteq Module \X Name
  BY <1>2, LookupType
<1> QED
  BY <1>1, <1>3, <1>4 DEF NextTrap, TypeOK

\* A step within one world keeps the types, part by part.
LEMMA TypeStep ==
  ASSUME world \in Worlds, world' = world, Grown, TablesOK',
         phase' \in {"cycles", "defs", "traps", "done"},
         cyclic' \subseteq Symbols, done' \subseteq Symbols,
         cur' \in Nat, comp' \in Nat \ {0},
         used' \subseteq Module \X Name, identities' \subseteq DefIdx
  PROVE  TypeOK'
<1>1. Symbols' = Symbols /\ DefIdx' = DefIdx
  BY DEF Symbols, SymbolOf, DefIdx, Def
<1> QED
  BY <1>1 DEF TypeOK, Grown

\* A step that leaves the tree and the tables alone keeps them.
LEMMA QuietStep ==
  ASSUME IInv, world' = world,
         UNCHANGED <<node, sym, index, listed, moduleOid, placed>>, at' \in DOMAIN node
  PROVE  Grown /\ TablesOK' /\ OwnerPreferred'
<1>1. Grown
  BY SameTreeGrown DEF IInv, TypeOK
<1>2. TablesOK'
  BY DEF IInv, TypeOK, TablesOK, DefIdx
<1>3. OwnerPreferred'
  BY <1>1, GrownKeepsOwners DEF IInv
<1> QED
  BY <1>1, <1>2, <1>3

------------------------------------------------------------------------------
(* The steps. *)

\* At the start the root is the whole tree and nothing leads anywhere else.
LEMMA InitInv == Init => IInv
<1> SUFFICES ASSUME Init PROVE IInv
  OBVIOUS
<1>1. TreeOK
  <2>1. Fresh \in NodeRecord
    BY FreshIsNode DEF Init
  <2>2. <<>> \in Path
    BY DEF Path
  <2> QED
    BY <2>1, <2>2 DEF Init, TreeOK
<1>2. TablesOK
  BY DEF Init, TablesOK
<1>3. TypeOK
  BY <1>1, <1>2 DEF Init, TypeOK
<1>4. OwnerPreferred
  BY DEF Init, OwnerPreferred
<1> QED
  BY <1>3, <1>4 DEF IInv, CurOK, Init

\* ReportCycles, Begin, BeginTraps, End: only the control moves.
LEMMA ControlKeeps ==
  ASSUME IInv,
         ReportCycles \/ (\E i \in DefIdx : Begin(i)) \/ BeginTraps \/ End
  PROVE  IInv'
<1>1. /\ world' = world
      /\ UNCHANGED <<node, sym, index, listed, moduleOid, placed>>
      /\ at' \in DOMAIN node
  BY DEF ReportCycles, Begin, BeginTraps, End, IInv, TypeOK, TreeOK, TablesOK
<1>2. Grown /\ TablesOK' /\ OwnerPreferred'
  BY <1>1, QuietStep
<1>3. DefIdx' = DefIdx
  BY <1>1 DEF DefIdx
<1>4. CASE ReportCycles
  <2>1. TypeOK'
    BY <1>1, <1>2, <1>4, TypeStep DEF ReportCycles, IInv, TypeOK, OnCycle
  <2> QED
    BY <1>2, <1>4, <2>1 DEF ReportCycles, IInv, CurOK
<1>5. ASSUME NEW i \in DefIdx, Begin(i) PROVE IInv'
  <2>1. cur' \in {0} \cup DefIdx /\ cur' \in Nat
    BY <1>5 DEF Begin, DefIdx
  <2>2. done' \subseteq Symbols
    BY <1>5 DEF Begin, Symbols, IInv, TypeOK
  <2>3. TypeOK'
    BY <1>1, <1>2, <1>5, <2>1, <2>2, TypeStep DEF Begin, IInv, TypeOK
  <2> QED
    BY <1>2, <1>3, <1>5, <2>1, <2>3 DEF Begin, IInv, CurOK
<1>6. CASE BeginTraps
  <2>1. TypeOK'
    BY <1>1, <1>2, <1>6, TypeStep DEF BeginTraps, IInv, TypeOK
  <2> QED
    BY <1>2, <1>6, <2>1 DEF BeginTraps, IInv, CurOK
<1>7. CASE End
  <2>1. TypeOK'
    BY <1>1, <1>2, <1>7, TypeStep DEF End, IInv, TypeOK
  <2> QED
    BY <1>2, <1>7, <2>1 DEF End, IInv, CurOK
<1> QED
  BY <1>4, <1>5, <1>6, <1>7

\* A component on the way: the tree grown, the tables kept, the control as Advance.
LEMMA AdvanceStep ==
  ASSUME IInv, Resolving, NEW p, Advance(p), p \in DOMAIN node', Grown,
         sym' \in [Module \cup {NoModule} -> [Name -> DOMAIN node' \cup {NoPath}]],
         \A n \in Name : sym'[NoModule][n] = NoPath,
         index' \subseteq Name \X DOMAIN node',
         listed' \subseteq Module \X Name \X DOMAIN node',
         placed' = placed, used' \subseteq Module \X Name
  PROVE  IInv'
<1>1. TablesOK /\ world' = world /\ DOMAIN node \subseteq DOMAIN node'
  BY DEF IInv, TypeOK, Advance, Grown
<1>2. TablesOK'
  BY <1>1, TablesKept DEF Advance, TablesOK
<1>3. TypeOK'
  BY <1>2, TypeStep DEF IInv, TypeOK, Advance
<1>4. OwnerPreferred'
  BY <1>1, GrownKeepsOwners DEF IInv
<1>5. CurOK'
  BY <1>1 DEF IInv, CurOK, Advance, DefIdx
<1> QED
  BY <1>3, <1>4, <1>5 DEF IInv

\* A number makes the child, or finds it.
LEMMA NumberKeeps ==
  ASSUME IInv, Number
  PROVE  IInv'
<1> DEFINE p == Append(at, C.value)
<1>1. Resolving /\ MoreComponents /\ TypeOK /\ CurOK
  BY DEF Number, MoreComponents, IInv
<1>2. C.value \in Arc /\ at \in DOMAIN node /\ TreeOK
  BY <1>1, Context DEF Component, TypeOK, TablesOK
<1>3. NodeAt(p) \in NodeRecord
  BY <1>1, <1>2, FreshIsNode DEF NodeAt, TreeOK, TypeOK
<1>4. world' = world /\ node' = Put(p, NodeAt(p)) /\ Advance(p)
  BY DEF Number, Advance, get_or_create_child
<1>5. Grown /\ p \in DOMAIN node'
  BY <1>2, <1>3, <1>4, PutGrows DEF Promoted
<1>6. TablesOK /\ DOMAIN node \subseteq DOMAIN node'
  BY <1>1, <1>5 DEF TypeOK, Grown
<1> HIDE DEF p
<1> QED
  BY <1>1, <1>4, <1>5, <1>6, TablesKept, AdvanceStep DEF Number, Advance, TypeOK

\* A well-known root is given to SNMPv2-SMI only while nobody has it.
LEMMA WellKnownRootKeeps ==
  ASSUME IInv, WellKnownRoot
  PROVE  IInv'
<1> DEFINE p == <<RootArc[C.name]>>
           r == NodeAt(p)
<1>1. Resolving /\ MoreComponents /\ TypeOK /\ CurOK /\ TreeOK
  BY DEF WellKnownRoot, MoreComponents, IInv, TypeOK
<1>2. C \in Component /\ C.name \in Name /\ RootArc[C.name] \in Arc
  BY <1>1, Context, OidAssumption DEF Component, WellKnownRoot, IsRoot, IsNamed
<1>3. p = Append(<<>>, RootArc[C.name]) /\ <<>> \in DOMAIN node
  BY <1>1, <1>2 DEF TreeOK
<1>4. r \in NodeRecord
  BY <1>1, FreshIsNode DEF NodeAt, TreeOK, TypeOK
<1>5. world' = world /\ Advance(p) /\ placed' = placed /\ used' = used
  BY DEF WellKnownRoot, Advance
<1>6. TablesOK
  BY <1>1 DEF TypeOK
<1>7. CASE /\ r.module = NoModule /\ Smi # NoModule
           /\ node' = Put(p, [r EXCEPT !.name = C.name, !.module = Smi, !.kind = "Node"])
           /\ sym' = Bind(Smi, C.name, p)
           /\ index' = index \cup {<<C.name, p>>}
           /\ listed' = listed \cup {<<Smi, C.name, p>>}
  <2> DEFINE r2 == [r EXCEPT !.name = C.name, !.module = Smi, !.kind = "Node"]
  <2>1. Smi \in Module
    BY <1>7, OidAssumption
  <2>2. r2 \in NodeRecord /\ Promoted(r.module, r2.module)
    BY <1>2, <1>4, <1>7, <2>1 DEF NodeRecord, Kinds, Promoted
  <2>3. Grown /\ p \in DOMAIN node'
    BY <1>1, <1>2, <1>3, <1>5, <1>7, <2>2, PutGrows
  <2>4. DOMAIN node \subseteq DOMAIN node'
    BY <2>3 DEF Grown
  <2>5. /\ sym' \in [Module \cup {NoModule} -> [Name -> DOMAIN node' \cup {NoPath}]]
        /\ \A n \in Name : sym'[NoModule][n] = NoPath
    <3>1. /\ sym \in [Module \cup {NoModule} -> [Name -> DOMAIN node' \cup {NoPath}]]
          /\ \A n \in Name : sym[NoModule][n] = NoPath
      BY <1>5, <1>6, <2>4, TablesKept
    <3>2. sym' = Bind(Smi, C.name, p)
      BY <1>7
    <3> HIDE DEF p, r2
    <3> QED
      BY <1>2, <2>1, <2>3, <3>1, <3>2, BindType
  <2>6. /\ index' \subseteq Name \X DOMAIN node'
        /\ listed' \subseteq Module \X Name \X DOMAIN node'
    <3> HIDE DEF p, r2
    <3> QED
      BY <1>2, <1>5, <1>6, <1>7, <2>1, <2>3, <2>4, TablesKept
  <2> HIDE DEF p, r2
  <2> QED
    BY <1>1, <1>5, <2>3, <2>5, <2>6, AdvanceStep DEF TypeOK
<1>8. CASE /\ node' = Put(p, [r EXCEPT !.name = IF @ = NoName THEN C.name ELSE @])
           /\ UNCHANGED <<sym, index, listed>>
  <2> DEFINE r2 == [r EXCEPT !.name = IF @ = NoName THEN C.name ELSE @]
  <2>1. r2 \in NodeRecord /\ Promoted(r.module, r2.module)
    BY <1>2, <1>4 DEF NodeRecord, Promoted
  <2>2. Grown /\ p \in DOMAIN node'
    BY <1>1, <1>2, <1>3, <1>5, <1>8, <2>1, PutGrows
  <2>3. DOMAIN node \subseteq DOMAIN node'
    BY <2>2 DEF Grown
  <2> HIDE DEF p, r2
  <2> QED
    BY <1>1, <1>5, <1>6, <1>8, <2>2, <2>3, TablesKept, AdvanceStep DEF TypeOK
<1> QED
  BY <1>7, <1>8 DEF WellKnownRoot

\* A name that is found leads to a node there is.
LEMMA NameFoundKeeps ==
  ASSUME IInv, NameFound
  PROVE  IInv'
<1> DEFINE p == lookup_name(M, C.name)
<1>1. Resolving /\ MoreComponents /\ TypeOK /\ CurOK
  BY DEF NameFound, MoreComponents, IInv
<1>2. M \in Module /\ C.name \in Name
  BY <1>1, Context DEF Component, NameFound, IsNamed
<1>3. p \in DOMAIN node /\ used' \subseteq Module \X Name
  BY <1>1, <1>2, LookupType DEF NameFound, TypeOK
<1>4. world' = world /\ node' = node /\ Advance(p) /\ placed' = placed
  BY DEF NameFound, Advance
<1>5. Grown
  BY <1>1, <1>4, SameTreeGrown DEF TypeOK
<1> HIDE DEF p
<1> QED
  BY <1>1, <1>3, <1>4, <1>5, TablesKept, AdvanceStep DEF NameFound, TypeOK, TablesOK

\* A qualified name that is found leads to a node there is.
LEMMA QualifiedFoundKeeps ==
  ASSUME IInv, QualifiedFound
  PROVE  IInv'
<1> DEFINE p == sym[C.module][C.name]
<1>1. Resolving /\ MoreComponents /\ TypeOK /\ CurOK
  BY DEF QualifiedFound, MoreComponents, IInv
<1>2. M \in Module /\ C.name \in Name /\ C.module \in Module \cup {NoModule}
  BY <1>1, Context DEF Component, QualifiedFound, IsQualified
<1>3. p \in DOMAIN node
  BY <1>1, <1>2 DEF QualifiedFound, TypeOK, TablesOK
<1>4. world' = world /\ node' = node /\ Advance(p) /\ placed' = placed
  BY DEF QualifiedFound, Advance
<1>5. Grown
  BY <1>1, <1>4, SameTreeGrown DEF TypeOK
<1>6. sym' = sym \/ sym' = Bind(M, C.name, p)
  BY DEF QualifiedFound
<1> HIDE DEF p
<1>7. /\ sym' \in [Module \cup {NoModule} -> [Name -> DOMAIN node' \cup {NoPath}]]
      /\ \A n \in Name : sym'[NoModule][n] = NoPath
  BY <1>1, <1>2, <1>3, <1>4, <1>6, BindType DEF TypeOK, TablesOK
<1> QED
  BY <1>1, <1>3, <1>4, <1>5, <1>7, TablesKept, AdvanceStep
     DEF QualifiedFound, TypeOK, TablesOK

\* A named number makes its child; on the way to another node it may take it over.
LEMMA NumberCreatedKeeps ==
  ASSUME IInv, NumberCreated
  PROVE  IInv'
<1> DEFINE p == Append(at, C.value)
           r == NodeAt(p)
           last == [r EXCEPT !.name = IF @ = NoName THEN C.name ELSE @]
           way == Intermediate(r, M, C.name)
<1>1. Resolving /\ MoreComponents /\ TypeOK /\ CurOK /\ TreeOK /\ TablesOK
  BY DEF NumberCreated, MoreComponents, IInv, TypeOK
<1>2. /\ C.value \in Arc /\ at \in DOMAIN node
      /\ M \in Module /\ C.name \in Name
  BY <1>1, Context DEF Component, TablesOK, NumberCreated
<1>3. r \in NodeRecord
  BY <1>1, FreshIsNode DEF NodeAt, TreeOK, TypeOK
<1>4. world' = world /\ Advance(p) /\ placed' = placed /\ used' = used
      /\ sym' = Bind(M, C.name, p) /\ listed' = listed
  BY DEF NumberCreated, Advance
<1>5. last \in NodeRecord /\ Promoted(r.module, last.module)
  BY <1>2, <1>3 DEF NodeRecord, Promoted
<1>6. way \in NodeRecord /\ Promoted(r.module, way.module)
  <2>1. way \in NodeRecord
    BY <1>2, <1>3 DEF NodeRecord, Kinds, Intermediate
  <2>2. CASE should_prefer_module(world.facts, r.module, M)
    <3>1. way.module = M
      BY <1>3, <2>2 DEF Intermediate, NodeRecord
    <3> QED
      BY <1>2, <2>1, <2>2, <3>1 DEF Promoted, should_prefer_module
  <2>3. CASE ~ should_prefer_module(world.facts, r.module, M)
    <3>1. way.module = r.module
      BY <1>3, <2>3 DEF Intermediate, NodeRecord
    <3> QED
      BY <2>1, <3>1 DEF Promoted
  <2> QED
    BY <2>2, <2>3, <2>1
<1>7. /\ node' = Put(p, last) \/ node' = Put(p, way)
      /\ index' = index \/ index' = index \cup {<<C.name, p>>}
  BY DEF NumberCreated
<1>8. Grown /\ p \in DOMAIN node'
  <2> HIDE DEF last, way, r
  <2> QED
    BY <1>1, <1>2, <1>4, <1>5, <1>6, <1>7, PutGrows DEF r
<1>9. DOMAIN node \subseteq DOMAIN node'
  BY <1>8 DEF Grown
<1>10. /\ sym \in [Module \cup {NoModule} -> [Name -> DOMAIN node' \cup {NoPath}]]
       /\ \A n \in Name : sym[NoModule][n] = NoPath
       /\ index \subseteq Name \X DOMAIN node'
       /\ listed \subseteq Module \X Name \X DOMAIN node'
  BY <1>1, <1>4, <1>9, TablesKept
<1> HIDE DEF p, last, way, r
<1>11. /\ sym' \in [Module \cup {NoModule} -> [Name -> DOMAIN node' \cup {NoPath}]]
       /\ \A n \in Name : sym'[NoModule][n] = NoPath
  BY <1>2, <1>4, <1>8, <1>10, BindType
<1>12. index' \subseteq Name \X DOMAIN node'
  BY <1>2, <1>7, <1>8, <1>10
<1> QED
  BY <1>1, <1>4, <1>8, <1>10, <1>11, <1>12, AdvanceStep DEF TypeOK

\* A definition given up leaves everything as it is.
LEMMA ComponentNotFoundKeeps ==
  ASSUME IInv, ComponentNotFound
  PROVE  IInv'
<1>1. /\ world' = world
      /\ UNCHANGED <<node, sym, index, listed, moduleOid, placed>>
      /\ at' \in DOMAIN node
  BY DEF ComponentNotFound, IInv, TypeOK, TablesOK
<1>2. Grown /\ TablesOK' /\ OwnerPreferred'
  BY <1>1, QuietStep
<1>3. TypeOK'
  BY <1>1, <1>2, TypeStep DEF ComponentNotFound, IInv, TypeOK
<1> QED
  BY <1>2, <1>3 DEF ComponentNotFound, MoreComponents, Resolving, IInv, CurOK

\* A definition gets its node, and the node the definition when it is preferred.
LEMMA FinalizeKeeps ==
  ASSUME IInv, Finalize
  PROVE  IInv'
<1> DEFINE r == NodeAt(at)
           kept == [r EXCEPT !.name = IF @ = NoName THEN Def(cur).name ELSE @]
           taken == Taken(r, cur)
           prefer == should_prefer_module(world.facts, r.module, M)
<1>1. Resolving /\ TypeOK /\ CurOK /\ TreeOK /\ TablesOK
  BY DEF Finalize, IInv, TypeOK
<1>2. /\ cur \in DefIdx /\ Def(cur) \in Definition
      /\ M \in Module /\ M = Def(cur).mod /\ at \in DOMAIN node
  BY <1>1, Context DEF TablesOK, M
<1>3. r \in NodeRecord /\ r = node[at]
  BY <1>1, <1>2 DEF NodeAt, TreeOK
<1>4. /\ world' = world /\ at' = at /\ used' = used /\ phase' = phase
      /\ cyclic' = cyclic /\ done' = done /\ comp' = comp /\ cur' = 0
      /\ sym' = Bind(M, Def(cur).name, at)
      /\ placed' = [placed EXCEPT ![cur] = at]
      /\ index' = index \cup {<<Def(cur).name, at>>}
  BY DEF Finalize
<1>5. DefIdx' = DefIdx
  BY <1>4 DEF DefIdx
<1>6. kept \in NodeRecord /\ kept.module = r.module
  BY <1>2, <1>3 DEF NodeRecord, Definition
<1>7. taken \in NodeRecord /\ taken.module = M
  <2>1. to_node_kind(Def(cur).kind) \in Kinds
    BY <1>2 DEF Definition, DefKinds, Kinds, to_node_kind
  <2>2. cur \in 0 .. Len(world.defs)
    BY <1>2, OidAssumption DEF DefIdx
  <2> QED
    BY <1>2, <1>3, <2>1, <2>2 DEF Taken, NodeRecord, Definition
<1>8. \/ prefer /\ node' = Put(at, taken)
      \/ ~ prefer /\ node' = Put(at, kept)
  BY DEF Finalize
<1>9. /\ prefer => Promoted(r.module, taken.module)
      /\ Promoted(r.module, kept.module)
  BY <1>2, <1>6, <1>7 DEF Promoted, should_prefer_module
<1>10. Grown
  <2> HIDE DEF kept, taken, prefer
  <2> QED
    BY <1>1, <1>2, <1>4, <1>6, <1>7, <1>8, <1>9, PutGrows
<1>11. DOMAIN node \subseteq DOMAIN node' /\ at \in DOMAIN node'
  BY <1>2, <1>10 DEF Grown
<1>12. TablesOK'
  <2>1. /\ sym \in [Module \cup {NoModule} -> [Name -> DOMAIN node' \cup {NoPath}]]
        /\ \A n \in Name : sym[NoModule][n] = NoPath
        /\ index \subseteq Name \X DOMAIN node'
        /\ listed \subseteq Module \X Name \X DOMAIN node'
        /\ moduleOid \in [Module -> DOMAIN node' \cup {NoPath}]
        /\ placed \in [DefIdx -> DOMAIN node' \cup {NoPath}]
    BY <1>1, <1>4, <1>5, <1>11, TablesKept
  <2>2. Def(cur).name \in Name
    BY <1>2 DEF Definition
  <2>3. /\ sym' \in [Module \cup {NoModule} -> [Name -> DOMAIN node' \cup {NoPath}]]
        /\ \A n \in Name : sym'[NoModule][n] = NoPath
    BY <1>2, <1>4, <1>11, <2>1, <2>2, BindType
  <2>4. /\ index' \subseteq Name \X DOMAIN node'
        /\ listed' \subseteq Module \X Name \X DOMAIN node'
    BY <1>2, <1>11, <2>1, <2>2 DEF Finalize
  <2>5. moduleOid' \in [Module -> DOMAIN node' \cup {NoPath}]
    BY <1>2, <1>11, <2>1 DEF Finalize
  <2>6. placed' \in [DefIdx' -> DOMAIN node' \cup {NoPath}]
    BY <1>2, <1>4, <1>5, <1>11, <2>1
  <2> QED
    BY <1>4, <1>11, <2>3, <2>4, <2>5, <2>6 DEF TablesOK
<1>13. identities' \subseteq DefIdx
  BY <1>1, <1>2 DEF Finalize, TypeOK
<1>14. TypeOK'
  BY <1>1, <1>4, <1>10, <1>12, <1>13, TypeStep DEF TypeOK
<1>15. OwnerPreferred'
  <2> SUFFICES ASSUME NEW i \in DefIdx', placed'[i] # NoPath
               PROVE  LET owner == node'[placed'[i]].module
                      IN  owner # NoModule /\ ~ Overrules(world.facts, Def(i).mod, owner)
    BY <1>4 DEF OwnerPreferred, Def
  <2>1. i \in DefIdx /\ Def(i).mod \in Module
        /\ world.facts \in [Module -> ModuleFacts]
    BY <1>1, <1>5, WorldType DEF TypeOK, Definition
  <2>2. CASE i = cur
    <3>1. placed'[i] = at
      BY <1>1, <1>2, <1>4, <2>2 DEF TablesOK
    <3>2. CASE prefer
      <4>1. node'[at].module = M
        BY <1>7, <1>8, <3>2 DEF Put
      <4>2. M # NoModule /\ ~ Overrules(world.facts, M, M)
        BY <1>2, <2>1, OverrulesIsStrict, ModuleAssumption
      <4> QED
        BY <1>2, <2>2, <3>1, <4>1, <4>2
    <3>3. CASE ~ prefer
      <4>1. node'[at].module = r.module
        BY <1>6, <1>8, <3>3 DEF Put
      <4> QED
        BY <1>2, <2>2, <3>1, <3>3, <4>1 DEF should_prefer_module
    <3> QED
      BY <3>2, <3>3
  <2>3. CASE i # cur
    <3>1. placed'[i] = placed[i] /\ placed[i] \in DOMAIN node
      BY <1>1, <1>2, <1>4, <2>1, <2>3 DEF TablesOK
    <3> DEFINE p == placed[i]
               old == node[p].module
               new == node'[p].module
    <3>2. /\ old # NoModule /\ ~ Overrules(world.facts, Def(i).mod, old)
          /\ old \in Module
      BY <1>1, <2>1, <3>1 DEF IInv, OwnerPreferred, TreeOK, NodeRecord
    <3>3. new = old \/ (new \in Module /\ Overrules(world.facts, new, old))
      BY <1>10, <3>1, <3>2 DEF Grown, Promoted
    <3>4. new # NoModule /\ ~ Overrules(world.facts, Def(i).mod, new)
      BY <2>1, <3>2, <3>3, OverrulesIsStrict, ModuleAssumption
    <3> QED
      BY <3>1, <3>4
  <2> QED
    BY <2>2, <2>3
<1>16. CurOK'
  BY <1>1, <1>4 DEF CurOK, Resolving
<1> QED
  BY <1>14, <1>15, <1>16 DEF IInv

\* A trap without an OID only moves on to the next.
LEMMA TrapUnresolvedKeeps ==
  ASSUME IInv, TrapUnresolved
  PROVE  IInv'
<1>1. NextTrap /\ TypeOK /\ CurOK
  BY DEF TrapUnresolved, IInv
<1>2. /\ world' = world
      /\ UNCHANGED <<node, sym, index, listed, moduleOid, placed>>
      /\ at' \in DOMAIN node
  BY <1>1 DEF TrapUnresolved, NextTrap, TypeOK, TablesOK
<1>3. Grown /\ TablesOK' /\ OwnerPreferred'
  BY <1>2, QuietStep
<1>4. TypeOK'
  BY <1>1, <1>2, <1>3, TrapContext, TypeStep DEF NextTrap, TypeOK
<1> QED
  BY <1>1, <1>3, <1>4 DEF NextTrap, IInv, CurOK, TypeOK

\* A trap's node comes with the node above it, and is taken over when preferred.
LEMMA TrapPlacedKeeps ==
  ASSUME IInv, TrapPlaced
  PROVE  IInv'
<1> DEFINE e == EnterpriseNode
           New == ZeroNodes \cup {TrapPath}
           made(q) == IF q = TrapPath THEN TrapNode(NodeAt(q)) ELSE NodeAt(q)
<1>1. /\ NextTrap /\ TypeOK /\ CurOK /\ TreeOK /\ TablesOK
      /\ world' = world /\ placed' = placed /\ at' = at
      /\ moduleOid' = moduleOid /\ listed' = listed
  BY DEF TrapPlaced, NextTrap, IInv, TypeOK
<1>2. T \in Trap /\ e \in DOMAIN node
  BY <1>1, TrapContext DEF TrapPlaced
<1>3. /\ T.mod \in Module /\ T.name \in Name /\ T.number \in Arc
      /\ 0 \in Arc /\ (e = SnmpTraps => T.number + 1 \in Arc)
  BY <1>2, OidAssumption DEF Trap, Arc, TrapPlaced
<1>4. /\ \A q \in New : \E p \in DOMAIN node \cup New, a \in Arc : q = Append(p, a)
      /\ New \subseteq Path
  <2>1. CASE e = SnmpTraps
    <3>1. ZeroNodes = {} /\ TrapPath = Append(e, T.number + 1)
      BY <2>1 DEF ZeroNodes, TrapPath
    <3>2. e \in Seq(Arc)
      BY <1>1, <1>2 DEF TreeOK, Path
    <3> HIDE DEF e
    <3> QED
      BY <1>2, <1>3, <2>1, <3>1, <3>2, AppendProperties DEF Path
  <2>2. CASE e # SnmpTraps
    <3> DEFINE z == Append(e, 0)
    <3>1. ZeroNodes = {z} /\ TrapPath = Append(z, T.number)
      BY <2>2 DEF ZeroNodes, TrapPath
    <3>2. e \in Seq(Arc)
      BY <1>1, <1>2 DEF TreeOK, Path
    <3>3. z \in Seq(Arc)
      BY <1>3, <3>2, AppendProperties
    <3>4. TrapPath \in Seq(Arc)
      BY <1>3, <3>1, <3>3, AppendProperties
    <3>5. z \in New /\ e \in DOMAIN node
      BY <1>2, <3>1
    <3>6. \A q \in New : q = Append(e, 0) \/ q = Append(z, T.number)
      BY <3>1
    <3> HIDE DEF e
    <3> QED
      BY <1>3, <3>1, <3>3, <3>4, <3>5, <3>6 DEF Path
  <2> QED
    BY <2>1, <2>2
<1>5. /\ DOMAIN node' = DOMAIN node \cup New
      /\ \A q \in DOMAIN node' : node'[q] = made(q)
      /\ node' = [q \in DOMAIN node' |-> node'[q]]
  BY DEF TrapPlaced
<1>6. \A q : NodeAt(q) \in NodeRecord
  BY <1>1, FreshIsNode DEF NodeAt, TreeOK, TypeOK
<1>7. \A q : TrapNode(NodeAt(q)) \in NodeRecord
             /\ Promoted(NodeAt(q).module, TrapNode(NodeAt(q)).module)
  <2> SUFFICES ASSUME NEW r \in NodeRecord
               PROVE  TrapNode(r) \in NodeRecord /\ Promoted(r.module, TrapNode(r).module)
    BY <1>6
  <2> DEFINE taken == [r EXCEPT !.name = T.name, !.module = T.mod, !.kind = "Notification"]
             kept == [r EXCEPT !.name = IF @ = NoName THEN T.name ELSE @]
  <2>1. taken \in NodeRecord /\ taken.module = T.mod
    BY <1>3 DEF NodeRecord, Kinds, DefKinds
  <2>2. kept \in NodeRecord /\ kept.module = r.module
    BY <1>3 DEF NodeRecord
  <2>3. \/ should_prefer_module(world.facts, r.module, T.mod) /\ TrapNode(r) = taken
        \/ TrapNode(r) = kept
    BY DEF TrapNode
  <2> HIDE DEF taken, kept
  <2> QED
    BY <1>3, <2>1, <2>2, <2>3 DEF Promoted, should_prefer_module
<1>8. NodeRecord' = NodeRecord
  BY <1>1 DEF NodeRecord
<1>9. TreeOK'
  <2>1. \A q \in DOMAIN node' : node'[q] \in NodeRecord
    BY <1>5, <1>6, <1>7
  <2> HIDE DEF New, made
  <2> QED
    BY <1>1, <1>4, <1>5, <1>8, <2>1 DEF TreeOK
<1>10. \A p \in DOMAIN node : Promoted(node[p].module, node'[p].module)
  BY <1>5, <1>7 DEF NodeAt, Promoted
<1>11. DOMAIN node \subseteq DOMAIN node' /\ TrapPath \in DOMAIN node'
  BY <1>5
<1>12. Grown
  BY <1>9, <1>10, <1>11 DEF Grown
<1>13. TablesOK'
  <2>1. /\ sym \in [Module \cup {NoModule} -> [Name -> DOMAIN node' \cup {NoPath}]]
        /\ \A n \in Name : sym[NoModule][n] = NoPath
        /\ index \subseteq Name \X DOMAIN node'
        /\ listed \subseteq Module \X Name \X DOMAIN node'
        /\ moduleOid \in [Module -> DOMAIN node' \cup {NoPath}]
        /\ placed \in [DefIdx' -> DOMAIN node' \cup {NoPath}]
        /\ at \in DOMAIN node'
    BY <1>1, <1>11, TablesKept
  <2>2. /\ sym' \in [Module \cup {NoModule} -> [Name -> DOMAIN node' \cup {NoPath}]]
        /\ \A n \in Name : sym'[NoModule][n] = NoPath
    BY <1>3, <1>11, <2>1, BindType DEF TrapPlaced
  <2>3. index' \subseteq Name \X DOMAIN node'
    BY <1>3, <1>11, <2>1 DEF TrapPlaced
  <2> QED
    BY <1>1, <2>1, <2>2, <2>3 DEF TablesOK
<1>14. TypeOK'
  BY <1>1, <1>12, <1>13, TrapContext, TypeStep DEF NextTrap, TypeOK
<1>15. OwnerPreferred'
  BY <1>1, <1>12, GrownKeepsOwners DEF IInv
<1> QED
  BY <1>1, <1>14, <1>15 DEF NextTrap, IInv, CurOK, TypeOK

------------------------------------------------------------------------------
(* The theorems. *)

\* Every step keeps the invariant.
LEMMA NextInv == IInv /\ [Next]_vars => IInv'
<1> SUFFICES ASSUME IInv, [Next]_vars PROVE IInv'
  OBVIOUS
<1>1. CASE Next
  BY <1>1, ControlKeeps, NumberKeeps, WellKnownRootKeeps, NameFoundKeeps,
     QualifiedFoundKeeps, NumberCreatedKeeps, ComponentNotFoundKeeps, FinalizeKeeps,
     TrapUnresolvedKeeps, TrapPlacedKeeps DEF Next
<1>2. CASE UNCHANGED vars
  <2>1. world' = world /\ UNCHANGED <<node, sym, index, listed, moduleOid, placed>>
        /\ at' \in DOMAIN node
    BY <1>2 DEF vars, IInv, TypeOK, TablesOK
  <2>2. Grown /\ TablesOK' /\ OwnerPreferred'
    BY <2>1, QuietStep
  <2>3. TypeOK'
    BY <1>2, <2>1, <2>2, TypeStep DEF vars, IInv, TypeOK
  <2> QED
    BY <1>2, <2>2, <2>3 DEF vars, IInv, CurOK, DefIdx
<1> QED
  BY <1>1, <1>2

\* OID resolution keeps its types: every node but the root has its parent, and no
\* table of resolve_oids ever leads out of the tree.
THEOREM TypeCorrect == Spec => []TypeOK
<1>1. IInv => TypeOK
  BY DEF IInv
<1> QED
  BY <1>1, InitInv, NextInv, PTL DEF Spec

\* Whatever the order of resolution, the owner of a node is the preferred one of the
\* modules with a definition at it, or one preferred to all of them.
THEOREM OwnerPreferredHolds == Spec => []OwnerPreferred
<1>1. IInv => OwnerPreferred
  BY DEF IInv
<1> QED
  BY <1>1, InitInv, NextInv, PTL DEF Spec

------------------------------------------------------------------------------
(* Every definition has its turn.                                          *)
(*                                                                         *)
(* A symbol is done once the order has come to it.  What the first         *)
(* component of a definition names is done or on a cycle before the        *)
(* definition is, so that whether it has a node is settled by then.        *)

\* The definition being resolved.
Active(i) == phase = "defs" /\ cur = i

OnCycleReported ==
  /\ phase = "cycles" => done = {}
  /\ phase # "cycles" => \A s \in cyclic :
       \E r \in reports : r.symbol = s /\ r.reason = "DependencyCycle"

\* Whose turn it is has not been placed, and what it depends on had its turn.
ActiveSound ==
  \A i \in DefIdx : Active(i) =>
    /\ IsKept(i) /\ SymbolOf(i) \in done /\ placed[i] = NoPath
    /\ Deps(SymbolOf(i)) \subseteq (done \cup cyclic) \ {SymbolOf(i)}

\* What has a node had its turn, and its name leads somewhere.
PlacedSound ==
  \A i \in DefIdx : placed[i] # NoPath =>
    /\ IsKept(i) /\ SymbolOf(i) \in done
    /\ sym[Def(i).mod][Def(i).name] # NoPath

\* What had its turn came to something.
Settled ==
  \A s \in done :
    \/ Def(KeptOf(s)).oid = <<>>
    \/ placed[KeptOf(s)] # NoPath
    \/ \E r \in reports : r.symbol = s /\ r.reason = "ComponentNotFound"
    \/ Active(KeptOf(s))

\* What has no node and is not being resolved, although the order is past it.
Failed(s) ==
  s \in done \cup cyclic /\ placed[KeptOf(s)] = NoPath /\ ~ Active(KeptOf(s))

\* A parent reported as unknown has failed.
OrphansSound ==
  \A r \in reports : r.reason = "ComponentNotFound" /\ r.comp = 1 =>
    LET d == Def(KeptOf(r.symbol)) IN
      \A s \in DepSymbols(d.mod, d.oid[1]) \cap Symbols : Failed(s)

Turns ==
  /\ cyclic \cap done = {}
  /\ OnCycleReported /\ ActiveSound /\ PlacedSound /\ Settled /\ OrphansSound
  /\ phase \in {"traps", "done"} => Symbols \subseteq done \cup cyclic

TInv == IInv /\ Turns

\* A symbol has one kept definition.
LEMMA KeptIs ==
  ASSUME world \in Worlds
  PROVE  /\ \A s \in Symbols : /\ KeptOf(s) \in DefIdx
                               /\ SymbolOf(KeptOf(s)) = s /\ IsKept(KeptOf(s))
         /\ \A i \in DefIdx : IsKept(i) => KeptOf(SymbolOf(i)) = i
<1>1. Len(world.defs) \in Nat /\ DefIdx \in SUBSET Nat
  BY OidAssumption DEF World, DefIdx
<1>2. \A i, j \in DefIdx : IsKept(i) /\ IsKept(j) /\ SymbolOf(i) = SymbolOf(j) => i = j
  BY <1>1 DEF IsKept
<1>3. ASSUME NEW s \in Symbols
      PROVE  \E i \in DefIdx : SymbolOf(i) = s /\ IsKept(i)
  <2> DEFINE N == Len(world.defs)
             Rest == {N - i : i \in {j \in DefIdx : SymbolOf(j) = s}}
  <2>1. Rest \in SUBSET Nat /\ Rest # {}
    <3>1. PICK i \in DefIdx : SymbolOf(i) = s
      BY DEF Symbols
    <3>2. \A j \in DefIdx : N - j \in Nat
      BY <1>1 DEF DefIdx
    <3> QED
      BY <3>1, <3>2
  <2>2. PICK x \in Rest : \A y \in Rest : x <= y
    <3> HIDE DEF Rest
    <3> QED
      BY <2>1, SmallestMember
  <2>3. PICK i \in DefIdx : SymbolOf(i) = s /\ x = N - i
    BY <2>2
  <2>4. \A j \in DefIdx : SymbolOf(j) = s => N - i <= N - j
    BY <2>2, <2>3
  <2> QED
    BY <1>1, <2>3, <2>4 DEF IsKept
<1> QED
  BY <1>2, <1>3 DEF KeptOf

\* What does not change the world does not change the symbols and their order.
LEMMA SameWorld ==
  ASSUME world' = world
  PROVE  /\ Symbols' = Symbols /\ DefIdx' = DefIdx
         /\ \A i : Def(i)' = Def(i) /\ SymbolOf(i)' = SymbolOf(i)
         /\ \A i : IsKept(i)' <=> IsKept(i)
         /\ \A s : KeptOf(s)' = KeptOf(s) /\ Deps(s)' = Deps(s)
         /\ \A m, c : DepSymbols(m, c)' = DepSymbols(m, c)
<1>1. Symbols' = Symbols /\ DefIdx' = DefIdx
  BY DEF Symbols, SymbolOf, DefIdx, Def
<1>2. \A i : Def(i)' = Def(i) /\ SymbolOf(i)' = SymbolOf(i)
  BY DEF SymbolOf, Def
<1>3. \A i : IsKept(i)' <=> IsKept(i)
  BY DEF IsKept, SymbolOf, DefIdx, Def
<1>4. \A m, c : DepSymbols(m, c)' = DepSymbols(m, c)
  BY <1>1 DEF DepSymbols, Defines, IsSmiGlobalRoot
<1>5. \A s : KeptOf(s)' = KeptOf(s)
  BY DEF KeptOf, IsKept, SymbolOf, DefIdx, Def
<1>6. \A s : Deps(s)' = Deps(s)
  BY DEF Deps, DepSymbols, Defines, IsSmiGlobalRoot, Symbols, SymbolOf, DefIdx, Def
<1> QED
  BY <1>1, <1>2, <1>3, <1>4, <1>5, <1>6

\* No name is forgotten.
SymGrows ==
  \A m \in Module \cup {NoModule}, n \in Name : sym[m][n] # NoPath => sym'[m][n] # NoPath

LEMMA BindGrows ==
  ASSUME TablesOK, NEW m \in Module, NEW n \in Name, NEW p \in Path, sym' = Bind(m, n, p)
  PROVE  SymGrows /\ sym'[m][n] = p
BY OidAssumption DEF Bind, SymGrows, TablesOK

\* A search comes to nothing only where no module searched has the name.
LEMMA FirstInMisses ==
  ASSUME NEW ms \in Seq(Module \cup {NoModule}), NEW n \in Name, FirstIn(ms, n) = NoPath
  PROVE  \A i \in 1 .. Len(ms) : sym[ms[i]][n] = NoPath
<1> DEFINE Has == {i \in 1 .. Len(ms) : sym[ms[i]][n] # NoPath}
<1>1. Has \in SUBSET Nat
  OBVIOUS
<1> SUFFICES ASSUME Has # {} PROVE FALSE
  OBVIOUS
<1>2. PICK i \in Has : \A j \in Has : i <= j
  <2> HIDE DEF Has
  <2> QED
    BY <1>1, SmallestMember
<1>3. /\ i \in 1 .. Len(ms) /\ sym[ms[i]][n] # NoPath
      /\ \A j \in 1 .. i - 1 : sym[ms[j]][n] = NoPath
  BY <1>2
<1> QED
  BY <1>3 DEF FirstIn

\* The same for two lists of modules searched one after the other.
LEMMA ConcatMisses ==
  ASSUME NEW p \in Seq(Module \cup {NoModule}), NEW q \in Seq(Module \cup {NoModule}),
         NEW n \in Name, FirstIn(p \o q, n) = NoPath
  PROVE  /\ \A i \in 1 .. Len(p) : sym[p[i]][n] = NoPath
         /\ \A i \in 1 .. Len(q) : sym[q[i]][n] = NoPath
<1>1. \A i \in 1 .. Len(p \o q) : sym[(p \o q)[i]][n] = NoPath
  <2>1. p \o q \in Seq(Module \cup {NoModule})
    BY ConcatProperties
  <2> QED
    BY <2>1, FirstInMisses
<1>2. /\ Len(p \o q) = Len(p) + Len(q)
      /\ \A i \in 1 .. Len(p) : i \in 1 .. Len(p \o q) /\ (p \o q)[i] = p[i]
      /\ \A i \in 1 .. Len(q) :
           Len(p) + i \in 1 .. Len(p \o q) /\ (p \o q)[Len(p) + i] = q[i]
  <2>1. Len(p) \in Nat /\ Len(q) \in Nat
    BY LenProperties
  <2>2. /\ Len(p \o q) = Len(p) + Len(q)
        /\ \A i \in 1 .. Len(p) + Len(q) :
             (p \o q)[i] = IF i <= Len(p) THEN p[i] ELSE q[i - Len(p)]
    BY ConcatProperties
  <2>3. \A i \in 1 .. Len(p) : i \in 1 .. Len(p) + Len(q) /\ i <= Len(p)
    BY <2>1
  <2>4. \A i \in 1 .. Len(q) : /\ Len(p) + i \in 1 .. Len(p) + Len(q)
                               /\ ~ (Len(p) + i <= Len(p)) /\ (Len(p) + i) - Len(p) = i
    BY <2>1
  <2> QED
    BY <2>2, <2>3, <2>4
<1> QED
  BY <1>1, <1>2

\* A name the module does not find is one that no symbol it depends on has.
LEMMA LookupMisses ==
  ASSUME TypeOK, NEW m \in Module, NEW c, c.name \in Name, IsNamed(c),
         lookup_name(m, c.name) = NoPath, NEW s \in DepSymbols(m, c)
  PROVE  sym[s[1]][s[2]] = NoPath
<1> DEFINE n == c.name
           X == world.imports[m][n]
<1>1. X \in Module \cup {NoModule} /\ Smi \in Module \cup {NoModule}
      /\ Rfc \in Module \cup {NoModule}
  BY WorldType, OidAssumption DEF TypeOK
<1>2. ~ IsQualified(c)
  BY DEF IsNamed, IsQualified
<1>3. s = <<m, n>> \/ s = <<X, n>> \/ (world.constrained /\ s = <<Smi, n>>)
  BY <1>2 DEF DepSymbols
<1> HIDE DEF X
<1>4. <<m, X>> \in Seq(Module \cup {NoModule}) /\ Fallback \in Seq(Module \cup {NoModule})
  <2>1. /\ <<m, X>> \in Seq(Module \cup {NoModule})
        /\ <<Smi, Rfc>> \in Seq(Module \cup {NoModule})
        /\ <<>> \in Seq(Module \cup {NoModule})
    BY <1>1
  <2> QED
    BY <2>1 DEF Fallback
<1>5. FirstIn(<<m, X>> \o Fallback, n) = NoPath
  BY Zenon DEF lookup_name, Scope, X
<1>6. sym[m][n] = NoPath /\ sym[X][n] = NoPath
  <2>1. \A i \in 1 .. Len(<<m, X>>) : sym[<<m, X>>[i]][n] = NoPath
    BY <1>4, <1>5, ConcatMisses
  <2>2. Len(<<m, X>>) = 2 /\ <<m, X>>[1] = m /\ <<m, X>>[2] = X
    OBVIOUS
  <2>3. 1 \in 1 .. 2 /\ 2 \in 1 .. 2
    OBVIOUS
  <2> QED
    BY <2>1, <2>2, <2>3
<1>7. ASSUME world.constrained PROVE sym[Smi][n] = NoPath
  <2>1. \A i \in 1 .. Len(Fallback) : sym[Fallback[i]][n] = NoPath
    BY <1>4, <1>5, ConcatMisses
  <2>2. Len(Fallback) = 2 /\ Fallback[1] = Smi
    BY <1>7 DEF Fallback
  <2> QED
    BY <2>1, <2>2
<1> QED
  BY <1>3, <1>6, <1>7 DEF X

\* At the start no turn has come.
LEMMA TurnsInit == Init => TInv
<1> SUFFICES ASSUME Init PROVE Turns
  BY InitInv DEF TInv
<1>1. \A i \in DefIdx : placed[i] = NoPath
  BY DEF Init
<1>2. cyclic = {} /\ done = {} /\ reports = {} /\ phase = "cycles"
  BY DEF Init
<1> QED
  BY <1>1, <1>2 DEF Turns, OnCycleReported, ActiveSound, PlacedSound, Settled,
                    OrphansSound, Active

\* A step that places nothing, ends no turn and reports no orphan.
LEMMA TurnsKept ==
  ASSUME TInv, UNCHANGED <<world, phase, cyclic, done, placed>>, SymGrows,
         cur' = cur \/ phase # "defs", reports \subseteq reports',
         \A r \in reports' \ reports : r.reason # "ComponentNotFound"
  PROVE  Turns'
<1>0. /\ Symbols' = Symbols /\ DefIdx' = DefIdx
      /\ \A i : Def(i)' = Def(i) /\ SymbolOf(i)' = SymbolOf(i)
      /\ \A i : IsKept(i)' <=> IsKept(i)
      /\ \A s : KeptOf(s)' = KeptOf(s) /\ Deps(s)' = Deps(s)
      /\ \A m, c : DepSymbols(m, c)' = DepSymbols(m, c)
  BY SameWorld
<1>1. \A i : Active(i)' <=> Active(i)
  BY DEF Active
<1>2. OnCycleReported'
  BY DEF TInv, Turns, OnCycleReported
<1>3. ActiveSound'
  BY <1>0, <1>1 DEF TInv, Turns, ActiveSound
<1>4. PlacedSound'
  <2>1. \A i \in DefIdx : Def(i).mod \in Module /\ Def(i).name \in Name
    BY WorldType DEF TInv, IInv, TypeOK, Definition
  <2> QED
    BY <1>0, <2>1 DEF TInv, Turns, PlacedSound, SymGrows
<1>5. Settled'
  BY <1>0, <1>1 DEF TInv, Turns, Settled
<1>6. \A s : Failed(s) => Failed(s)'
  BY <1>0, <1>1 DEF Failed
<1>7. OrphansSound'
  BY <1>0, <1>6 DEF TInv, Turns, OrphansSound
<1> QED
  BY <1>0, <1>2, <1>3, <1>4, <1>5, <1>7 DEF TInv, Turns

\* Before the definitions have their turns nothing has a node.
LEMMA ReportCyclesTurns ==
  ASSUME TInv, ReportCycles
  PROVE  Turns'
<1>1. /\ phase = "cycles" /\ phase' = "defs" /\ done = {} /\ done' = {} /\ cur' = cur
      /\ placed' = placed /\ world' = world /\ cur = 0
  BY DEF ReportCycles, TInv, Turns, OnCycleReported, IInv, CurOK
<1>2. DefIdx' = DefIdx /\ \A i \in DefIdx : placed[i] = NoPath /\ i # 0
  BY <1>1, SameWorld DEF TInv, Turns, PlacedSound, DefIdx
<1>3. \A s \in cyclic' : \E r \in reports' : r.symbol = s /\ r.reason = "DependencyCycle"
  <2> DEFINE rep(s) == Report("DependencyCycle", s, 0)
  <2>1. cyclic' = OnCycle /\ reports' = {rep(s) : s \in OnCycle}
    BY DEF ReportCycles
  <2>2. \A s : rep(s).symbol = s /\ rep(s).reason = "DependencyCycle"
    BY DEF Report
  <2> HIDE DEF rep
  <2> QED
    BY <2>1, <2>2
<1>4. \A r \in reports' : r.reason # "ComponentNotFound"
  BY DEF ReportCycles, Report
<1> QED
  BY <1>1, <1>2, <1>3, <1>4 DEF Turns, OnCycleReported, ActiveSound, PlacedSound,
                                Settled, OrphansSound, Active

\* The turn of a symbol comes once, after the turns of what it depends on.
LEMMA BeginTurns ==
  ASSUME TInv, NEW i \in DefIdx, Begin(i)
  PROVE  Turns'
<1> DEFINE s == SymbolOf(i)
<1>1. /\ phase = "defs" /\ phase' = "defs" /\ cur = 0 /\ done' = done \cup {s}
      /\ cur' = (IF Def(i).oid = <<>> THEN 0 ELSE i)
      /\ UNCHANGED <<world, cyclic, sym, reports, placed>>
  BY DEF Begin
<1>2. /\ IsKept(i) /\ s \notin done \cup cyclic /\ Deps(s) \subseteq done \cup cyclic
      /\ s \in Symbols
  BY DEF Begin, Ready, Symbols
<1>3. world \in Worlds
  BY DEF TInv, IInv, TypeOK
<1>4. KeptOf(s) = i
  BY <1>2, <1>3, KeptIs
<1>0. /\ Symbols' = Symbols /\ DefIdx' = DefIdx
      /\ \A j : Def(j)' = Def(j) /\ SymbolOf(j)' = SymbolOf(j)
      /\ \A j : IsKept(j)' <=> IsKept(j)
      /\ \A t \in Symbols : KeptOf(t)' = KeptOf(t) /\ Deps(t)' = Deps(t)
      /\ \A t : KeptOf(t)' = KeptOf(t)
      /\ \A m, c : DepSymbols(m, c)' = DepSymbols(m, c)
  BY <1>1, SameWorld
<1> HIDE DEF s
<1>5. placed[i] = NoPath
  BY <1>2 DEF TInv, Turns, PlacedSound, s
<1>6. 0 \notin DefIdx
  BY DEF DefIdx
<1>7. \A j \in DefIdx : ~ Active(j) /\ (Active(j)' => j = i)
  BY <1>1, <1>6 DEF Active
<1>8. OnCycleReported'
  BY <1>1 DEF TInv, Turns, OnCycleReported
<1>9. ActiveSound'
  BY <1>0, <1>1, <1>2, <1>5, <1>7 DEF ActiveSound, s
<1>10. PlacedSound'
  BY <1>0, <1>1 DEF TInv, Turns, PlacedSound
<1>11. Settled'
  <2> SUFFICES ASSUME NEW t \in done \cup {s}
               PROVE  \/ Def(KeptOf(t)).oid = <<>>
                      \/ placed[KeptOf(t)] # NoPath
                      \/ \E r \in reports : r.symbol = t /\ r.reason = "ComponentNotFound"
                      \/ cur' = KeptOf(t)
    BY <1>0, <1>1 DEF Settled, Active
  <2>1. CASE t = s
    BY <1>1, <1>4, <2>1
  <2>2. CASE t \in done
    <3>1. KeptOf(t) \in DefIdx
      BY <1>3, <2>2, KeptIs DEF TInv, IInv, TypeOK
    <3> QED
      BY <1>7, <2>2, <3>1 DEF TInv, Turns, Settled
  <2> QED
    BY <2>1, <2>2
<1>12. \A t \in Symbols : Failed(t) => Failed(t)'
  <2> SUFFICES ASSUME NEW t \in Symbols, Failed(t) PROVE ~ Active(KeptOf(t))'
    BY <1>0, <1>1 DEF Failed
  <2>1. KeptOf(t) \in DefIdx /\ SymbolOf(KeptOf(t)) = t
    BY <1>3, KeptIs
  <2>2. t # s
    BY <1>2 DEF Failed
  <2> QED
    BY <1>0, <1>7, <2>1, <2>2 DEF s
<1>13. OrphansSound'
  BY <1>0, <1>1, <1>12 DEF TInv, Turns, OrphansSound
<1> QED
  BY <1>0, <1>1, <1>2, <1>8, <1>9, <1>10, <1>11, <1>13 DEF TInv, Turns

\* The component at hand is given up only when what it names has failed.
LEMMA ComponentNotFoundTurns ==
  ASSUME TInv, ComponentNotFound
  PROVE  Turns'
<1> DEFINE s == SymbolOf(cur)
           new == Report("ComponentNotFound", s, comp)
<1>1. /\ phase = "defs" /\ cur # 0 /\ cur' = 0 /\ reports' = reports \cup {new}
      /\ UNCHANGED <<world, phase, cyclic, done, sym, placed>>
      /\ MoreComponents /\ Resolving
  BY DEF ComponentNotFound, MoreComponents, Resolving
<1>2. /\ cur \in DefIdx /\ M \in Module /\ C \in Component /\ M = Def(cur).mod
      /\ world \in Worlds /\ TypeOK
  BY <1>1, Context DEF TInv, IInv, TypeOK, M
<1>3. /\ IsKept(cur) /\ s \in done /\ s \in Symbols
      /\ Deps(s) \subseteq (done \cup cyclic) \ {s}
  BY <1>1, <1>2 DEF TInv, Turns, ActiveSound, Active, Symbols
<1>4. KeptOf(s) = cur
  BY <1>2, <1>3, KeptIs
<1>0. /\ Symbols' = Symbols /\ DefIdx' = DefIdx
      /\ \A j : Def(j)' = Def(j) /\ SymbolOf(j)' = SymbolOf(j)
      /\ \A j : IsKept(j)' <=> IsKept(j)
      /\ \A t : KeptOf(t)' = KeptOf(t) /\ Deps(t)' = Deps(t)
      /\ \A m, c : DepSymbols(m, c)' = DepSymbols(m, c)
  BY <1>1, SameWorld
<1>5. 0 \notin DefIdx /\ \A t \in Symbols : KeptOf(t) \in DefIdx /\ SymbolOf(KeptOf(t)) = t
  BY <1>2, KeptIs DEF DefIdx
<1>6. \A j \in DefIdx : ~ Active(j)' /\ (Active(j) <=> j = cur)
  BY <1>1, <1>5 DEF Active
<1>7. OnCycleReported'
  BY <1>1 DEF TInv, Turns, OnCycleReported
<1>8. ActiveSound' /\ PlacedSound'
  BY <1>0, <1>1, <1>6 DEF TInv, Turns, ActiveSound, PlacedSound
<1>9. new.symbol = s /\ new.reason = "ComponentNotFound" /\ new.comp = comp
  BY DEF Report
<1> HIDE DEF new
<1>10. Settled'
  <2>1. done \subseteq Symbols
    BY DEF TInv, IInv, TypeOK
  <2>2. \A t \in done : Active(KeptOf(t)) => t = s
    BY <1>5, <1>6, <2>1
  <2> HIDE DEF s
  <2> QED
    BY <1>0, <1>1, <1>9, <2>2 DEF TInv, Turns, Settled
<1>11. \A t \in Symbols : Failed(t) => Failed(t)'
  BY <1>0, <1>1, <1>5, <1>6 DEF Failed
<1>12. ASSUME comp = 1, NEW t \in DepSymbols(M, C) \cap Symbols
       PROVE  Failed(t)'
  <2>1. C = Def(cur).oid[1] /\ Def(cur).oid # <<>>
    BY <1>1, <1>12 DEF MoreComponents, C
  <2>2. t \in Deps(s)
    BY <1>2, <1>12, <2>1 DEF Deps
  <2>3. t \in done \cup cyclic /\ t # s
    BY <1>3, <2>2
  <2>4. KeptOf(t) \in DefIdx /\ SymbolOf(KeptOf(t)) = t
    BY <1>5
  <2>5. sym[t[1]][t[2]] = NoPath
    <3>1. CASE C.form = "Name" /\ ~ IsRoot(C) /\ lookup_name(M, C.name) = NoPath
      <4>1. IsNamed(C) /\ C.name \in Name
        BY <1>2, <3>1 DEF IsNamed, Component
      <4> QED
        BY <1>2, <1>12, <3>1, <4>1, LookupMisses
    <3>2. CASE C.form = "QualifiedName" /\ sym[C.module][C.name] = NoPath
      BY <1>12, <3>2 DEF DepSymbols, IsQualified
    <3> QED
      BY <3>1, <3>2 DEF ComponentNotFound
  <2>6. placed[KeptOf(t)] = NoPath
    BY <2>4, <2>5 DEF TInv, Turns, PlacedSound, SymbolOf
  <2> QED
    BY <1>0, <1>1, <1>6, <2>3, <2>4, <2>6 DEF Failed
<1>13. OrphansSound'
  <2> SUFFICES ASSUME NEW r \in reports', r.reason = "ComponentNotFound", r.comp = 1,
                      NEW t \in DepSymbols(Def(KeptOf(r.symbol)).mod,
                                           Def(KeptOf(r.symbol)).oid[1]) \cap Symbols
               PROVE  Failed(t)'
    BY <1>0 DEF OrphansSound
  <2>1. CASE r \in reports
    BY <1>11, <2>1 DEF TInv, Turns, OrphansSound
  <2>2. CASE r = new
    <3>1. KeptOf(r.symbol) = cur /\ comp = 1
      BY <1>4, <1>9, <2>2
    <3>2. C = Def(cur).oid[1]
      BY <3>1 DEF C
    <3> QED
      BY <1>2, <1>12, <3>1, <3>2
  <2> QED
    BY <1>1, <2>1, <2>2
<1> QED
  BY <1>0, <1>1, <1>7, <1>8, <1>10, <1>13 DEF TInv, Turns

\* The definition at hand gets its node and its turn ends.
LEMMA FinalizeTurns ==
  ASSUME TInv, Finalize
  PROVE  Turns'
<1> DEFINE s == SymbolOf(cur)
<1>1. /\ phase = "defs" /\ cur # 0 /\ cur' = 0 /\ Resolving
      /\ UNCHANGED <<world, phase, cyclic, done>>
      /\ placed' = [placed EXCEPT ![cur] = at] /\ sym' = Bind(M, Def(cur).name, at)
      /\ reports' = reports \cup OidReports(NodeAt(at), cur, at)
  BY DEF Finalize, Resolving
<1>2. /\ cur \in DefIdx /\ M \in Module /\ M = Def(cur).mod /\ Def(cur).name \in Name
      /\ world \in Worlds /\ TypeOK /\ TablesOK
  BY <1>1, Context DEF TInv, IInv, TypeOK, M, Definition
<1>3. IsKept(cur) /\ s \in done
  BY <1>1, <1>2 DEF TInv, Turns, ActiveSound, Active
<1>4. at \in Path /\ at # NoPath
  BY <1>2, OidAssumption DEF TypeOK, TreeOK, TablesOK
<1>5. SymGrows /\ sym'[M][Def(cur).name] = at
  BY <1>1, <1>2, <1>4, BindGrows
<1>0. /\ Symbols' = Symbols /\ DefIdx' = DefIdx
      /\ \A j : Def(j)' = Def(j) /\ SymbolOf(j)' = SymbolOf(j)
      /\ \A j : IsKept(j)' <=> IsKept(j)
      /\ \A t : KeptOf(t)' = KeptOf(t) /\ Deps(t)' = Deps(t)
      /\ \A m, c : DepSymbols(m, c)' = DepSymbols(m, c)
  BY <1>1, SameWorld
<1>6. 0 \notin DefIdx /\ \A t \in Symbols : KeptOf(t) \in DefIdx
  BY <1>2, KeptIs DEF DefIdx
<1>7. \A j \in DefIdx : ~ Active(j)' /\ (Active(j) <=> j = cur)
  BY <1>1, <1>6 DEF Active
<1>8. /\ placed'[cur] = at
      /\ \A j \in DefIdx \ {cur} : placed'[j] = placed[j]
  BY <1>1, <1>2 DEF TablesOK
<1>9. \A r \in reports' \ reports : r.reason # "ComponentNotFound"
  BY <1>1 DEF OidReports, Report
<1>10. OnCycleReported'
  BY <1>1 DEF TInv, Turns, OnCycleReported
<1>11. ActiveSound'
  BY <1>0, <1>7 DEF ActiveSound
<1>12. PlacedSound'
  <2>1. \A i \in DefIdx : Def(i).mod \in Module /\ Def(i).name \in Name
    BY <1>2, WorldType DEF Definition
  <2>2. ASSUME NEW i \in DefIdx, placed'[i] # NoPath
        PROVE  /\ IsKept(i) /\ SymbolOf(i) \in done
               /\ sym'[Def(i).mod][Def(i).name] # NoPath
    BY <1>2, <1>3, <1>4, <1>5, <1>8, <2>1, <2>2 DEF TInv, Turns, PlacedSound, SymGrows
  <2> QED
    BY <1>0, <1>1, <2>2 DEF PlacedSound
<1>13. Settled'
  <2>1. done \subseteq Symbols
    BY DEF TInv, IInv, TypeOK
  <2>2. \A t \in done : placed[KeptOf(t)] # NoPath \/ Active(KeptOf(t)) =>
                          placed'[KeptOf(t)] # NoPath
    BY <1>4, <1>6, <1>7, <1>8, <2>1
  <2> QED
    BY <1>0, <1>1, <2>2 DEF TInv, Turns, Settled
<1>14. \A t \in Symbols : Failed(t) => Failed(t)'
  BY <1>0, <1>1, <1>6, <1>7, <1>8 DEF Failed
<1>15. OrphansSound'
  BY <1>0, <1>9, <1>14 DEF TInv, Turns, OrphansSound
<1> QED
  BY <1>0, <1>1, <1>10, <1>11, <1>12, <1>13, <1>15 DEF TInv, Turns

\* The traps begin when every definition has had its turn.
LEMMA BeginTrapsTurns ==
  ASSUME TInv, BeginTraps
  PROVE  Turns'
<1>1. /\ phase = "defs" /\ cur = 0 /\ phase' = "traps" /\ Waiting = {}
      /\ UNCHANGED <<world, cyclic, done, placed, sym, reports>>
  BY DEF BeginTraps
<1>0. /\ Symbols' = Symbols /\ DefIdx' = DefIdx
      /\ \A j : Def(j)' = Def(j) /\ SymbolOf(j)' = SymbolOf(j)
      /\ \A j : IsKept(j)' <=> IsKept(j)
      /\ \A t : KeptOf(t)' = KeptOf(t) /\ Deps(t)' = Deps(t)
      /\ \A m, c : DepSymbols(m, c)' = DepSymbols(m, c)
  BY <1>1, SameWorld
<1>2. /\ world \in Worlds /\ done \subseteq Symbols
      /\ 0 \notin DefIdx /\ \A t \in Symbols : KeptOf(t) \in DefIdx
  BY KeptIs DEF DefIdx, TInv, IInv, TypeOK
<1>3. \A j \in DefIdx : ~ Active(j)' /\ ~ Active(j)
  BY <1>1, <1>2 DEF Active
<1>4. Symbols \subseteq done \cup cyclic
  BY <1>1 DEF Waiting, Symbols
<1>5. OnCycleReported' /\ ActiveSound' /\ PlacedSound'
  BY <1>0, <1>1, <1>3 DEF TInv, Turns, OnCycleReported, ActiveSound, PlacedSound
<1>6. Settled'
  BY <1>0, <1>1, <1>2, <1>3 DEF TInv, Turns, Settled
<1>7. \A t \in Symbols : Failed(t) => Failed(t)'
  BY <1>0, <1>1, <1>2, <1>3 DEF Failed
<1>8. OrphansSound'
  BY <1>0, <1>1, <1>7 DEF TInv, Turns, OrphansSound
<1> QED
  BY <1>0, <1>1, <1>4, <1>5, <1>6, <1>8 DEF TInv, Turns

\* When the traps are done too, nothing else changes.
LEMMA EndTurns ==
  ASSUME TInv, End
  PROVE  Turns'
<1>1. /\ phase = "traps" /\ phase' = "done"
      /\ UNCHANGED <<world, cyclic, done, cur, placed, sym, reports>>
  BY DEF End
<1>0. /\ Symbols' = Symbols /\ DefIdx' = DefIdx
      /\ \A j : Def(j)' = Def(j) /\ SymbolOf(j)' = SymbolOf(j)
      /\ \A j : IsKept(j)' <=> IsKept(j)
      /\ \A t : KeptOf(t)' = KeptOf(t) /\ Deps(t)' = Deps(t)
      /\ \A m, c : DepSymbols(m, c)' = DepSymbols(m, c)
  BY <1>1, SameWorld
<1>2. \A j : ~ Active(j)' /\ ~ Active(j)
  BY <1>1 DEF Active
<1>3. \A t : Failed(t) => Failed(t)'
  BY <1>0, <1>1, <1>2 DEF Failed
<1> QED
  BY <1>0, <1>1, <1>2, <1>3
     DEF TInv, Turns, OnCycleReported, ActiveSound, PlacedSound, Settled, OrphansSound

\* The components of a definition place nothing.
LEMMA ComponentTurns ==
  ASSUME TInv, Number \/ WellKnownRoot \/ NameFound \/ QualifiedFound \/ NumberCreated
  PROVE  Turns'
<1>1. /\ UNCHANGED <<world, phase, cyclic, done, placed, cur, reports>>
      /\ MoreComponents /\ Resolving
  BY DEF Number, WellKnownRoot, NameFound, QualifiedFound, NumberCreated, Advance,
         MoreComponents
<1>2. /\ C \in Component /\ M \in Module /\ TypeOK /\ TablesOK /\ TreeOK
  BY <1>1, Context DEF TInv, IInv, TypeOK
<1>3. C.value \in Arc /\ at \in Path
  BY <1>2 DEF Component, TablesOK, TreeOK
<1>4. SymGrows
  <2>1. CASE Number \/ NameFound
    BY <2>1 DEF Number, NameFound, SymGrows
  <2>2. CASE WellKnownRoot
    <3>1. C.name \in Name /\ RootArc[C.name] \in Arc
      BY <1>2, <2>2, OidAssumption DEF Component, WellKnownRoot, IsRoot, IsNamed
    <3>2. <<RootArc[C.name]>> \in Path
      BY <3>1 DEF Path
    <3>3. sym' = sym \/ (Smi # NoModule /\ sym' = Bind(Smi, C.name, <<RootArc[C.name]>>))
      BY <2>2 DEF WellKnownRoot
    <3>4. Smi \in Module \cup {NoModule}
      BY OidAssumption
    <3> QED
      BY <1>2, <3>1, <3>2, <3>3, <3>4, BindGrows DEF SymGrows
  <2>3. CASE QualifiedFound
    <3>1. C.name \in Name /\ C.module \in Module \cup {NoModule}
      BY <1>2, <2>3 DEF Component, QualifiedFound, IsQualified
    <3>2. sym[C.module][C.name] \in Path
      BY <1>2, <2>3, <3>1 DEF QualifiedFound, TablesOK, TreeOK
    <3>3. sym' = sym \/ sym' = Bind(M, C.name, sym[C.module][C.name])
      BY <2>3 DEF QualifiedFound
    <3> QED
      BY <1>2, <3>1, <3>2, <3>3, BindGrows DEF SymGrows
  <2>4. CASE NumberCreated
    <3>1. C.name \in Name
      BY <1>2, <2>4 DEF Component, NumberCreated
    <3>2. Append(at, C.value) \in Path
      BY <1>3, AppendProperties DEF Path
    <3>3. sym' = Bind(M, C.name, Append(at, C.value))
      BY <2>4 DEF NumberCreated
    <3> QED
      BY <1>2, <3>1, <3>2, <3>3, BindGrows
  <2> QED
    BY <2>1, <2>2, <2>3, <2>4
<1> QED
  BY <1>1, <1>4, TurnsKept

\* The traps find every definition settled.
LEMMA TrapTurns ==
  ASSUME TInv, TrapUnresolved \/ TrapPlaced
  PROVE  Turns'
<1>1. /\ UNCHANGED <<world, phase, cyclic, done, placed>> /\ phase = "traps"
      /\ NextTrap
  BY DEF TrapUnresolved, TrapPlaced, NextTrap
<1>2. /\ T \in Trap /\ EnterpriseNode \in DOMAIN node \cup {NoPath}
      /\ TablesOK /\ TreeOK
  BY <1>1, TrapContext DEF TInv, IInv, TypeOK
<1>3. /\ reports \subseteq reports'
      /\ \A r \in reports' \ reports : r.reason # "ComponentNotFound"
  BY DEF TrapUnresolved, TrapPlaced, Report
<1>4. SymGrows
  <2>1. CASE TrapUnresolved
    BY <2>1 DEF TrapUnresolved, SymGrows
  <2>2. CASE TrapPlaced
    <3>1. EnterpriseNode \in Seq(Arc) /\ T.number \in Arc /\ MaxArc \in Nat
      BY <1>2, <2>2, OidAssumption DEF TrapPlaced, TreeOK, Path, Trap
    <3>2. 0 \in Arc /\ (T.number # MaxArc => T.number + 1 \in Arc)
      BY <3>1 DEF Arc
    <3>3. TrapPath \in Path
      <4>1. CASE EnterpriseNode = SnmpTraps
        BY <2>2, <3>1, <3>2, <4>1, AppendProperties DEF TrapPath, Path, TrapPlaced
      <4>2. CASE EnterpriseNode # SnmpTraps
        <5>1. Append(EnterpriseNode, 0) \in Seq(Arc)
          BY <3>1, <3>2, AppendProperties
        <5> QED
          BY <3>1, <4>2, <5>1, AppendProperties DEF TrapPath, Path
      <4> QED
        BY <4>1, <4>2
    <3>4. sym' = Bind(T.mod, T.name, TrapPath)
      BY <2>2 DEF TrapPlaced
    <3> QED
      BY <1>2, <3>3, <3>4, BindGrows DEF Trap
  <2> QED
    BY <2>1, <2>2
<1> QED
  BY <1>1, <1>3, <1>4, TurnsKept

\* The turns are kept by every step, and so always.
LEMMA TurnsNext == TInv /\ [Next]_vars => TInv'
<1> SUFFICES ASSUME TInv, [Next]_vars PROVE Turns'
  BY NextInv DEF TInv
<1>1. CASE Next
  BY <1>1, ReportCyclesTurns, BeginTurns, ComponentTurns, ComponentNotFoundTurns,
     FinalizeTurns, BeginTrapsTurns, TrapTurns, EndTurns DEF Next
<1>2. CASE UNCHANGED vars
  <2>1. UNCHANGED <<world, phase, cyclic, done, placed, cur, reports, sym>>
    BY <1>2 DEF vars
  <2> QED
    BY <2>1, TurnsKept DEF SymGrows
<1> QED
  BY <1>1, <1>2

LEMMA TurnsAlways == Spec => []TInv
BY TurnsInit, TurnsNext, PTL DEF Spec

\* No definition is lost: when resolve_oids ends, each has its node, no OID at all,
\* or a report that it is on a cycle or that a component is unknown.
THEOREM AccountedHolds == Spec => []Accounted
<1>1. TInv => Accounted
  <2> SUFFICES ASSUME TInv, phase = "done", NEW s \in Symbols
               PROVE  \/ Def(KeptOf(s)).oid = <<>>
                      \/ placed[KeptOf(s)] # NoPath
                      \/ \E r \in reports :
                           /\ r.symbol = s
                           /\ r.reason \in {"DependencyCycle", "ComponentNotFound"}
    BY DEF Accounted
  <2>1. s \in done \cup cyclic
    BY DEF TInv, Turns
  <2>2. ~ Active(KeptOf(s))
    BY DEF Active
  <2> QED
    BY <2>1, <2>2 DEF TInv, Turns, OnCycleReported, Settled
<1> QED
  BY <1>1, TurnsAlways, PTL

\* A parent is reported as unknown only when it stays unknown: the order of
\* resolution never runs ahead of what the first component names.
THEOREM NoFalseOrphanHolds == Spec => []NoFalseOrphan
<1>1. TInv => NoFalseOrphan
  BY DEF TInv, Turns, OrphansSound, Failed, NoFalseOrphan
<1> QED
  BY <1>1, TurnsAlways, PTL

------------------------------------------------------------------------------
(* A name leads to the definition it names.                                *)
(*                                                                         *)
(* ParentsAgree does not hold of every world: a name with a number, and a  *)
(* qualified name with a number, bind the name in the module they are in,  *)
(* and what was looked up before and after then differs.  It holds of the  *)
(* worlds whose references are plain.                                      *)

\* The symbol that the name n means in module m.
NameDeps(m, n) ==
  DepSymbols(m, [form |-> "Name", module |-> NoModule, name |-> n, value |-> 0])

\* Only the first component of an OID names a definition, and when it does numbers
\* follow it; a qualified name with a number does not give a name of the module a
\* second meaning; and the module of the well-known roots does not define them.
Plain ==
  /\ \A i \in DefIdx : \A k \in 2 .. Len(Def(i).oid) :
       /\ DepSymbols(Def(i).mod, Def(i).oid[k]) \cap Symbols = {}
       /\ DepSymbols(Def(i).mod, Def(i).oid[1]) \cap Symbols # {} =>
            Def(i).oid[k].form = "Number"
  /\ \A i \in DefIdx : \A k \in 1 .. Len(Def(i).oid) :
       LET c == Def(i).oid[k]
       IN  c.form = "QualifiedNamedNumber" =>
             ({<<Def(i).mod, c.name>>} \cup NameDeps(Def(i).mod, c.name)) \cap Symbols
               \subseteq {<<c.module, c.name>>}
  /\ \A n \in DOMAIN RootArc : <<Smi, n>> \notin Symbols

\* In its own module a definition's name leads to its node.
OwnNames ==
  \A i \in DefIdx : placed[i] # NoPath => sym[Def(i).mod][Def(i).name] = placed[i]

\* Where a name of another module is bound, it leads to that module's definition.
OtherNames ==
  \A m \in Module, n \in Name : \A s \in NameDeps(m, n) \cap Symbols :
    s # <<m, n>> /\ sym[m][n] # NoPath => sym[m][n] = placed[KeptOf(s)] \/ Failed(s)

\* What the first component names is the node that k components before led to.
LedBy(i, p, k) ==
  \A s \in DepSymbols(Def(i).mod, Def(i).oid[1]) \cap Symbols :
    \/ Failed(s)
    \/ /\ placed[KeptOf(s)] # NoPath
       /\ k <= Len(p) /\ placed[KeptOf(s)] = SubSeq(p, 1, Len(p) - k)

AtSound ==
  \A i \in DefIdx : Active(i) =>
    /\ comp >= 1 /\ Def(i).oid # <<>> /\ comp <= Len(Def(i).oid) + 1
    /\ comp > 1 => LedBy(i, at, comp - 2)

PlacedAt ==
  \A i \in DefIdx : placed[i] # NoPath =>
    Def(i).oid # <<>> /\ LedBy(i, placed[i], Len(Def(i).oid) - 1)

Names ==
  /\ phase = "cycles" => \A m \in Module, n \in Name : sym[m][n] = NoPath
  /\ phase = "defs" => OwnNames /\ OtherNames /\ AtSound
  /\ PlacedAt

NInv == TInv /\ (Plain => Names)

\* The symbol a component names is the one its name means, or the one it qualifies.
LEMMA DepSymbolsIs ==
  ASSUME NEW m, NEW c
  PROVE  /\ IsNamed(c) => DepSymbols(m, c) = NameDeps(m, c.name)
         /\ IsQualified(c) => DepSymbols(m, c) = {<<c.module, c.name>>}
         /\ c.form = "Number" \/ IsRoot(c) => DepSymbols(m, c) = {}
BY DEF NameDeps, DepSymbols, IsNamed, IsQualified, IsRoot

LEMMA NameDepsIs ==
  ASSUME NEW m, NEW n, NEW s \in NameDeps(m, n)
  PROVE  \/ s = <<m, n>>
         \/ /\ ~ Defines(m, n) /\ world.imports[m][n] # NoModule
            /\ s = <<world.imports[m][n], n>>
         \/ /\ ~ Defines(m, n) /\ world.imports[m][n] = NoModule
            /\ world.constrained /\ s = <<Smi, n>>
BY DEF NameDeps, DepSymbols, IsNamed, IsQualified, IsRoot

\* The first of several modules that has a name decides where it leads.
LEMMA FirstInFinds ==
  ASSUME NEW ms \in Seq(Module \cup {NoModule}), NEW n \in Name, NEW i \in 1 .. Len(ms),
         sym[ms[i]][n] # NoPath, \A j \in 1 .. i - 1 : sym[ms[j]][n] = NoPath
  PROVE  FirstIn(ms, n) = sym[ms[i]][n]
<1>1. Len(ms) \in Nat
  BY LenProperties
<1>2. PICK k \in 1 .. Len(ms) : /\ FirstIn(ms, n) = sym[ms[k]][n]
                                /\ sym[ms[k]][n] # NoPath
                                /\ \A j \in 1 .. k - 1 : sym[ms[j]][n] = NoPath
  BY DEF FirstIn
<1>3. ~ (k < i) /\ ~ (i < k)
  BY <1>1, <1>2
<1> QED
  BY <1>1, <1>2, <1>3

\* The module itself, what it imports the name from, and SNMPv2-SMI, in this order.
LEMMA LookupFinds ==
  ASSUME TypeOK, NEW m \in Module, NEW n \in Name
  PROVE  LET X == world.imports[m][n]
         IN  /\ sym[m][n] # NoPath => lookup_name(m, n) = sym[m][n]
             /\ sym[m][n] = NoPath /\ sym[X][n] # NoPath => lookup_name(m, n) = sym[X][n]
             /\ (/\ sym[m][n] = NoPath /\ sym[X][n] = NoPath
                 /\ world.constrained /\ sym[Smi][n] # NoPath)
                  => lookup_name(m, n) = sym[Smi][n]
<1> DEFINE X == world.imports[m][n]
           ms == <<m, X>> \o Fallback
<1>1. X \in Module \cup {NoModule} /\ Smi \in Module \cup {NoModule}
      /\ Rfc \in Module \cup {NoModule}
  BY WorldType, OidAssumption DEF TypeOK
<1>2. lookup_name(m, n) = FirstIn(ms, n)
  BY Zenon DEF lookup_name, Scope, X, ms
<1> HIDE DEF X
<1>3. <<m, X>> \in Seq(Module \cup {NoModule}) /\ Fallback \in Seq(Module \cup {NoModule})
  <2>1. /\ <<m, X>> \in Seq(Module \cup {NoModule})
        /\ <<Smi, Rfc>> \in Seq(Module \cup {NoModule})
        /\ <<>> \in Seq(Module \cup {NoModule})
    BY <1>1
  <2> QED
    BY <2>1 DEF Fallback
<1>4. /\ ms \in Seq(Module \cup {NoModule}) /\ Len(ms) = 2 + Len(Fallback)
      /\ ms[1] = m /\ ms[2] = X /\ (world.constrained => Len(Fallback) = 2 /\ ms[3] = Smi)
  <2>1. Len(<<m, X>>) = 2 /\ <<m, X>>[1] = m /\ <<m, X>>[2] = X
    OBVIOUS
  <2>2. world.constrained => Len(Fallback) = 2 /\ Fallback[1] = Smi
    BY DEF Fallback
  <2>3. Len(Fallback) \in Nat
    BY <1>3, LenProperties
  <2> DEFINE p == <<m, X>>
  <2> HIDE DEF p
  <2>4. /\ p \o Fallback \in Seq(Module \cup {NoModule})
        /\ Len(p \o Fallback) = Len(p) + Len(Fallback)
        /\ \A i \in 1 .. Len(p) + Len(Fallback) :
             (p \o Fallback)[i] = IF i <= Len(p) THEN p[i] ELSE Fallback[i - Len(p)]
    BY <1>3, ConcatProperties DEF p
  <2>5. Len(p) = 2 /\ p[1] = m /\ p[2] = X /\ ms = p \o Fallback
    BY <2>1 DEF p
  <2> HIDE DEF ms
  <2> QED
    BY <2>2, <2>3, <2>4, <2>5
<1> HIDE DEF ms
<1>5. Len(Fallback) \in Nat
  BY <1>3, LenProperties
<1>6. sym[m][n] # NoPath => FirstIn(ms, n) = sym[m][n]
  BY <1>4, <1>5, FirstInFinds
<1>7. sym[m][n] = NoPath /\ sym[X][n] # NoPath => FirstIn(ms, n) = sym[X][n]
  <2> HAVE sym[m][n] = NoPath /\ sym[X][n] # NoPath
  <2>1. \A j \in 1 .. 2 - 1 : sym[ms[j]][n] = NoPath
    BY <1>4
  <2> QED
    BY <1>4, <1>5, <2>1, FirstInFinds
<1>8. (/\ sym[m][n] = NoPath /\ sym[X][n] = NoPath
       /\ world.constrained /\ sym[Smi][n] # NoPath) => FirstIn(ms, n) = sym[Smi][n]
  <2> HAVE sym[m][n] = NoPath /\ sym[X][n] = NoPath
           /\ world.constrained /\ sym[Smi][n] # NoPath
  <2>1. \A j \in 1 .. 3 - 1 : j = 1 \/ j = 2
    OBVIOUS
  <2>2. \A j \in 1 .. 3 - 1 : sym[ms[j]][n] = NoPath
    BY <1>4, <2>1
  <2>3. 3 \in 1 .. Len(ms) /\ ms[3] = Smi
    <3>1. Len(Fallback) = 2 /\ ms[3] = Smi
      BY <1>4, Zenon
    <3> QED
      BY <1>4, <3>1
  <2> QED
    BY <1>4, <2>2, <2>3, FirstInFinds
<1> QED
  BY <1>2, <1>6, <1>7, <1>8 DEF X

\* What precedes the last k + 1 arcs of a longer path precedes the last k of the path.
LEMMA AppendKeepsFront ==
  ASSUME NEW p \in Path, NEW a \in Arc, NEW k \in Nat, k <= Len(p)
  PROVE  /\ Append(p, a) \in Path /\ k + 1 <= Len(Append(p, a))
         /\ SubSeq(Append(p, a), 1, Len(Append(p, a)) - (k + 1))
              = SubSeq(p, 1, Len(p) - k)
<1> DEFINE q == Append(p, a)
<1>1. /\ p \in Seq(Arc) /\ Len(p) \in Nat /\ q \in Seq(Arc) /\ Len(q) = Len(p) + 1
      /\ \A i \in 1 .. Len(p) : q[i] = p[i]
  BY AppendProperties, LenProperties DEF Path
<1> HIDE DEF q
<1>2. Len(q) - (k + 1) = Len(p) - k /\ Len(p) - k \in Nat /\ Len(p) - k <= Len(p)
  BY <1>1
<1> DEFINE l == Len(p) - k
<1>3. l \in Nat /\ l <= Len(p)
  BY <1>2
<1> HIDE DEF l
<1>4. \A i \in 1 .. l : i \in 1 .. Len(p) /\ i \in 1 .. Len(q)
  BY <1>1, <1>3
<1>5. \A i \in 1 .. l : p[i] \in Arc /\ q[i] \in Arc /\ q[i] = p[i]
  BY <1>1, <1>4, ElementOfSeq
<1>6. /\ SubSeq(p, 1, l) \in Seq(Arc) /\ SubSeq(q, 1, l) \in Seq(Arc)
      /\ Len(SubSeq(p, 1, l)) = l /\ Len(SubSeq(q, 1, l)) = l
      /\ \A i \in 1 .. l : SubSeq(p, 1, l)[i] = p[i] /\ SubSeq(q, 1, l)[i] = q[i]
  <2>1. 1 \in Int /\ l \in Int /\ l - 1 + 1 = l /\ (IF 1 <= l THEN l - 1 + 1 ELSE 0) = l
        /\ \A i \in 1 .. l : 1 + i - 1 = i
    BY <1>3
  <2>2. /\ SubSeq(p, 1, l) \in Seq(Arc)
        /\ Len(SubSeq(p, 1, l)) = IF 1 <= l THEN l - 1 + 1 ELSE 0
        /\ \A i \in 1 .. l - 1 + 1 : SubSeq(p, 1, l)[i] = p[1 + i - 1]
    BY <1>5, <2>1, SubSeqProperties
  <2>3. /\ SubSeq(q, 1, l) \in Seq(Arc)
        /\ Len(SubSeq(q, 1, l)) = IF 1 <= l THEN l - 1 + 1 ELSE 0
        /\ \A i \in 1 .. l - 1 + 1 : SubSeq(q, 1, l)[i] = q[1 + i - 1]
    BY <1>5, <2>1, SubSeqProperties
  <2> QED
    BY <2>1, <2>2, <2>3
<1>7. SubSeq(p, 1, l) = SubSeq(q, 1, l)
  BY <1>5, <1>6, SeqEqual
<1>8. SubSeq(q, 1, Len(q) - (k + 1)) = SubSeq(p, 1, Len(p) - k)
  BY <1>2, <1>7 DEF l
<1>9. q \in Path /\ k + 1 <= Len(q)
  BY <1>1 DEF Path
<1> QED
  BY <1>8, <1>9 DEF q

\* Nothing placed is placed anew, and what has failed never gets a node.
LEMMA StepFrame ==
  ASSUME TInv, Next
  PROVE  /\ world' = world
         /\ \A i \in DefIdx : placed[i] # NoPath => placed'[i] = placed[i]
         /\ phase # "cycles" => \A s \in Symbols : Failed(s) => Failed(s)'
<1>1. world' = world
  BY DEF Next, ReportCycles, Begin, Number, WellKnownRoot, NameFound, QualifiedFound,
         NumberCreated, ComponentNotFound, Finalize, BeginTraps, TrapUnresolved,
         TrapPlaced, NextTrap, End, Advance
<1>2. /\ DefIdx' = DefIdx /\ 0 \notin DefIdx /\ world \in Worlds /\ TypeOK /\ TablesOK
      /\ \A s : KeptOf(s)' = KeptOf(s)
      /\ \A s \in Symbols : KeptOf(s) \in DefIdx /\ SymbolOf(KeptOf(s)) = s
  BY <1>1, SameWorld, KeptIs DEF TInv, IInv, TypeOK, DefIdx
<1>3. CASE UNCHANGED <<phase, done, cyclic, cur, placed>>
  BY <1>1, <1>2, <1>3 DEF Failed, Active
<1>4. ASSUME NEW i \in DefIdx, Begin(i)
      PROVE  /\ \A j \in DefIdx : placed[j] # NoPath => placed'[j] = placed[j]
             /\ \A s \in Symbols : Failed(s) => Failed(s)'
  <2>1. /\ cur' \in {0, i} /\ done' = done \cup {SymbolOf(i)}
        /\ UNCHANGED <<placed, cyclic>> /\ SymbolOf(i) \notin done \cup cyclic
    BY <1>4 DEF Begin, Ready
  <2> QED
    BY <1>2, <2>1 DEF Failed, Active
<1>5. CASE phase' # phase \/ phase = "traps"
  <2>1. ~ (phase' = "defs" /\ phase # "cycles") /\ placed' = placed
        /\ (phase # "cycles" => UNCHANGED <<done, cyclic>>)
    BY <1>5 DEF Next, ReportCycles, Begin, Number, WellKnownRoot, NameFound,
       QualifiedFound, NumberCreated, ComponentNotFound, Finalize, BeginTraps,
       TrapUnresolved, TrapPlaced, NextTrap, End, Advance, Resolving, MoreComponents
  <2> QED
    BY <1>1, <1>2, <2>1 DEF Failed, Active
<1>6. CASE ComponentNotFound
  <2>1. cur' = 0 /\ UNCHANGED <<phase, done, cyclic, placed>>
    BY <1>6 DEF ComponentNotFound
  <2> QED
    BY <1>1, <1>2, <2>1 DEF Failed, Active
<1>7. CASE Finalize
  <2>1. /\ cur' = 0 /\ UNCHANGED <<phase, done, cyclic>> /\ phase = "defs"
        /\ placed' = [placed EXCEPT ![cur] = at] /\ cur \in DefIdx
    BY <1>2, <1>7, Context DEF Finalize, Resolving, TInv, IInv
  <2>2. placed[cur] = NoPath
    BY <2>1 DEF TInv, Turns, ActiveSound, Active
  <2>3. \A i \in DefIdx \ {cur} : placed'[i] = placed[i]
    BY <2>1, <1>2 DEF TablesOK
  <2> QED
    BY <1>1, <1>2, <2>1, <2>2, <2>3 DEF Failed, Active
<1>8. \/ \E i \in DefIdx : Begin(i)
      \/ UNCHANGED <<phase, done, cyclic, cur, placed>>
      \/ phase' # phase \/ phase = "traps" \/ ComponentNotFound \/ Finalize
  BY DEF Next, ReportCycles, Number, WellKnownRoot, NameFound,
     QualifiedFound, NumberCreated, BeginTraps,
     TrapUnresolved, TrapPlaced, NextTrap, End, Advance, Resolving, MoreComponents
<1> QED
  BY <1>1, <1>3, <1>4, <1>5, <1>6, <1>7, <1>8

\* While the names stay what they were, so does what is known of them.
LEMMA WorldNames ==
  ASSUME world' = world
  PROVE  /\ Plain' <=> Plain
         /\ \A m, n : NameDeps(m, n)' = NameDeps(m, n)
         /\ \A s : KeptOf(s)' = KeptOf(s)
         /\ \A m, c : DepSymbols(m, c)' = DepSymbols(m, c)
         /\ Symbols' = Symbols /\ DefIdx' = DefIdx
         /\ \A i : Def(i)' = Def(i) /\ SymbolOf(i)' = SymbolOf(i)
<1>1. \A m, n : NameDeps(m, n)' = NameDeps(m, n)
  BY SameWorld DEF NameDeps
<1> QED
  BY <1>1, SameWorld DEF Plain

\* What the first component of the definition at hand names has its node or has
\* failed by now.
LEMMA FirstHadItsTurn ==
  ASSUME TInv, Resolving, NEW s \in DepSymbols(M, Def(cur).oid[1]) \cap Symbols,
         Def(cur).oid # <<>>
  PROVE  Failed(s) \/ placed[KeptOf(s)] # NoPath
<1>1. /\ cur \in DefIdx /\ M = Def(cur).mod /\ world \in Worlds
  BY Context DEF TInv, IInv, TypeOK, M
<1>2. s \in Deps(SymbolOf(cur))
  BY <1>1 DEF Deps
<1>3. s \in (done \cup cyclic) \ {SymbolOf(cur)}
  BY <1>1, <1>2 DEF TInv, Turns, ActiveSound, Active, Resolving
<1>4. KeptOf(s) # cur
  BY <1>1, <1>3, KeptIs
<1> QED
  BY <1>3, <1>4 DEF Failed, Active

\* Binding a name to what it means keeps the names.
LEMMA BindKeepsNames ==
  ASSUME TInv, UNCHANGED <<world, phase, cyclic, done, cur, placed>>,
         OwnNames, OtherNames,
         NEW m \in Module, NEW n \in Name, NEW p, sym' = Bind(m, n, p),
         \A i \in DefIdx : placed[i] # NoPath /\ SymbolOf(i) = <<m, n>> => p = placed[i],
         \A s \in NameDeps(m, n) \cap Symbols :
           s # <<m, n>> => p = placed[KeptOf(s)] \/ Failed(s)
  PROVE  OwnNames' /\ OtherNames'
<1>1. /\ DefIdx' = DefIdx /\ Symbols' = Symbols
      /\ \A i : Def(i)' = Def(i)
      /\ \A s : KeptOf(s)' = KeptOf(s)
      /\ \A k, l : NameDeps(k, l)' = NameDeps(k, l)
  BY WorldNames
<1>2. \A s : Failed(s)' <=> Failed(s)
  BY <1>1 DEF Failed, Active
<1>3. \A k \in Module, l \in Name :
        sym'[k][l] = IF k = m /\ l = n THEN p ELSE sym[k][l]
  BY DEF TInv, IInv, TypeOK, TablesOK, Bind
<1>4. \A i \in DefIdx : Def(i).mod \in Module /\ Def(i).name \in Name
  BY WorldType DEF TInv, IInv, TypeOK, Definition
<1>5. OwnNames'
  BY <1>1, <1>3, <1>4 DEF OwnNames, SymbolOf
<1>6. OtherNames'
  BY <1>1, <1>2, <1>3 DEF OtherNames
<1> QED
  BY <1>5, <1>6

\* A name leads to the definition it means, if that has a node.
LEMMA NameLeads ==
  ASSUME TInv, OwnNames, OtherNames, NEW m \in Module, NEW n \in Name,
         NEW s \in NameDeps(m, n) \cap Symbols, ~ Failed(s), placed[KeptOf(s)] # NoPath
  PROVE  lookup_name(m, n) = placed[KeptOf(s)]
<1> DEFINE i == KeptOf(s)
           X == world.imports[m][n]
<1>1. /\ TypeOK /\ world \in Worlds /\ i \in DefIdx /\ SymbolOf(i) = s
      /\ \A k \in Name : sym[NoModule][k] = NoPath
  BY KeptIs DEF TInv, IInv, TypeOK, TablesOK
<1>2. sym[s[1]][s[2]] = placed[i]
  BY <1>1 DEF OwnNames, SymbolOf
<1>3. s # <<m, n>> /\ sym[m][n] # NoPath => sym[m][n] = placed[i]
  BY DEF OtherNames
<1>4. /\ sym[m][n] # NoPath => lookup_name(m, n) = sym[m][n]
      /\ sym[m][n] = NoPath /\ sym[X][n] # NoPath => lookup_name(m, n) = sym[X][n]
      /\ (/\ sym[m][n] = NoPath /\ sym[X][n] = NoPath
          /\ world.constrained /\ sym[Smi][n] # NoPath) => lookup_name(m, n) = sym[Smi][n]
  BY <1>1, LookupFinds
<1> HIDE DEF i, X
<1>5. CASE s = <<m, n>>
  BY <1>2, <1>4, <1>5 DEF i
<1>6. CASE s # <<m, n>> /\ sym[m][n] # NoPath
  BY <1>3, <1>4, <1>6 DEF i
<1>7. CASE sym[m][n] = NoPath /\ s = <<X, n>>
  BY <1>2, <1>4, <1>7 DEF i
<1>8. CASE sym[m][n] = NoPath /\ X = NoModule /\ world.constrained /\ s = <<Smi, n>>
  <2>1. sym[X][n] = NoPath /\ sym[Smi][n] = placed[i] /\ placed[i] # NoPath
    BY <1>1, <1>2, <1>8 DEF i
  <2>2. lookup_name(m, n) = sym[Smi][n]
    BY <1>4, <1>8, <2>1
  <2> QED
    BY <2>1, <2>2 DEF i
<1> QED
  BY <1>5, <1>6, <1>7, <1>8, NameDepsIs DEF X, i

\* A component that is not found has nothing placed among what it means.
LEMMA MissingMeansUnplaced ==
  ASSUME TInv, NEW m \in Module, NEW n \in Name, lookup_name(m, n) = NoPath,
         NEW s \in NameDeps(m, n) \cap Symbols
  PROVE  placed[KeptOf(s)] = NoPath
<1> DEFINE c == [form |-> "Name", module |-> NoModule, name |-> n, value |-> 0]
<1>1. sym[s[1]][s[2]] = NoPath
  <2>1. c.name = n /\ IsNamed(c) /\ s \in DepSymbols(m, c) /\ TypeOK
    BY DEF IsNamed, NameDeps, TInv, IInv
  <2> HIDE DEF c
  <2> QED
    BY <2>1, LookupMisses
<1>2. KeptOf(s) \in DefIdx /\ SymbolOf(KeptOf(s)) = s
  BY KeptIs DEF TInv, IInv, TypeOK
<1> QED
  BY <1>1, <1>2 DEF TInv, Turns, PlacedSound, SymbolOf

\* A component that binds no name, or its name to what that means, keeps the names.
LEMMA ComponentNames ==
  ASSUME TInv, Plain, Names, MoreComponents, comp \in Nat,
         UNCHANGED <<world, phase, cyclic, done, cur, placed>>, comp' = comp + 1,
         OwnNames' /\ OtherNames',
         comp = 1 => LedBy(cur, at', 0),
         comp > 1 => \/ DepSymbols(M, Def(cur).oid[1]) \cap Symbols = {}
                     \/ C.form = "Number" /\ at' = Append(at, C.value)
  PROVE  Names'
<1>1. /\ phase = "defs" /\ cur \in DefIdx /\ M = Def(cur).mod /\ C \in Component
      /\ Resolving /\ at \in Path /\ Len(Def(cur).oid) \in Nat
  <2>1. Resolving /\ Def(cur) \in Definition /\ cur \in DefIdx /\ C \in Component
    BY Context DEF TInv, IInv, MoreComponents
  <2> QED
    BY <2>1 DEF Resolving, M, Definition, TInv, IInv, TypeOK, TablesOK, TreeOK
<1>2. /\ DefIdx' = DefIdx /\ Symbols' = Symbols
      /\ \A i : Def(i)' = Def(i)
      /\ \A s : KeptOf(s)' = KeptOf(s)
      /\ \A m, c : DepSymbols(m, c)' = DepSymbols(m, c)
  BY WorldNames
<1>3. /\ \A s : Failed(s)' <=> Failed(s)
      /\ \A i : Active(i)' <=> Active(i)
  BY <1>2 DEF Failed, Active
<1>4. \A i, p, k : LedBy(i, p, k)' <=> LedBy(i, p, k)
  BY <1>2, <1>3 DEF LedBy
<1>5. PlacedAt'
  BY <1>2, <1>4 DEF Names, PlacedAt
<1>6. /\ comp >= 1 /\ comp <= Len(Def(cur).oid) /\ Def(cur).oid # <<>>
      /\ comp > 1 => LedBy(cur, at, comp - 2)
  BY <1>1 DEF Names, AtSound, Active, MoreComponents, Resolving
<1>7. LedBy(cur, at', comp - 1)
  <2>1. CASE comp = 1
    BY <2>1
  <2>2. CASE comp > 1 /\ DepSymbols(M, Def(cur).oid[1]) \cap Symbols = {}
    BY <1>1, <2>2 DEF LedBy
  <2>3. CASE comp > 1 /\ C.form = "Number" /\ at' = Append(at, C.value)
    <3>1. C.value \in Arc
      BY <1>1 DEF Component
    <3>2. comp - 2 \in Nat /\ (comp - 2) + 1 = comp - 1
      BY <2>3
    <3>3. comp - 2 <= Len(at) => /\ comp - 1 <= Len(at')
                                 /\ SubSeq(at', 1, Len(at') - (comp - 1))
                                      = SubSeq(at, 1, Len(at) - (comp - 2))
      <4> DEFINE k == comp - 2
      <4>1. k \in Nat /\ k + 1 = comp - 1
        BY <3>2
      <4> HIDE DEF k
      <4>2. k <= Len(at) => /\ k + 1 <= Len(at')
                            /\ SubSeq(at', 1, Len(at') - (k + 1))
                                 = SubSeq(at, 1, Len(at) - k)
        BY <1>1, <2>3, <3>1, <4>1, AppendKeepsFront
      <4> QED
        BY <4>1, <4>2 DEF k
    <3> QED
      BY <1>6, <2>3, <3>3 DEF LedBy
  <2> QED
    BY <1>6, <2>1, <2>2, <2>3
<1>8. AtSound'
  <2>1. \A i \in DefIdx : Active(i) <=> i = cur
    BY <1>1 DEF Active
  <2>2. comp' >= 1 /\ comp' <= Len(Def(cur).oid) + 1 /\ comp' - 2 = comp - 1
    BY <1>1, <1>6
  <2>3. \A s \in DepSymbols(Def(cur).mod, Def(cur).oid[1]) \cap Symbols :
          \/ Failed(s)
          \/ /\ placed[KeptOf(s)] # NoPath /\ comp' - 2 <= Len(at')
             /\ placed[KeptOf(s)] = SubSeq(at', 1, Len(at') - (comp' - 2))
    BY <1>7, <2>2 DEF LedBy
  <2> QED
    BY <1>2, <1>3, <1>6, <2>1, <2>2, <2>3 DEF AtSound, LedBy
<1> QED
  BY <1>1, <1>5, <1>8 DEF Names

\* What plain references say of the component at hand.
LEMMA PlainHere ==
  ASSUME TInv, Plain, Names, MoreComponents
  PROVE  /\ phase = "defs" /\ Resolving /\ OwnNames /\ OtherNames
         /\ cur \in DefIdx /\ M = Def(cur).mod /\ M \in Module /\ C \in Component
         /\ comp \in Nat /\ comp >= 1 /\ Def(cur).oid # <<>>
         /\ comp = 1 => C = Def(cur).oid[1]
         /\ comp > 1 => /\ DepSymbols(M, C) \cap Symbols = {}
                        /\ \/ DepSymbols(M, Def(cur).oid[1]) \cap Symbols = {}
                           \/ C.form = "Number"
         /\ C.form = "QualifiedNamedNumber" =>
              ({<<M, C.name>>} \cup NameDeps(M, C.name)) \cap Symbols
                \subseteq {<<C.module, C.name>>}
<1>1. /\ Resolving /\ phase = "defs" /\ comp <= Len(Def(cur).oid)
      /\ C = Def(cur).oid[comp] /\ M = Def(cur).mod
  BY DEF MoreComponents, Resolving, C, M
<1>2. /\ cur \in DefIdx /\ M \in Module /\ C \in Component /\ comp \in Nat
      /\ Len(Def(cur).oid) \in Nat
  <2>1. Def(cur) \in Definition /\ cur \in DefIdx /\ C \in Component /\ M \in Module
    BY <1>1, Context DEF TInv, IInv
  <2> QED
    BY <2>1 DEF Definition, TInv, IInv, TypeOK
<1>3. OwnNames /\ OtherNames /\ AtSound
  BY <1>1 DEF Names
<1>4. comp >= 1 /\ Def(cur).oid # <<>>
  BY <1>1, <1>2, <1>3 DEF AtSound, Active
<1>5. comp \in 1 .. Len(Def(cur).oid) /\ (comp > 1 => comp \in 2 .. Len(Def(cur).oid))
  BY <1>1, <1>2, <1>4
<1>6. comp > 1 => /\ DepSymbols(M, C) \cap Symbols = {}
                  /\ \/ DepSymbols(M, Def(cur).oid[1]) \cap Symbols = {}
                     \/ C.form = "Number"
  BY <1>1, <1>2, <1>5 DEF Plain
<1>7. C.form = "QualifiedNamedNumber" =>
        ({<<M, C.name>>} \cup NameDeps(M, C.name)) \cap Symbols
          \subseteq {<<C.module, C.name>>}
  BY <1>1, <1>2, <1>5 DEF Plain
<1> QED
  BY <1>1, <1>2, <1>3, <1>4, <1>6, <1>7

\* The names do not change with what they do not depend on.
LEMMA SameNames ==
  ASSUME OwnNames, OtherNames, UNCHANGED <<world, phase, cyclic, done, cur, placed, sym>>
  PROVE  OwnNames' /\ OtherNames'
<1>1. /\ DefIdx' = DefIdx /\ Symbols' = Symbols
      /\ \A i : Def(i)' = Def(i)
      /\ \A s : KeptOf(s)' = KeptOf(s)
      /\ \A k, l : NameDeps(k, l)' = NameDeps(k, l)
  BY WorldNames
<1>2. \A s : Failed(s)' <=> Failed(s)
  BY <1>1 DEF Failed, Active
<1> QED
  BY <1>1, <1>2 DEF OwnNames, OtherNames

\* A number goes one level down and names nothing.
LEMMA NumberNames ==
  ASSUME TInv, Plain, Names, Number
  PROVE  Names'
<1>1. /\ MoreComponents /\ C.form = "Number" /\ at' = Append(at, C.value)
      /\ UNCHANGED <<world, phase, cyclic, done, cur, placed, sym>> /\ comp' = comp + 1
  BY DEF Number, Advance
<1>2. OwnNames' /\ OtherNames' /\ comp \in Nat
  BY <1>1, SameNames, PlainHere
<1>3. comp = 1 => LedBy(cur, at', 0)
  <2>1. comp = 1 => DepSymbols(Def(cur).mod, Def(cur).oid[1]) = {}
    BY <1>1, PlainHere, DepSymbolsIs
  <2> QED
    BY <2>1 DEF LedBy
<1> QED
  BY <1>1, <1>2, <1>3, ComponentNames

\* A well-known root is named in SNMPv2-SMI, which does not define it.
LEMMA WellKnownRootNames ==
  ASSUME TInv, Plain, Names, WellKnownRoot
  PROVE  Names'
<1> DEFINE p == <<RootArc[C.name]>>
<1>1. /\ MoreComponents /\ IsRoot(C) /\ at' = p
      /\ UNCHANGED <<world, phase, cyclic, done, cur, placed>> /\ comp' = comp + 1
      /\ sym' = sym \/ (Smi # NoModule /\ sym' = Bind(Smi, C.name, p))
  BY DEF WellKnownRoot, Advance
<1>2. /\ C \in Component /\ C.form # "Number" /\ OwnNames /\ OtherNames /\ comp \in Nat
      /\ M = Def(cur).mod /\ (comp = 1 => C = Def(cur).oid[1])
  BY <1>1, PlainHere DEF IsRoot, IsNamed
<1>3. C.name \in Name /\ C.name \in DOMAIN RootArc /\ (Smi # NoModule => Smi \in Module)
  BY <1>1, <1>2, OidAssumption DEF Component, IsRoot, IsNamed
<1>4. <<Smi, C.name>> \notin Symbols /\ NameDeps(Smi, C.name) = {}
  BY <1>3 DEF Plain, NameDeps, DepSymbols, IsRoot, IsNamed, IsQualified
<1>5. OwnNames' /\ OtherNames'
  <2>1. CASE sym' = sym
    BY <1>1, <1>2, <2>1, SameNames
  <2>2. CASE Smi # NoModule /\ sym' = Bind(Smi, C.name, p)
    <3> HIDE DEF p
    <3>1. \A i \in DefIdx : SymbolOf(i) # <<Smi, C.name>>
      BY <1>4 DEF Symbols
    <3> QED
      BY <1>1, <1>2, <1>3, <1>4, <2>2, <3>1, BindKeepsNames
  <2> QED
    BY <1>1, <2>1, <2>2
<1>6. DepSymbols(M, C) = {}
  BY <1>1, DepSymbolsIs
<1>7. comp = 1 => LedBy(cur, at', 0)
  BY <1>2, <1>6 DEF LedBy
<1>8. comp > 1 => DepSymbols(M, Def(cur).oid[1]) \cap Symbols = {}
  BY <1>1, <1>2, PlainHere
<1> QED
  BY <1>1, <1>2, <1>5, <1>7, <1>8, ComponentNames

\* A path without its last 0 arcs.
LEMMA WholePath ==
  ASSUME NEW p \in Path
  PROVE  0 <= Len(p) /\ SubSeq(p, 1, Len(p) - 0) = p
<1>1. Len(p) \in Nat /\ Len(p) - 0 = Len(p)
  BY LenProperties DEF Path
<1>2. SubSeq(p, 1, Len(p)) = p
  BY SubSeqFull DEF Path
<1> QED
  BY <1>1, <1>2

\* A name that is found leads to what it means.
LEMMA NameFoundNames ==
  ASSUME TInv, Plain, Names, NameFound
  PROVE  Names'
<1> DEFINE p == lookup_name(M, C.name)
<1>1. /\ MoreComponents /\ IsNamed(C) /\ at' = p /\ p # NoPath
      /\ UNCHANGED <<world, phase, cyclic, done, cur, placed, sym>> /\ comp' = comp + 1
  BY DEF NameFound, Advance
<1>2. /\ C \in Component /\ C.form # "Number" /\ OwnNames /\ OtherNames /\ comp \in Nat
      /\ M = Def(cur).mod /\ M \in Module /\ (comp = 1 => C = Def(cur).oid[1])
      /\ Resolving /\ Def(cur).oid # <<>>
  BY <1>1, PlainHere DEF IsNamed
<1>3. C.name \in Name
  BY <1>1, <1>2 DEF Component, IsNamed
<1>4. p \in Path
  BY <1>1, <1>2, <1>3, LookupType DEF TInv, IInv, TypeOK, TreeOK
<1>5. comp = 1 => LedBy(cur, at', 0)
  <2> SUFFICES ASSUME comp = 1, NEW s \in DepSymbols(M, C) \cap Symbols, ~ Failed(s)
               PROVE  placed[KeptOf(s)] # NoPath /\ placed[KeptOf(s)] = p
    BY <1>1, <1>2, <1>4, WholePath DEF LedBy
  <2>1. placed[KeptOf(s)] # NoPath
    BY <1>2, FirstHadItsTurn
  <2>2. s \in NameDeps(M, C.name) \cap Symbols
    BY <1>1, DepSymbolsIs
  <2> QED
    BY <1>2, <1>3, <2>1, <2>2, NameLeads
<1>6. comp > 1 => DepSymbols(M, Def(cur).oid[1]) \cap Symbols = {}
  BY <1>1, <1>2, PlainHere
<1>7. OwnNames' /\ OtherNames'
  BY <1>1, <1>2, SameNames
<1> HIDE DEF p
<1> QED
  BY <1>1, <1>2, <1>5, <1>6, <1>7, ComponentNames

\* A qualified name leads to what it qualifies, and with a number it binds the name
\* in the module to just that.
LEMMA QualifiedFoundNames ==
  ASSUME TInv, Plain, Names, QualifiedFound
  PROVE  Names'
<1> DEFINE p == sym[C.module][C.name]
           q == <<C.module, C.name>>
<1>1. /\ MoreComponents /\ IsQualified(C) /\ at' = p /\ p # NoPath
      /\ UNCHANGED <<world, phase, cyclic, done, cur, placed>> /\ comp' = comp + 1
      /\ sym' = sym \/ (C.form = "QualifiedNamedNumber" /\ sym' = Bind(M, C.name, p))
  BY DEF QualifiedFound, Advance, IsQualified
<1>2. /\ C \in Component /\ C.form # "Number" /\ OwnNames /\ OtherNames /\ comp \in Nat
      /\ M = Def(cur).mod /\ M \in Module /\ (comp = 1 => C = Def(cur).oid[1])
      /\ Resolving /\ Def(cur).oid # <<>>
  BY <1>1, PlainHere DEF IsQualified
<1>3. C.name \in Name /\ C.module \in Module \cup {NoModule}
  BY <1>1, <1>2 DEF Component, IsQualified
<1>4. p \in Path
  BY <1>1, <1>3 DEF TInv, IInv, TypeOK, TreeOK, TablesOK
<1>5. DepSymbols(M, C) = {q}
  BY <1>1, DepSymbolsIs
<1>6. \A s \in Symbols : KeptOf(s) \in DefIdx /\ SymbolOf(KeptOf(s)) = s
  BY KeptIs DEF TInv, IInv, TypeOK
<1>7. q \in Symbols /\ placed[KeptOf(q)] # NoPath => p = placed[KeptOf(q)]
  BY <1>2, <1>6 DEF OwnNames, SymbolOf
<1>8. comp = 1 /\ q \in Symbols => Failed(q) \/ placed[KeptOf(q)] # NoPath
  BY <1>2, <1>5, FirstHadItsTurn
<1>9. comp > 1 => q \notin Symbols
  BY <1>1, <1>5, PlainHere
<1>10. comp = 1 => LedBy(cur, at', 0)
  <2> SUFFICES ASSUME comp = 1, NEW s \in DepSymbols(M, C) \cap Symbols, ~ Failed(s)
               PROVE  placed[KeptOf(s)] # NoPath /\ placed[KeptOf(s)] = p
    BY <1>1, <1>2, <1>4, WholePath DEF LedBy
  <2> QED
    BY <1>5, <1>7, <1>8
<1>11. comp > 1 => DepSymbols(M, Def(cur).oid[1]) \cap Symbols = {}
  BY <1>1, <1>2, PlainHere
<1>12. OwnNames' /\ OtherNames'
  <2>1. CASE sym' = sym
    BY <1>1, <1>2, <2>1, SameNames
  <2>2. CASE C.form = "QualifiedNamedNumber" /\ sym' = Bind(M, C.name, p)
    <3>1. ({<<M, C.name>>} \cup NameDeps(M, C.name)) \cap Symbols \subseteq {q}
      BY <1>1, <2>2, PlainHere
    <3>2. ASSUME NEW i \in DefIdx, placed[i] # NoPath, SymbolOf(i) = <<M, C.name>>
          PROVE  p = placed[i]
      <4>1. <<M, C.name>> \in Symbols
        BY <3>2 DEF Symbols
      <4>2. KeptOf(SymbolOf(i)) = i
        BY <3>2, KeptIs DEF TInv, IInv, TypeOK, Turns, PlacedSound
      <4> QED
        BY <1>7, <3>1, <3>2, <4>1, <4>2
    <3>3. ASSUME NEW s \in NameDeps(M, C.name) \cap Symbols
          PROVE  p = placed[KeptOf(s)] \/ Failed(s)
      <4>1. s = q /\ q \in Symbols
        BY <3>1
      <4>2. comp = 1
        BY <1>2, <1>9, <4>1, <1>1, PlainHere
      <4> QED
        BY <1>7, <1>8, <4>1, <4>2
    <3> HIDE DEF p
    <3> QED
      BY <1>1, <1>2, <1>3, <2>2, <3>2, <3>3, BindKeepsNames
  <2> QED
    BY <1>1, <2>1, <2>2
<1> HIDE DEF p
<1> QED
  BY <1>1, <1>2, <1>10, <1>11, <1>12, ComponentNames

\* A new name has no definition with a node, or is that of one.
LEMMA NumberCreatedNames ==
  ASSUME TInv, Plain, Names, NumberCreated
  PROVE  Names'
<1> DEFINE p == Append(at, C.value)
<1>1. /\ MoreComponents /\ at' = p /\ sym' = Bind(M, C.name, p)
      /\ UNCHANGED <<world, phase, cyclic, done, cur, placed>> /\ comp' = comp + 1
      /\ \/ C.form = "NamedNumber" /\ ~ IsRoot(C) /\ lookup_name(M, C.name) = NoPath
         \/ C.form = "QualifiedNamedNumber" /\ sym[C.module][C.name] = NoPath
  BY DEF NumberCreated, Advance
<1>2. /\ C \in Component /\ C.form # "Number" /\ OwnNames /\ OtherNames /\ comp \in Nat
      /\ M = Def(cur).mod /\ M \in Module /\ (comp = 1 => C = Def(cur).oid[1])
      /\ Resolving /\ Def(cur).oid # <<>> /\ comp >= 1
  BY <1>1, PlainHere
<1>3. C.name \in Name
  BY <1>1, <1>2 DEF Component
<1> HIDE DEF p
<1>4. \A s \in DepSymbols(M, C) \cap Symbols : placed[KeptOf(s)] = NoPath
  <2>1. CASE C.form = "NamedNumber" /\ lookup_name(M, C.name) = NoPath
    BY <1>2, <1>3, <2>1, MissingMeansUnplaced, DepSymbolsIs DEF IsNamed
  <2>2. CASE C.form = "QualifiedNamedNumber" /\ sym[C.module][C.name] = NoPath
    <3>1. \A s \in Symbols : KeptOf(s) \in DefIdx /\ SymbolOf(KeptOf(s)) = s
      BY KeptIs DEF TInv, IInv, TypeOK
    <3>2. DepSymbols(M, C) = {<<C.module, C.name>>}
      BY <2>2, DepSymbolsIs DEF IsQualified
    <3> QED
      BY <2>2, <3>1, <3>2 DEF TInv, Turns, PlacedSound, SymbolOf
  <2> QED
    BY <1>1, <2>1, <2>2
<1>5. comp = 1 => \A s \in DepSymbols(M, C) \cap Symbols : Failed(s)
  BY <1>2, <1>4, FirstHadItsTurn
<1>6. comp > 1 => /\ DepSymbols(M, C) \cap Symbols = {}
                  /\ DepSymbols(M, Def(cur).oid[1]) \cap Symbols = {}
  BY <1>1, <1>2, PlainHere
<1>7. \A s \in DepSymbols(M, C) \cap Symbols : Failed(s)
  BY <1>2, <1>5, <1>6
<1>8. (NameDeps(M, C.name) \cup {<<M, C.name>>}) \cap Symbols
        \subseteq DepSymbols(M, C) \cup {<<M, C.name>>}
  <2>1. CASE C.form = "NamedNumber"
    BY <2>1, DepSymbolsIs DEF IsNamed
  <2>2. CASE C.form = "QualifiedNamedNumber"
    <3>1. ({<<M, C.name>>} \cup NameDeps(M, C.name)) \cap Symbols
            \subseteq {<<C.module, C.name>>}
      BY <1>1, <2>2, PlainHere
    <3>2. DepSymbols(M, C) = {<<C.module, C.name>>}
      BY <2>2, DepSymbolsIs DEF IsQualified
    <3> QED
      BY <3>1, <3>2
  <2> QED
    BY <1>1, <2>1, <2>2
<1>9. \A i \in DefIdx : SymbolOf(i) = <<M, C.name>> => placed[i] = NoPath
  <2> SUFFICES ASSUME NEW i \in DefIdx, SymbolOf(i) = <<M, C.name>>, placed[i] # NoPath
               PROVE  FALSE
    OBVIOUS
  <2>1. sym[M][C.name] = placed[i]
    BY <1>2 DEF OwnNames, SymbolOf
  <2>2. lookup_name(M, C.name) = sym[M][C.name]
    BY <1>2, <1>3, <2>1, LookupFinds DEF TInv, IInv
  <2>3. CASE C.form = "NamedNumber" /\ lookup_name(M, C.name) = NoPath
    BY <2>1, <2>2, <2>3
  <2>4. CASE C.form = "QualifiedNamedNumber" /\ sym[C.module][C.name] = NoPath
    <3>1. <<M, C.name>> \in Symbols
      BY DEF Symbols
    <3>2. <<M, C.name>> = <<C.module, C.name>>
      BY <1>1, <2>4, <3>1, PlainHere
    <3> QED
      BY <2>1, <2>4, <3>2
  <2> QED
    BY <1>1, <2>3, <2>4
<1>10. OwnNames' /\ OtherNames'
  <2>1. \A s \in NameDeps(M, C.name) \cap Symbols : s # <<M, C.name>> => Failed(s)
    BY <1>7, <1>8
  <2> QED
    BY <1>1, <1>2, <1>3, <1>9, <2>1, BindKeepsNames
<1>11. comp = 1 => LedBy(cur, at', 0)
  BY <1>2, <1>7 DEF LedBy
<1> QED
  BY <1>1, <1>2, <1>6, <1>10, <1>11, ComponentNames

\* What the first component of a definition led to does not change afterwards.
LEMMA LedByStays ==
  ASSUME TInv, Next, phase # "cycles", NEW i, NEW p, NEW k, LedBy(i, p, k)
  PROVE  LedBy(i, p, k)'
<1>1. /\ Symbols' = Symbols /\ DefIdx' = DefIdx
      /\ \A j : Def(j)' = Def(j)
      /\ \A s : KeptOf(s)' = KeptOf(s)
      /\ \A m, c : DepSymbols(m, c)' = DepSymbols(m, c)
  BY StepFrame, WorldNames
<1>2. \A s \in Symbols : KeptOf(s) \in DefIdx
  BY KeptIs DEF TInv, IInv, TypeOK
<1> QED
  BY <1>1, <1>2, StepFrame DEF LedBy

\* Nor do the names while none is bound and nothing is placed.
LEMMA QuietNames ==
  ASSUME TInv, Next, phase # "cycles", OwnNames, OtherNames, sym' = sym, placed' = placed
  PROVE  OwnNames' /\ OtherNames'
<1>1. /\ Symbols' = Symbols /\ DefIdx' = DefIdx
      /\ \A j : Def(j)' = Def(j)
      /\ \A s : KeptOf(s)' = KeptOf(s)
      /\ \A m, n : NameDeps(m, n)' = NameDeps(m, n)
  BY StepFrame, WorldNames
<1> QED
  BY <1>1, StepFrame DEF OwnNames, OtherNames

\* A turn that begins, or is given up, places nothing and binds nothing.
LEMMA TurnNames ==
  ASSUME TInv, Names, Next, \/ \E i \in DefIdx : Begin(i)
                            \/ ComponentNotFound
  PROVE  Names'
<1>1. /\ phase = "defs" /\ phase' = "defs" /\ sym' = sym /\ placed' = placed
      /\ world' = world
  BY DEF Begin, ComponentNotFound, MoreComponents, Resolving
<1>2. OwnNames' /\ OtherNames'
  BY <1>1, QuietNames DEF Names
<1>3. DefIdx' = DefIdx /\ (\A j : Def(j)' = Def(j)) /\ 0 \notin DefIdx
  BY <1>1, WorldNames DEF DefIdx
<1>4. PlacedAt'
  BY <1>1, <1>3, LedByStays DEF Names, PlacedAt
<1>5. AtSound'
  <2>1. CASE ComponentNotFound
    BY <1>3, <2>1 DEF ComponentNotFound, AtSound, Active
  <2>2. ASSUME NEW i \in DefIdx, Begin(i) PROVE AtSound'
    <3>1. \A j \in DefIdx : Active(j)' => j = i /\ Def(i).oid # <<>>
      BY <1>3, <2>2 DEF Begin, Active
    <3>2. comp' = 1 /\ Len(Def(i).oid) \in Nat
      BY <2>2, WorldType DEF Begin, Definition, TInv, IInv, TypeOK
    <3> QED
      BY <1>3, <3>1, <3>2 DEF AtSound
  <2> QED
    BY <2>1, <2>2
<1> QED
  BY <1>1, <1>2, <1>4, <1>5 DEF Names

\* A definition's node is where its first component led and numbers after that.
LEMMA FinalizeNames ==
  ASSUME TInv, Names, Next, Finalize
  PROVE  Names'
<1>1. /\ phase = "defs" /\ phase' = "defs" /\ cur' = 0 /\ Resolving /\ cur # 0
      /\ placed' = [placed EXCEPT ![cur] = at] /\ sym' = Bind(M, Def(cur).name, at)
      /\ comp > Len(Def(cur).oid) /\ world' = world
  BY DEF Finalize, Resolving
<1>2. /\ cur \in DefIdx /\ M \in Module /\ M = Def(cur).mod /\ Def(cur).name \in Name
      /\ Len(Def(cur).oid) \in Nat /\ comp \in Nat
      /\ world \in Worlds /\ TypeOK /\ TablesOK
  <2>1. Def(cur) \in Definition /\ cur \in DefIdx
    BY <1>1, Context DEF TInv, IInv
  <2> QED
    BY <2>1 DEF M, Definition, TInv, IInv, TypeOK
<1>3. /\ Symbols' = Symbols /\ DefIdx' = DefIdx /\ 0 \notin DefIdx
      /\ \A j : Def(j)' = Def(j)
      /\ \A s : KeptOf(s)' = KeptOf(s)
      /\ \A m, n : NameDeps(m, n)' = NameDeps(m, n)
  BY <1>1, WorldNames DEF DefIdx
<1>4. OwnNames /\ OtherNames /\ AtSound /\ PlacedAt
  BY <1>1 DEF Names
<1>5. /\ placed'[cur] = at
      /\ \A j \in DefIdx \ {cur} : placed'[j] = placed[j]
  BY <1>1, <1>2 DEF TablesOK
<1>6. \A m \in Module, n \in Name :
        sym'[m][n] = IF m = M /\ n = Def(cur).name THEN at ELSE sym[m][n]
  BY <1>1, <1>2 DEF TablesOK, Bind
<1>7. IsKept(cur)
  BY <1>1, <1>2 DEF TInv, Turns, ActiveSound, Active
<1>8. \A i \in DefIdx : Def(i).mod \in Module /\ Def(i).name \in Name
  BY <1>2, WorldType DEF Definition
<1>9. OwnNames'
  <2>1. ASSUME NEW j \in DefIdx, placed[j] # NoPath, j # cur
        PROVE  ~ (Def(j).mod = M /\ Def(j).name = Def(cur).name)
    <3>1. IsKept(j)
      BY <2>1 DEF TInv, Turns, PlacedSound
    <3> QED
      BY <1>2, <1>7, <2>1, <3>1, KeptIs DEF SymbolOf
  <2> QED
    BY <1>2, <1>3, <1>4, <1>5, <1>6, <1>8, <2>1 DEF OwnNames
<1>10. OtherNames'
  <2>1. \A s \in NameDeps(M, Def(cur).name) : s = <<M, Def(cur).name>>
    <3>1. Defines(M, Def(cur).name)
      BY <1>2 DEF Defines, Symbols, SymbolOf
    <3> QED
      BY <3>1, NameDepsIs
  <2>2. \A s \in Symbols : /\ Failed(s) => Failed(s)'
                           /\ placed[KeptOf(s)] # NoPath =>
                                placed'[KeptOf(s)] = placed[KeptOf(s)]
    BY <1>1, <1>2, KeptIs, StepFrame
  <2> QED
    BY <1>2, <1>3, <1>4, <1>6, <2>1, <2>2 DEF OtherNames
<1>11. PlacedAt'
  <2>1. /\ Def(cur).oid # <<>>
        /\ LedBy(cur, at, Len(Def(cur).oid) - 1)
    <3>1. /\ comp >= 1 /\ Def(cur).oid # <<>> /\ comp <= Len(Def(cur).oid) + 1
          /\ comp > 1 => LedBy(cur, at, comp - 2)
      BY <1>1, <1>2, <1>4 DEF AtSound, Active
    <3>2. Len(Def(cur).oid) > 0
      <4>1. Def(cur).oid \in Seq(Component)
        BY <1>2, WorldType DEF Definition
      <4> QED
        BY <3>1, <4>1, EmptySeq
    <3>3. comp > 1 /\ comp - 2 = Len(Def(cur).oid) - 1
      BY <1>1, <1>2, <3>1, <3>2
    <3> QED
      BY <3>1, <3>3
  <2>2. ASSUME NEW i, NEW p, NEW k, LedBy(i, p, k) PROVE LedBy(i, p, k)'
    BY <1>1, <2>2, LedByStays
  <2>3. ASSUME NEW i \in DefIdx, placed'[i] # NoPath
        PROVE  /\ Def(i).oid # <<>>
               /\ LedBy(i, placed'[i], Len(Def(i).oid) - 1)
    BY <1>4, <1>5, <2>1, <2>3 DEF PlacedAt
  <2>4. \A i \in DefIdx : \A p : LedBy(i, p, Len(Def(i).oid) - 1) =>
          LedBy(i, p, Len(Def(i).oid) - 1)'
    BY <1>3, <2>2
  <2> QED
    BY <1>3, <2>3, <2>4 DEF PlacedAt, LedBy
<1>12. AtSound'
  BY <1>1, <1>3 DEF AtSound, Active
<1> QED
  BY <1>1, <1>9, <1>10, <1>11, <1>12 DEF Names

\* Nothing is placed before the turns, nor by the traps after them.
LEMMA OtherStepNames ==
  ASSUME TInv, Names, Next,
         ReportCycles \/ BeginTraps \/ TrapUnresolved \/ TrapPlaced \/ End
  PROVE  Names'
<1>1. /\ world' = world /\ placed' = placed
      /\ phase = "cycles" \/ phase' \notin {"cycles", "defs"}
      /\ phase = "cycles" => phase' = "defs" /\ sym' = sym /\ cur' = cur
  BY DEF ReportCycles, BeginTraps, TrapUnresolved, TrapPlaced, NextTrap, End
<1>2. /\ DefIdx' = DefIdx /\ 0 \notin DefIdx
      /\ \A j : Def(j)' = Def(j)
      /\ \A m, n : NameDeps(m, n)' = NameDeps(m, n)
  BY <1>1, WorldNames DEF DefIdx
<1>3. CASE phase = "cycles"
  <2>1. \A i \in DefIdx : placed[i] = NoPath
    BY <1>3 DEF TInv, Turns, OnCycleReported, PlacedSound
  <2>2. cur' = 0
    BY <1>1, <1>3 DEF TInv, IInv, CurOK
  <2> QED
    BY <1>1, <1>2, <1>3, <2>1, <2>2
       DEF Names, OwnNames, OtherNames, AtSound, PlacedAt, Active
<1>4. CASE phase # "cycles"
  <2>1. PlacedAt'
    BY <1>1, <1>2, <1>4, LedByStays DEF Names, PlacedAt
  <2> QED
    BY <1>1, <1>4, <2>1 DEF Names
<1> QED
  BY <1>3, <1>4

\* At the start no name is bound and nothing is placed.
LEMMA NamesInit == Init => NInv
<1> SUFFICES ASSUME Init PROVE Names
  BY TurnsInit DEF NInv
<1> QED
  BY DEF Init, Names, PlacedAt

\* Plain references keep the names at every step.
LEMMA NamesNext == NInv /\ [Next]_vars => NInv'
<1> SUFFICES ASSUME NInv, [Next]_vars, Plain' PROVE Names'
  BY TurnsNext DEF NInv
<1>1. TInv
  BY DEF NInv
<1>2. CASE Next
  <2>1. Plain /\ Names
    BY <1>1, <1>2, StepFrame, WorldNames DEF NInv
  <2> QED
    BY <1>1, <1>2, <2>1, NumberNames, WellKnownRootNames, NameFoundNames,
       QualifiedFoundNames, NumberCreatedNames, TurnNames, FinalizeNames, OtherStepNames
       DEF Next
<1>3. CASE UNCHANGED vars
  <2>1. UNCHANGED <<world, phase, cyclic, done, cur, comp, at, placed, sym>>
    BY <1>3 DEF vars
  <2>2. Plain /\ Names
    BY <2>1, WorldNames DEF NInv
  <2>3. /\ DefIdx' = DefIdx /\ Symbols' = Symbols
        /\ \A i : Def(i)' = Def(i)
        /\ \A s : KeptOf(s)' = KeptOf(s)
        /\ \A m, c : DepSymbols(m, c)' = DepSymbols(m, c)
    BY <2>1, WorldNames
  <2>4. /\ \A s : Failed(s)' <=> Failed(s)
        /\ \A i : Active(i)' <=> Active(i)
    BY <2>1, <2>3 DEF Failed, Active
  <2>5. OwnNames /\ OtherNames => OwnNames' /\ OtherNames'
    BY <2>1, SameNames
  <2>6. PlacedAt' /\ (AtSound => AtSound')
    BY <2>1, <2>2, <2>3, <2>4 DEF Names, PlacedAt, AtSound, LedBy
  <2> QED
    BY <2>1, <2>2, <2>5, <2>6 DEF Names
<1> QED
  BY <1>2, <1>3

\* The numeric OID of a definition extends that of the definition it refers to,
\* whichever of the two was resolved first and in whichever modules they are, where
\* the references are plain.
THEOREM ParentsAgreeHolds == Spec => [](Plain => ParentsAgree)
<1>1. NInv => (Plain => ParentsAgree)
  <2> SUFFICES ASSUME NInv, Plain, NEW i \in DefIdx, placed[i] # NoPath,
                      NEW k \in 1 .. Len(Def(i).oid),
                      NEW s \in DepSymbols(Def(i).mod, Def(i).oid[k]),
                      s \in Symbols, placed[KeptOf(s)] # NoPath
               PROVE  placed[KeptOf(s)] =
                        SubSeq(placed[i], 1, Len(placed[i]) - (Len(Def(i).oid) - k))
    BY DEF ParentsAgree
  <2>1. Len(Def(i).oid) \in Nat
    BY WorldType DEF NInv, TInv, IInv, TypeOK, Definition
  <2>2. k = 1
    BY <2>1 DEF Plain
  <2> QED
    BY <2>2 DEF NInv, Names, PlacedAt, LedBy, Failed
<1> QED
  BY <1>1, NamesInit, NamesNext, PTL DEF Spec

==============================================================================
