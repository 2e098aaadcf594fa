--------------------------- MODULE SemanticsProofs ---------------------------
(***************************************************************************)
(* What the semantic phase keeps for all modules, names, nodes and worlds. *)
(* Two passes decide about a node without each other, one about its kind   *)
(* and one about the object it carries: both keep the definition that the  *)
(* order of preference puts first, so that they agree.  The lookups of     *)
(* objects find the same from the creation of the last object on, so that  *)
(* what one pass reports is what another fails to link.                    *)
(***************************************************************************)
EXTENDS Trace, FiniteSetTheorems, SequenceTheorems, TLAPS

(* The order of preference. *)

Stamp == [date : Nat, time : Nat]

\* A normalized timestamp is a date and a time, whatever the text.
LEMMA StampType ==
  ASSUME NEW ts \in Timestamps
  PROVE  normalize_timestamp(ts) \in Stamp
<1>1. FullYear(ts) \in Nat
  BY DEF Timestamps, FullYear
<1> QED
  BY <1>1, SMT DEF Timestamps, normalize_timestamp, Stamp

\* A language has a rank among the numbers.
LEMMA RankType ==
  ASSUME NEW language \in Languages
  PROVE  language_rank(language) \in Nat
BY DEF Languages, language_rank

\* Of two timestamps at most one is the later, and later is transitive.
LEMMA LaterIsStrict ==
  ASSUME NEW x \in Stamp, NEW y \in Stamp, NEW z \in Stamp
  PROVE  /\ ~ Later(x, x)
         /\ Later(x, y) /\ Later(y, z) => Later(x, z)
BY DEF Stamp, Later

\* The decision of should_prefer_module is a strict order on the modules.
LEMMA OverrulesIsStrict ==
  ASSUME NEW facts \in [Module -> ModuleFacts],
         NEW k \in Module, NEW m \in Module, NEW n \in Module
  PROVE  /\ ~ Overrules(facts, m, m)
         /\ Overrules(facts, k, m) /\ Overrules(facts, m, n) => Overrules(facts, k, n)
<1> DEFINE rank(x) == language_rank(facts[x].language)
           stamp(x) == normalize_timestamp(facts[x].updated)
<1>1. \A x \in Module : /\ facts[x].base \in BOOLEAN
                        /\ rank(x) \in Nat
                        /\ stamp(x) \in Stamp
                        /\ NameOrder[x] \in Nat
  BY RankType, StampType, ModuleAssumption DEF ModuleFacts
<1>2. \A x, y \in Module :
        Overrules(facts, x, y) <=>
          \/ facts[x].base /\ ~ facts[y].base
          \/ /\ facts[x].base = facts[y].base
             /\ \/ rank(x) > rank(y)
                \/ /\ rank(x) = rank(y)
                   /\ \/ Later(stamp(x), stamp(y))
                      \/ /\ stamp(x) = stamp(y)
                         /\ NameOrder[x] < NameOrder[y]
  BY DEF Overrules
<1> HIDE DEF rank, stamp
<1>3. ~ Overrules(facts, m, m)
  BY <1>1, <1>2, LaterIsStrict
<1>4. ASSUME Overrules(facts, k, m), Overrules(facts, m, n)
      PROVE  Overrules(facts, k, n)
  <2>1. /\ Later(stamp(k), stamp(m)) /\ Later(stamp(m), stamp(n))
             => Later(stamp(k), stamp(n))
    BY <1>1, LaterIsStrict
  <2> QED
    BY <1>1, <1>2, <1>4, <2>1
<1> QED
  BY <1>3, <1>4

(* Numbers. *)

\* A set of naturals that is not empty has a smallest member.
LEMMA SmallestMember ==
  ASSUME NEW S \in SUBSET Nat, S # {}
  PROVE  \E x \in S : \A y \in S : x <= y
<1>1. \A x, y \in Nat : y < x => <<y, x>> \in OpToRel(<, Nat)
  BY DEF OpToRel
<1>2. PICK x \in S : \A y \in S : ~ (<<y, x>> \in OpToRel(<, Nat))
  BY WFMin, NatLessThanWellFounded
<1>3. \A y \in S : ~ (y < x)
  BY <1>1, <1>2
<1> QED
  BY <1>3

\* First is the smallest member.
LEMMA FirstIsLeast ==
  ASSUME NEW S \in SUBSET Nat, S # {}
  PROVE  First(S) \in S /\ \A e \in S : First(S) <= e
BY SmallestMember DEF First

------------------------------------------------------------------------------
(* The passes. *)

\* The place of each pass.
LEMMA RankOf ==
  /\ Rank("structures") = 1 /\ Rank("kinds") = 2 /\ Rank("columns") = 3
  /\ Rank("objects") = 4 /\ Rank("validate") = 5 /\ Rank("link") = 6
  /\ Rank("nesting") = 7 /\ Rank("Notification") = 8 /\ Rank("Group") = 9
  /\ Rank("Compliance") = 10 /\ Rank("Capability") = 11 /\ Rank("done") = 12
<1>1. DOMAIN Passes = 1 .. 12
  BY DEF Passes
<1>2. \A j, k \in 1 .. 12 : Passes[j] = Passes[k] => j = k
  BY DEF Passes
<1>3. \A k \in 1 .. 12 : Rank(Passes[k]) = k
  BY <1>1, <1>2 DEF Rank
<1> QED
  BY <1>3 DEF Passes

PassNames == {Passes[k] : k \in DOMAIN Passes}

\* The definitions a pass has dealt with.
Done(p) == IF pass = p THEN Work(p) \ todo ELSE IF After(p) THEN Work(p) ELSE {}

\* The facts of the world, and what the passes keep of their own.
Typed ==
  /\ world \in Worlds
  /\ pass \in PassNames
  /\ todo \subseteq Work(pass)
  /\ \A d \in Work(pass) \ todo, e \in todo : d < e
  /\ pass \in {"structures", "columns", "done"} => todo = {}
  /\ kind \in [Node -> Kinds] /\ kindModule \in [Node -> Module \cup {NoModule}]
  /\ rowNodes \subseteq Node
  /\ created \subseteq Defs
  /\ \A d \in Defs : Def(d).sort = "Object" => (d \in created <=> d \in Done("objects"))
  /\ attached \in [Sorts -> [Node -> Defs \cup {0}]]
  /\ index \in [Defs -> Seq([name : Name, object : Defs \cup {0}])]
  /\ augments \in [Defs -> Defs \cup {0}]
  /\ augmentedBy \in [Defs -> Seq(Defs)]

\* What the assumption on Worlds says of the world of a state.
LEMMA WorldType ==
  ASSUME world \in Worlds
  PROVE  /\ world.facts \in [Module -> ModuleFacts]
         /\ Defs = 1 .. Len(world.defs) /\ Len(world.defs) \in Nat
         /\ \A d \in Defs : Def(d) \in Definition
         /\ world.symbols \in [Module -> [Name -> Node \cup {NoNode}]]
         /\ world.imports \in [Module -> [Name -> Module \cup {NoModule}]]
         /\ world.named \in [Name -> Seq(Node)]
         /\ world.kind \in [Node -> PlainKinds]
<1>1. world \in World
  BY SemanticsAssumption
<1>2. world.defs \in Seq(Definition)
  BY <1>1 DEF World
<1>3. /\ Len(world.defs) \in Nat /\ DOMAIN world.defs = 1 .. Len(world.defs)
      /\ world.defs \in [1 .. Len(world.defs) -> Definition]
  BY <1>2, LenProperties
<1>4. \A d \in Defs : Def(d) \in Definition
  BY <1>3 DEF Defs, Def
<1> QED
  BY <1>1, <1>3, <1>4 DEF World, Defs

\* A definition is numbered, and has a module and a name; its node is one or none.
LEMMA DefFacts ==
  ASSUME world \in Worlds, NEW d \in Defs
  PROVE  /\ d \in Nat /\ d # 0
         /\ Def(d).module \in Module /\ Def(d).name \in Name /\ Def(d).sort \in Sorts
         /\ NodeOf(d) \in Node \cup {NoNode}
         /\ Def(d).index \in Seq(Name) /\ Def(d).augments \in Name \cup {NoName}
         /\ ObjectKind(d) \in {"Table", "Row", "Scalar"}
<1>1. Def(d) \in Definition
  BY WorldType
<1>2. Def(d).module \in Module /\ Def(d).name \in Name
  BY <1>1 DEF Definition
<1>3. NodeOf(d) \in Node \cup {NoNode}
  BY <1>2, WorldType DEF NodeOf
<1> QED
  BY <1>1, <1>2, <1>3, WorldType DEF Definition, ObjectKind

LEMMA WorkIsDefs == \A p : Work(p) \subseteq Defs
BY DEF Work

\* Four passes go through the objects.
LEMMA ObjectWork ==
  /\ Work("kinds") = {d \in Defs : Def(d).sort = "Object"}
  /\ Work("objects") = {d \in Defs : Def(d).sort = "Object"}
  /\ Work("link") = {d \in Defs : Def(d).sort = "Object"}
BY DEF Work

\* After the creation of the objects the passes up to it are done.
LEMMA AfterObjects ==
  ASSUME pass \in PassNames, After("objects")
  PROVE  /\ After("kinds") /\ After("columns")
         /\ Done("kinds") = Work("kinds") /\ Done("objects") = Work("objects")
<1>1. Rank(pass) \in Nat
  BY RankOf DEF PassNames, Passes
<1>2. After("kinds") /\ After("columns")
  BY <1>1, RankOf DEF After
<1> QED
  BY <1>2, RankOf DEF Done, After

\* The definitions of a pass are of one world.
LEMMA WorkStays ==
  ASSUME world' = world
  PROVE  \A p : Work(p)' = Work(p)
BY DEF Work, Defs, Def

\* The pass comes to the least definition it has left.
LEMMA ComesFacts ==
  ASSUME Typed, NEW p, NEW d \in Defs, Comes(p, d)
  PROVE  /\ p = pass /\ pass' = pass /\ d \in todo /\ d \in Work(p) /\ todo' = todo \ {d}
         /\ \A e \in todo : e # d => d < e
<1>1. todo \in SUBSET Nat
  BY WorkIsDefs, DefFacts DEF Typed
<1>2. d \in todo /\ \A e \in todo : d <= e
  BY <1>1, FirstIsLeast DEF Comes
<1> QED
  BY <1>1, <1>2 DEF Typed, Comes

\* Dealing with a definition adds it to those its pass has dealt with, after all of them.
LEMMA DoneComes ==
  ASSUME Typed, NEW p, NEW d \in Defs, Comes(p, d), world' = world
  PROVE  /\ d \notin Done(p) /\ Done(p)' = Done(p) \cup {d} /\ \A e \in Done(p) : e < d
         /\ \A q : q # p => Done(q)' = Done(q)
         /\ \A q : After(q)' <=> After(q)
<1>1. /\ p = pass /\ pass' = pass /\ d \in todo /\ d \in Work(p) /\ todo' = todo \ {d}
  BY ComesFacts
<1>2. \A q : After(q)' <=> After(q)
  BY <1>1 DEF After, Rank, Passes
<1>3. \A q : Work(q)' = Work(q)
  BY WorkStays
<1>4. \A e \in Done(p) : e < d
  BY <1>1 DEF Done, Typed
<1> QED
  BY <1>1, <1>2, <1>3, <1>4 DEF Done

\* A pass that has nothing left and one that is to begin count the same.
LEMMA DoneStart ==
  ASSUME Typed, todo = {}, world' = world,
         NEW k \in 1 .. 11, pass = Passes[k], StartPass(Passes[k + 1])
  PROVE  /\ \A j \in 1 .. 12 : Done(Passes[j])' = Done(Passes[j])
         /\ \A j \in 1 .. 12 : (After(Passes[j]) <=> k > j) /\ (After(Passes[j])' <=> k + 1 > j)
<1>1. \A j \in 1 .. 12 : Rank(Passes[j]) = j
  BY RankOf DEF Passes
<1>2. pass' = Passes[k + 1] /\ todo' = Work(Passes[k + 1])
  BY DEF StartPass
<1>3. \A j \in 1 .. 12 : Work(Passes[j])' = Work(Passes[j])
  BY WorkStays
<1>4. \A j \in 1 .. 12 : (After(Passes[j]) <=> k > j) /\ (After(Passes[j])' <=> k + 1 > j)
  BY <1>1, <1>2 DEF After, Passes
<1>5. \A i, j \in 1 .. 12 : Passes[i] = Passes[j] => i = j
  BY <1>1
<1>6. \A j \in 1 .. 12 : Done(Passes[j])' = Done(Passes[j])
  <2> TAKE j \in 1 .. 12
  <2>0. k + 1 \in 1 .. 12 /\ k \in 1 .. 12
    OBVIOUS
  <2>1. CASE j = k
    BY <1>2, <1>3, <1>4, <1>5, <2>0, <2>1 DEF Done
  <2>2. CASE j = k + 1
    BY <1>2, <1>3, <1>4, <1>5, <2>0, <2>2 DEF Done
  <2>3. CASE j < k
    BY <1>2, <1>3, <1>4, <1>5, <2>0, <2>3 DEF Done
  <2>4. CASE j > k + 1
    BY <1>2, <1>3, <1>4, <1>5, <2>0, <2>4 DEF Done
  <2> QED
    BY <2>1, <2>2, <2>3, <2>4
<1> QED
  BY <1>4, <1>6

\* A pass that begins has its definitions before it, and nothing of it is done.
LEMMA PassMoves ==
  ASSUME Typed, CollectStructures \/ NextPass \/ ReclassifyColumns
  PROVE  /\ world' = world /\ todo = {}
         /\ \A p \in PassNames : Done(p)' = Done(p) /\ (After(p) => After(p)')
         /\ \A p \in PassNames : After(p)' /\ ~ After(p) => p = pass
         /\ pass' \in PassNames
         /\ todo' \subseteq Work(pass)'
         /\ \A d \in (Work(pass) \ todo)', e \in todo' : d < e
         /\ pass' \in {"structures", "columns", "done"} => todo' = {}
<1>1. world' = world /\ todo = {}
  BY DEF Typed, CollectStructures, NextPass, ReclassifyColumns
<1>2. PICK k \in 1 .. 11 : pass = Passes[k] /\ StartPass(Passes[k + 1])
  <2>1. CASE CollectStructures
    <3>1. Passes[1] = "structures" /\ Passes[1 + 1] = "kinds" /\ 1 \in 1 .. 11
      BY DEF Passes
    <3> QED
      BY <2>1, <3>1 DEF CollectStructures
  <2>2. CASE ReclassifyColumns
    <3>1. Passes[3] = "columns" /\ Passes[3 + 1] = "objects" /\ 3 \in 1 .. 11
      BY DEF Passes
    <3> QED
      BY <2>2, <3>1 DEF ReclassifyColumns
  <2>3. CASE NextPass
    <3>1. PICK k \in DOMAIN Passes : Passes[k] = pass /\ StartPass(Passes[k + 1])
      BY <2>3 DEF NextPass
    <3>2. k \in 1 .. 12 /\ k # 12
      BY <2>3, <3>1 DEF NextPass, Passes
    <3> QED
      BY <3>1, <3>2
  <2> QED
    BY <2>1, <2>2, <2>3
<1>3. /\ \A j \in 1 .. 12 : Done(Passes[j])' = Done(Passes[j])
      /\ \A j \in 1 .. 12 : (After(Passes[j]) <=> k > j) /\ (After(Passes[j])' <=> k + 1 > j)
  BY <1>1, <1>2, DoneStart
<1>4. PassNames = {Passes[j] : j \in 1 .. 12}
  BY DEF PassNames, Passes
<1>5. k + 1 \in 1 .. 12 /\ pass' = Passes[k + 1] /\ todo' = Work(Passes[k + 1])
  BY <1>2 DEF StartPass
<1>6. todo' = Work(pass)'
  BY <1>1, <1>5, WorkStays
<1>7. pass' \in {"structures", "columns", "done"} => todo' = {}
  <2>1. ASSUME NEW d \in todo', pass' \in {"structures", "columns", "done"}  PROVE FALSE
    <3>1. d \in Defs /\ Def(d).sort = pass'
      BY <1>5, <2>1 DEF Work
    <3> QED
      BY <2>1, <3>1, DefFacts DEF Sorts, Typed
  <2> QED
    BY <2>1
<1>8. \A p \in PassNames : Done(p)' = Done(p) /\ (After(p) => After(p)')
  BY <1>3, <1>4
<1>9. \A p \in PassNames : After(p)' /\ ~ After(p) => p = pass
  BY <1>2, <1>3, <1>4
<1> QED
  BY <1>1, <1>4, <1>5, <1>6, <1>7, <1>8, <1>9

\* A pass that comes to a definition goes on.
LEMMA PassGoesOn ==
  ASSUME Typed, NEW p, NEW d \in Defs, Comes(p, d), world' = world
  PROVE  /\ pass' \in PassNames
         /\ todo' \subseteq Work(pass)'
         /\ \A c \in (Work(pass) \ todo)', e \in todo' : c < e
         /\ pass' \in {"structures", "columns", "done"} => todo' = {}
<1>1. /\ p = pass /\ pass' = pass /\ d \in todo /\ d \in Work(p) /\ todo' = todo \ {d}
      /\ \A e \in todo : e # d => d < e
  BY ComesFacts
<1>2. Work(pass)' = Work(pass)
  BY <1>1, WorkStays
<1>3. (Work(pass) \ todo)' = (Work(pass) \ todo) \cup {d}
  BY <1>1, <1>2
<1> QED
  BY <1>1, <1>2, <1>3 DEF Typed

------------------------------------------------------------------------------
(* What the lookups find. *)

\* Among definitions, First finds one of them or none.
LEMMA FirstOfDefs ==
  ASSUME world \in Worlds, NEW S \in SUBSET Defs
  PROVE  /\ S = {} => First(S) = 0
         /\ S # {} => First(S) \in S
BY DefFacts, FirstIsLeast DEF First

\* An object found in a module has its name.
LEMMA ModuleObjectFinds ==
  ASSUME Typed, NEW m, NEW n
  PROVE  LET S == {d \in created : Def(d).sort = "Object" /\ Def(d).module = m /\ Def(d).name = n}
         IN /\ S = {} => ModuleObject(m, n) = 0
            /\ S # {} => ModuleObject(m, n) \in S
            /\ ModuleObject(m, n) \in Defs \cup {0}
<1> DEFINE S == {d \in created : Def(d).sort = "Object" /\ Def(d).module = m /\ Def(d).name = n}
<1>1. S \in SUBSET Defs /\ world \in Worlds
  BY DEF Typed
<1>2. ModuleObject(m, n) = First(S)
  BY DEF ModuleObject
<1> QED
  BY <1>1, <1>2, FirstOfDefs

\* The lookups of objects find objects.
LEMMA LookupType ==
  ASSUME Typed, NEW m \in Module, NEW n \in Name
  PROVE  /\ ScopeObject(m, n) \in Defs \cup {0}
         /\ lookup_object_by_name(m, n) \in Defs \cup {0}
<1>1. ScopeObject(m, n) \in Defs \cup {0}
  BY ModuleObjectFinds DEF ScopeObject
<1>2. object_by_name(n) \in Defs \cup {0}
  <2> DEFINE candidates == {d \in created : Def(d).sort = "Object" /\ Def(d).name = n}
             nodes == world.named[n]
             carrying == {k \in DOMAIN nodes : attached["Object"][nodes[k]] \in candidates}
  <2>1. nodes \in Seq(Node)
    BY WorldType DEF Typed
  <2>2. DOMAIN nodes \subseteq Nat
    BY <2>1, LenProperties
  <2>3. candidates \subseteq Defs
    BY DEF Typed
  <2>4. First(candidates) \in Defs \cup {0}
    BY <2>3, FirstOfDefs DEF Typed
  <2>5. carrying # {} => First(carrying) \in carrying
    BY <2>2, FirstIsLeast
  <2>6. carrying # {} => attached["Object"][nodes[First(carrying)]] \in candidates
    BY <2>5
  <2>7. object_by_name(n) = IF carrying # {} THEN attached["Object"][nodes[First(carrying)]]
                            ELSE First(candidates)
    BY DEF object_by_name
  <2> QED
    BY <2>3, <2>4, <2>6, <2>7
<1> QED
  BY <1>1, <1>2 DEF lookup_object_by_name

------------------------------------------------------------------------------
(* The types. *)

Linking == [name : Name, object : Defs \cup {0}]

\* The parts of Typed that no pass but the first ones and the links touches.
LEMMA TypedInit == Init => Typed
<1> SUFFICES ASSUME Init PROVE Typed
  OBVIOUS
<1>1. world \in Worlds /\ pass = "structures" /\ todo = {}
  BY DEF Init
<1>2. pass \in PassNames
  BY <1>1 DEF PassNames, Passes
<1>3. kind \in [Node -> Kinds]
  BY <1>1, WorldType DEF Init, PlainKinds
<1>4. attached \in [Sorts -> [Node -> Defs \cup {0}]]
  BY DEF Init
<1>6. Work(pass) = {} /\ Done("objects") = {} /\ created = {}
  <2>1. ~ After("objects")
    BY <1>1, RankOf DEF After
  <2>2. Work("structures") = {}
    BY <1>1, DefFacts DEF Work, Sorts
  <2> QED
    BY <1>1, <2>1, <2>2 DEF Done, Init
<1>5. /\ index \in [Defs -> Seq([name : Name, object : Defs \cup {0}])]
      /\ augments \in [Defs -> Defs \cup {0}] /\ augmentedBy \in [Defs -> Seq(Defs)]
  BY EmptySeq DEF Init
<1> QED
  BY <1>1, <1>2, <1>3, <1>4, <1>5, <1>6 DEF Init, Typed

\* A node is given a definition of its sort, the holder or the new one.
LEMMA AttachType ==
  ASSUME Typed, NEW d \in Defs, NEW n \in Node, Attach(d, n)
  PROVE  attached' \in [Sorts -> [Node -> Defs \cup {0}]]
<1>1. Def(d).sort \in Sorts
  BY DefFacts DEF Typed
<1>2. PICK s \in Sorts : s = Def(d).sort
  BY <1>1
<1>3. [attached[s] EXCEPT ![n] = d] \in [Node -> Defs \cup {0}]
  BY DEF Typed
<1>4. attached' = attached \/ attached' = [attached EXCEPT ![s] = [attached[s] EXCEPT ![n] = d]]
  BY <1>2 DEF Attach
<1> QED
  BY <1>3, <1>4 DEF Typed

\* A definition that a pass gives to its node has one.
LEMMA CreateType ==
  ASSUME Typed, NEW d \in Defs, Create(d)
  PROVE  created' \subseteq Defs /\ attached' \in [Sorts -> [Node -> Defs \cup {0}]]
<1>1. NodeOf(d) \in Node
  BY DefFacts DEF Typed, Create
<1> QED
  BY <1>1, AttachType DEF Create, Typed

LEMMA TypedStep == Typed /\ [Next]_vars => Typed'
<1> SUFFICES ASSUME Typed, [Next]_vars PROVE Typed'
  OBVIOUS
<1> USE DEF Typed
<1>0. world' = world => Defs' = Defs /\ \A d : Def(d)' = Def(d)
  BY DEF Defs, Def
<1>1. CASE UNCHANGED vars
  <2>1. Done("objects")' = Done("objects")
    BY <1>1, WorkStays DEF vars, Done, After, Rank, Passes
  <2> QED
    BY <1>1, <2>1, WorkStays, <1>0 DEF vars
<1>a. "objects" \in PassNames
  BY DEF PassNames, Passes
<1>2. CASE CollectStructures \/ NextPass
  <2>1. /\ world' = world /\ pass' \in PassNames /\ todo' \subseteq Work(pass)'
        /\ \A d \in (Work(pass) \ todo)', e \in todo' : d < e
        /\ pass' \in {"structures", "columns", "done"} => todo' = {}
        /\ Done("objects")' = Done("objects")
    BY <1>2, <1>a, PassMoves
  <2>2. UNCHANGED <<kind, kindModule, rowNodes, created, attached, index, augments, augmentedBy>>
    BY <1>2 DEF CollectStructures, NextPass
  <2> QED
    BY <1>0, <2>1, <2>2
<1>3. CASE ReclassifyColumns
  <2>1. /\ world' = world /\ pass' \in PassNames /\ todo' \subseteq Work(pass)'
        /\ \A d \in (Work(pass) \ todo)', e \in todo' : d < e
        /\ pass' \in {"structures", "columns", "done"} => todo' = {}
        /\ Done("objects")' = Done("objects")
    BY <1>3, <1>a, PassMoves
  <2>2. UNCHANGED <<kindModule, rowNodes, created, attached, index, augments, augmentedBy>>
    BY <1>3 DEF ReclassifyColumns
  <2>3. kind' \in [Node -> Kinds]
    BY <1>3 DEF ReclassifyColumns, Kinds, ObjectKinds
  <2> QED
    BY <1>0, <2>1, <2>2, <2>3
<1>4. ASSUME NEW d \in Defs,
             \/ InferKind(d) \/ CreateObject(d)
             \/ ValidateTable(d) \/ LinkIndexes(d) \/ CheckNesting(d)
             \/ CreateNotification(d) \/ CreateGroup(d) \/ CreateCompliance(d)
             \/ CreateCapability(d)
      PROVE  Typed'
  <2>1. (\E p : Comes(p, d)) /\ world' = world
    BY <1>4 DEF InferKind, CreateObject, ValidateTable, LinkIndexes, CheckNesting,
                CreateNotification, CreateGroup, CreateCompliance, CreateCapability
  <2>2. /\ pass' \in PassNames /\ todo' \subseteq Work(pass)'
        /\ \A c \in (Work(pass) \ todo)', e \in todo' : c < e
        /\ pass' \in {"structures", "columns", "done"} => todo' = {}
    BY <2>1, PassGoesOn
  <2>3. /\ kind' \in [Node -> Kinds] /\ kindModule' \in [Node -> Module \cup {NoModule}]
        /\ rowNodes' \subseteq Node
    <3>1. CASE InferKind(d)
      <4> DEFINE n == NodeOf(d)
      <4>0. n \in Node \cup {NoNode} /\ Def(d).module \in Module /\ ObjectKind(d) \in Kinds
        BY DefFacts DEF Kinds, ObjectKinds
      <4> HIDE DEF n
      <4>1. \/ UNCHANGED <<kind, kindModule, rowNodes>>
            \/ /\ n # NoNode
               /\ kind' = [kind EXCEPT ![n] = ObjectKind(d)]
               /\ kindModule' = [kindModule EXCEPT ![n] = Def(d).module]
               /\ rowNodes' = IF ObjectKind(d) = "Row" THEN rowNodes \cup {n} ELSE rowNodes
        BY <3>1 DEF InferKind, n
      <4> QED
        BY <4>0, <4>1
    <3>2. CASE ~ InferKind(d)
      <4>1. UNCHANGED <<kind, kindModule, rowNodes>>
        BY <1>4, <3>2
           DEF CreateObject, ValidateTable, LinkIndexes, CheckNesting,
               CreateNotification, CreateGroup, CreateCompliance, CreateCapability
      <4> QED
        BY <4>1
    <3> QED
      BY <3>1, <3>2
  <2>4. created' \subseteq Defs /\ attached' \in [Sorts -> [Node -> Defs \cup {0}]]
    <3>1. CASE UNCHANGED <<created, attached>>
      BY <3>1
    <3>2. CASE Create(d)
      BY <3>2, CreateType
    <3>3. CASE CreateObject(d)
      <4>1. NodeOf(d) \in Node \cup {NoNode}
        BY DefFacts
      <4>2. attached' \in [Sorts -> [Node -> Defs \cup {0}]]
        BY <3>3, <4>1, AttachType DEF CreateObject
      <4> QED
        BY <3>3, <4>2 DEF CreateObject
    <3> QED
      BY <1>4, <3>1, <3>2, <3>3
         DEF InferKind, ValidateTable, LinkIndexes, CheckNesting, Skip,
             CreateNotification, CreateGroup, CreateCompliance, CreateCapability
  <2>5. /\ index' \in [Defs -> Seq([name : Name, object : Defs \cup {0}])]
        /\ augments' \in [Defs -> Defs \cup {0}] /\ augmentedBy' \in [Defs -> Seq(Defs)]
    <3>1. CASE LinkIndexes(d)
      <4> DEFINE m == Def(d).module
                 o == ScopeObject(m, Def(d).name)
                 entries == [k \in DOMAIN Def(d).index |-> Entry(m, Def(d).index[k])]
                 target == IF Def(d).augments = NoName THEN 0
                           ELSE lookup_object_by_name(m, Def(d).augments)
      <4>1. /\ m \in Module /\ Def(d).name \in Name /\ Def(d).index \in Seq(Name)
            /\ Def(d).augments \in Name \cup {NoName}
        BY DefFacts
      <4>2. o \in Defs \cup {0} /\ target \in Defs \cup {0}
        BY <4>1, LookupType
      <4>3. DOMAIN Def(d).index = 1 .. Len(Def(d).index) /\ Len(Def(d).index) \in Nat
            /\ \A k \in DOMAIN Def(d).index : Def(d).index[k] \in Name
        BY <4>1, LenProperties
      <4>4. entries \in Seq(Linking)
        <5>1. \A k \in 1 .. Len(Def(d).index) : Entry(m, Def(d).index[k]) \in Linking
          BY <4>1, <4>3, LookupType DEF Entry, Linking
        <5> QED
          BY <4>3, <5>1
      <4>5. /\ index' = index \/ index' = [index EXCEPT ![o] = entries]
            /\ \/ UNCHANGED <<augments, augmentedBy>>
               \/ /\ target # 0
                  /\ augments' = [augments EXCEPT ![o] = target]
                  /\ augmentedBy' = [augmentedBy EXCEPT ![target] = Append(@, o)]
        BY <3>1 DEF LinkIndexes
      <4>6. o # 0
        <5>1. pass = "link" /\ d \in Work("link")
          BY <3>1, ComesFacts DEF LinkIndexes
        <5>2. d \in Done("objects") /\ Def(d).sort = "Object"
          BY <5>1, RankOf DEF Done, After, Work
        <5>3. d \in created
          BY <5>2
        <5>4. ModuleObject(m, Def(d).name) \in Defs
          BY <5>2, <5>3, ModuleObjectFinds
        <5> QED
          BY <5>4, DefFacts DEF ScopeObject
      <4> HIDE DEF o, target, entries
      <4>7. target # 0 => Append(augmentedBy[target], o) \in Seq(Defs)
        BY <4>2, <4>6, AppendProperties
      <4>8. index' \in [Defs -> Seq([name : Name, object : Defs \cup {0}])]
        BY <4>2, <4>4, <4>5, <4>6 DEF Linking
      <4>9. augments' \in [Defs -> Defs \cup {0}]
        BY <4>2, <4>5, <4>6
      <4>10. augmentedBy' \in [Defs -> Seq(Defs)]
        BY <4>2, <4>5, <4>6, <4>7
      <4> QED
        BY <4>8, <4>9, <4>10
    <3>2. CASE ~ LinkIndexes(d)
      <4>1. UNCHANGED <<index, augments, augmentedBy>>
        BY <1>4, <3>2
           DEF CreateObject, ValidateTable, InferKind, CheckNesting,
               CreateNotification, CreateGroup, CreateCompliance, CreateCapability
      <4> QED
        BY <4>1
    <3> QED
      BY <3>1, <3>2
  <2>6. \A c \in Defs : Def(c).sort = "Object" => (c \in created' <=> c \in Done("objects")')
    <3>1. CASE CreateObject(d)
      <4>1. Done("objects")' = Done("objects") \cup {d} /\ created' = created \cup {d}
        BY <2>1, <3>1, DoneComes DEF CreateObject
      <4> QED
        BY <4>1
    <3>2. CASE ~ CreateObject(d)
      <4>1. PICK p : /\ Comes(p, d) /\ p # "objects"
                     /\ created' # created => p \in {"Notification", "Group", "Compliance", "Capability"}
        <5>1. InferKind(d) => Comes("kinds", d) /\ created' = created
          BY DEF InferKind
        <5>2. ValidateTable(d) => Comes("validate", d) /\ created' = created
          BY DEF ValidateTable
        <5>3. LinkIndexes(d) => Comes("link", d) /\ created' = created
          BY DEF LinkIndexes
        <5>4. CheckNesting(d) => Comes("nesting", d) /\ created' = created
          BY DEF CheckNesting
        <5>5. /\ CreateNotification(d) => Comes("Notification", d)
              /\ CreateGroup(d) => Comes("Group", d)
              /\ CreateCompliance(d) => Comes("Compliance", d)
              /\ CreateCapability(d) => Comes("Capability", d)
          BY DEF CreateNotification, CreateGroup, CreateCompliance, CreateCapability
        <5> QED
          BY <1>4, <3>2, <5>1, <5>2, <5>3, <5>4, <5>5
      <4>2. Done("objects")' = Done("objects")
        BY <2>1, <4>1, DoneComes
      <4>3. created' = created \/ (created' = created \cup {d})
        BY <1>4
           DEF InferKind, ValidateTable, LinkIndexes, CheckNesting, Skip, Create, CreateObject,
               CreateNotification, CreateGroup, CreateCompliance, CreateCapability
      <4>4. created' # created => Def(d).sort # "Object"
        <5>1. d \in Work(p)
          BY <4>1, ComesFacts
        <5> QED
          BY <4>1, <5>1 DEF Work
      <4> QED
        BY <4>2, <4>3, <4>4
    <3> QED
      BY <3>1, <3>2
  <2> QED
    BY <1>0, <2>1, <2>2, <2>3, <2>4, <2>5, <2>6
<1> QED
  BY <1>1, <1>2, <1>3, <1>4 DEF Next

LEMMA AlwaysTyped == Spec => []Typed
<1>1. Init => Typed
  BY TypedInit
<1>2. Typed /\ [Next]_vars => Typed'
  BY TypedStep
<1> QED
  BY <1>1, <1>2, PTL DEF Spec

------------------------------------------------------------------------------
(* Which of several definitions of a node is preferred. *)

\* d is of a module that overrules that of e, or is the earlier of two of one module.
Beats(d, e) ==
  \/ Overrules(world.facts, Def(d).module, Def(e).module)
  \/ Def(d).module = Def(e).module /\ d < e

Best(d, S) == d \in S /\ \A e \in S \ {d} : Beats(d, e)

\* The definitions of a node that a pass has dealt with.
At(p, n) == {d \in Done(p) : NodeOf(d) = n}

\* Of two modules one overrules the other.
LEMMA OverrulesIsTotal ==
  ASSUME NEW facts \in [Module -> ModuleFacts], NEW m \in Module, NEW n \in Module, m # n
  PROVE  Overrules(facts, m, n) \/ Overrules(facts, n, m)
<1> DEFINE rank(x) == language_rank(facts[x].language)
           stamp(x) == normalize_timestamp(facts[x].updated)
<1>1. \A x \in Module : /\ facts[x].base \in BOOLEAN
                        /\ rank(x) \in Nat
                        /\ stamp(x) \in Stamp
                        /\ NameOrder[x] \in Nat
  BY RankType, StampType, ModuleAssumption DEF ModuleFacts
<1>2. \A x, y \in Module :
        Overrules(facts, x, y) <=>
          \/ facts[x].base /\ ~ facts[y].base
          \/ /\ facts[x].base = facts[y].base
             /\ \/ rank(x) > rank(y)
                \/ /\ rank(x) = rank(y)
                   /\ \/ Later(stamp(x), stamp(y))
                      \/ /\ stamp(x) = stamp(y)
                         /\ NameOrder[x] < NameOrder[y]
  BY DEF Overrules
<1> HIDE DEF rank, stamp
<1>3. NameOrder[m] < NameOrder[n] \/ NameOrder[n] < NameOrder[m]
  BY <1>1, ModuleAssumption
<1>4. \A s, t \in Stamp : s = t \/ Later(s, t) \/ Later(t, s)
  BY DEF Stamp, Later
<1>5. \/ stamp(m) = stamp(n) \/ Later(stamp(m), stamp(n)) \/ Later(stamp(n), stamp(m))
  BY <1>1, <1>4
<1>6. rank(m) = rank(n) \/ rank(m) > rank(n) \/ rank(n) > rank(m)
  BY <1>1
<1>7. \/ facts[m].base = facts[n].base
      \/ facts[m].base /\ ~ facts[n].base
      \/ facts[n].base /\ ~ facts[m].base
  BY <1>1
<1> QED
  BY <1>2, <1>3, <1>5, <1>6, <1>7

\* Of two definitions of a node only one beats the other.
LEMMA BestIsUnique ==
  ASSUME world \in Worlds, NEW S \in SUBSET Defs, NEW c, NEW d, Best(c, S), Best(d, S)
  PROVE  c = d
<1> SUFFICES ASSUME c # d PROVE FALSE
  OBVIOUS
<1>1. c \in Defs /\ d \in Defs /\ Beats(c, d) /\ Beats(d, c)
  BY DEF Best
<1>2. c \in Nat /\ d \in Nat /\ Def(c).module \in Module /\ Def(d).module \in Module
  BY <1>1, DefFacts
<1>3. /\ ~ Overrules(world.facts, Def(c).module, Def(c).module)
      /\ ~ Overrules(world.facts, Def(d).module, Def(d).module)
      /\ ~ (/\ Overrules(world.facts, Def(c).module, Def(d).module)
            /\ Overrules(world.facts, Def(d).module, Def(c).module))
  BY <1>2, WorldType, OverrulesIsStrict
<1> QED
  BY <1>1, <1>2, <1>3 DEF Beats

\* The holder or a later definition of another module is preferred to all so far.
LEMMA BestGrows ==
  ASSUME world \in Worlds, NEW S \in SUBSET Defs, NEW c \in Defs, Best(c, S),
         NEW d \in Defs, \A e \in S : e < d
  PROVE  Best(IF Overrules(world.facts, Def(d).module, Def(c).module) THEN d ELSE c, S \cup {d})
<1> DEFINE m(e) == Def(e).module
           over(k, l) == Overrules(world.facts, k, l)
<1>1. \A e \in Defs : e \in Nat /\ m(e) \in Module
  BY DefFacts
<1>2. /\ \A k \in Module : ~ over(k, k)
      /\ \A k, l, n \in Module : over(k, l) /\ over(l, n) => over(k, n)
      /\ \A k, l \in Module : k # l => over(k, l) \/ over(l, k)
  BY WorldType, OverrulesIsStrict, OverrulesIsTotal
<1>3. \A x, y : Beats(x, y) <=> over(m(x), m(y)) \/ (m(x) = m(y) /\ x < y)
  BY DEF Beats
<1>4. c \in S /\ \A e \in S \ {c} : Beats(c, e)
  BY DEF Best
<1> HIDE DEF m, over
<1>5. CASE over(m(d), m(c))
  <2>1. \A e \in (S \cup {d}) \ {d} : Beats(d, e)
    BY <1>1, <1>2, <1>3, <1>4, <1>5
  <2>2. Best(d, S \cup {d})
    BY <2>1 DEF Best
  <2> QED
    BY <1>5, <2>2 DEF over, m
<1>6. CASE ~ over(m(d), m(c))
  <2>1. Beats(c, d)
    BY <1>1, <1>2, <1>3, <1>4, <1>6
  <2>2. Best(c, S \cup {d})
    BY <1>4, <2>1 DEF Best
  <2> QED
    BY <1>6, <2>2 DEF over, m
<1> QED
  BY <1>5, <1>6

------------------------------------------------------------------------------
(* The owner of a node.  The passes over the kinds and over the objects    *)
(* go through the same definitions, so that both keep the best of them.    *)

Preferred(p, n, d) == Best(d, At(p, n))

Classified ==
  \A n \in Node :
    \/ At("kinds", n) = {} /\ kindModule[n] = NoModule
    \/ \E d \in Defs :
         /\ Preferred("kinds", n, d) /\ kindModule[n] = Def(d).module
         /\ kind[n] = IF ObjectKind(d) = "Scalar" /\ After("columns") /\ Parent[n] \in rowNodes
                      THEN "Column" ELSE ObjectKind(d)

\* Whatever is a row is listed as one.
RowsListed == \A n \in Node : kind[n] = "Row" => n \in rowNodes

Carried ==
  \A n \in Node :
    \/ At("objects", n) = {} /\ attached["Object"][n] = 0
    \/ /\ attached["Object"][n] \in Defs
       /\ \E d \in Defs : attached["Object"][n] = d /\ Preferred("objects", n, d)

OwnerInv == Typed /\ Classified /\ RowsListed /\ Carried

LEMMA DoneIsDefs == \A p : Done(p) \subseteq Defs
BY WorkIsDefs DEF Done

\* A step that adds no definition of the node changes nothing about who is preferred.
LEMMA PreferredStays ==
  ASSUME world' = world, NEW p, NEW n, At(p, n)' = At(p, n)
  PROVE  \A d : Preferred(p, n, d)' <=> Preferred(p, n, d)
<1>1. \A d, e : Beats(d, e)' <=> Beats(d, e)
  BY DEF Beats, Def
<1> QED
  BY <1>1 DEF Preferred, Best

LEMMA AtStays ==
  ASSUME world' = world, NEW p, NEW n, Done(p)' = Done(p)
  PROVE  At(p, n)' = At(p, n)
BY DEF At, NodeOf, Def

\* What a definition that the pass comes to does to the definitions of a node.
LEMMA AtComes ==
  ASSUME Typed, NEW p, NEW d \in Defs, Comes(p, d), world' = world, NEW n
  PROVE  /\ NodeOf(d) # n => At(p, n)' = At(p, n)
         /\ NodeOf(d) = n => At(p, n)' = At(p, n) \cup {d}
         /\ \A q : q # p => At(q, n)' = At(q, n)
         /\ \A e \in At(p, n) : e < d
<1>1. /\ Done(p)' = Done(p) \cup {d} /\ \A e \in Done(p) : e < d
      /\ \A q : q # p => Done(q)' = Done(q)
  BY DoneComes
<1>2. \A e : NodeOf(e)' = NodeOf(e)
  BY DEF NodeOf, Def
<1>3. At(p, n)' = {e \in Done(p)' : NodeOf(e)' = n}
  BY DEF At
<1>4. \A q : q # p => At(q, n)' = At(q, n)
  BY <1>1, AtStays
<1> QED
  BY <1>1, <1>2, <1>3, <1>4 DEF At

\* The definition that comes to an empty node, or overrules its holder, is preferred.
LEMMA PreferredComes ==
  ASSUME Typed, NEW p, NEW d \in Defs, Comes(p, d), world' = world, NEW n, NodeOf(d) = n
  PROVE  /\ At(p, n) = {} => Preferred(p, n, d)'
         /\ \A c \in Defs : Preferred(p, n, c) =>
              /\ Overrules(world.facts, Def(d).module, Def(c).module) => Preferred(p, n, d)'
              /\ ~ Overrules(world.facts, Def(d).module, Def(c).module) => Preferred(p, n, c)'
<1>1. At(p, n)' = At(p, n) \cup {d} /\ \A e \in At(p, n) : e < d
  BY AtComes
<1>2. \A c, e : Beats(c, e)' <=> Beats(c, e)
  BY DEF Beats, Def
<1>3. \A c : Preferred(p, n, c)' <=> Best(c, At(p, n) \cup {d})
  BY <1>1, <1>2 DEF Preferred, Best
<1>4. At(p, n) = {} => Best(d, At(p, n) \cup {d})
  BY DEF Best
<1>5. ASSUME NEW c \in Defs, Preferred(p, n, c)
      PROVE  Best(IF Overrules(world.facts, Def(d).module, Def(c).module) THEN d ELSE c,
                  At(p, n) \cup {d})
  <2>1. At(p, n) \in SUBSET Defs
    BY DoneIsDefs DEF At
  <2> QED
    BY <1>1, <1>5, <2>1, BestGrows DEF Typed, Preferred
<1> QED
  BY <1>3, <1>4, <1>5

LEMMA OwnerInit == Init => OwnerInv
<1> SUFFICES ASSUME Init PROVE OwnerInv
  OBVIOUS
<1>1. Typed
  BY TypedInit
<1>2. Done("kinds") = {} /\ Done("objects") = {}
  <2>1. pass = "structures"
    BY DEF Init
  <2> QED
    BY <2>1, RankOf DEF Done, After
<1>3. \A n : At("kinds", n) = {} /\ At("objects", n) = {}
  BY <1>2 DEF At
<1>4. Classified
  BY <1>3 DEF Classified, Init
<1>5. Carried
  BY <1>3 DEF Carried, Init, Sorts
<1>6. RowsListed
  <2>1. \A n \in Node : kind[n] \in PlainKinds
    BY <1>1, WorldType DEF Init, Typed
  <2> QED
    BY <2>1 DEF RowsListed, PlainKinds
<1> QED
  BY <1>1, <1>4, <1>5, <1>6 DEF OwnerInv

\* The passes after the creation of the objects.
Links(d) == ValidateTable(d) \/ LinkIndexes(d) \/ CheckNesting(d)
Creates(d) == CreateNotification(d) \/ CreateGroup(d) \/ CreateCompliance(d) \/ CreateCapability(d)

\* A later definition that is given to its node is of another sort than the objects.
LEMMA CreateKeeps ==
  ASSUME Typed, NEW d \in Defs, Def(d).sort # "Object", Create(d)
  PROVE  attached'["Object"] = attached["Object"]
<1>1. PICK s \in Sorts : s = Def(d).sort
  BY DefFacts DEF Typed
<1>2. attached' = attached
      \/ attached' = [attached EXCEPT ![s] = [attached[s] EXCEPT ![NodeOf(d)] = d]]
  BY <1>1 DEF Create, Attach
<1> QED
  BY <1>1, <1>2 DEF Typed, Sorts

\* They leave the objects and the kinds alone.
LEMMA LaterKeeps ==
  ASSUME Typed, NEW d \in Defs, Links(d) \/ Creates(d)
  PROVE  /\ UNCHANGED <<world, kind, kindModule, rowNodes>>
         /\ attached'["Object"] = attached["Object"]
         /\ \E p \in PassNames \ {"kinds", "objects"} :
              Comes(p, d) /\ (Creates(d) => p \in Sorts \ {"Object"})
<1>1. \E p \in PassNames \ {"kinds", "objects"} :
        Comes(p, d) /\ (Creates(d) => p \in Sorts \ {"Object"})
  <2>1. {"validate", "link", "nesting", "Notification", "Group", "Compliance", "Capability"}
          \subseteq PassNames \ {"kinds", "objects"}
    <3>1. \A k \in 1 .. 12 : Passes[k] \in PassNames
      BY DEF Passes, PassNames
    <3> QED
      BY <3>1 DEF Passes
  <2>2. ValidateTable(d) => Comes("validate", d)
    BY DEF ValidateTable
  <2>3. LinkIndexes(d) => Comes("link", d)
    BY DEF LinkIndexes
  <2>4. CheckNesting(d) => Comes("nesting", d)
    BY DEF CheckNesting
  <2>5. /\ CreateNotification(d) => Comes("Notification", d)
        /\ CreateGroup(d) => Comes("Group", d)
        /\ CreateCompliance(d) => Comes("Compliance", d)
        /\ CreateCapability(d) => Comes("Capability", d)
    BY DEF CreateNotification, CreateGroup, CreateCompliance, CreateCapability
  <2>6. Creates(d) => \E p \in {"Notification", "Group", "Compliance", "Capability"} : Comes(p, d)
    BY <2>5 DEF Creates
  <2>7. CASE Creates(d)
    BY <2>1, <2>6, <2>7 DEF Sorts
  <2>8. CASE ~ Creates(d)
    BY <2>1, <2>2, <2>3, <2>4, <2>8 DEF Links
  <2> QED
    BY <2>7, <2>8
<1>2. UNCHANGED <<world, kind, kindModule, rowNodes>>
  BY DEF Links, Creates, ValidateTable, LinkIndexes, CheckNesting,
         CreateNotification, CreateGroup, CreateCompliance, CreateCapability
<1>3. attached'["Object"] = attached["Object"]
  <2>1. CASE attached' = attached
    BY <2>1
  <2>2. CASE Creates(d) /\ attached' # attached
    <3>1. Create(d)
      BY <2>2 DEF Creates, Skip, CreateNotification, CreateGroup, CreateCompliance,
                  CreateCapability
    <3>2. PICK p \in Sorts \ {"Object"} : d \in Work(p)
      BY <1>1, <2>2, ComesFacts
    <3>3. Def(d).sort # "Object"
      BY <3>2 DEF Work, Sorts
    <3> QED
      BY <3>1, <3>3, CreateKeeps
  <2>3. CASE Links(d)
    BY <2>3 DEF Links, ValidateTable, LinkIndexes, CheckNesting
  <2> QED
    BY <2>1, <2>2, <2>3
<1> QED
  BY <1>1, <1>2, <1>3

\* A node is classified by the best of the definitions of objects so far.
LEMMA InferKindOwner ==
  ASSUME OwnerInv, NEW d \in Defs, InferKind(d)
  PROVE  (Classified /\ RowsListed /\ Carried)'
<1> USE DEF OwnerInv
<1>1. Comes("kinds", d) /\ world' = world /\ attached' = attached
  BY DEF InferKind
<1>2. pass = "kinds" /\ pass' = pass
  BY <1>1, ComesFacts
<1>3. ~ After("columns") /\ ~ After("columns")'
  BY <1>2, RankOf DEF After, Rank, Passes
<1>4. Carried'
  <2>1. \A n : At("objects", n)' = At("objects", n)
    BY <1>1, AtComes
  <2>2. \A n, e : Preferred("objects", n, e)' <=> Preferred("objects", n, e)
    BY <1>1, <2>1, PreferredStays
  <2>3. Defs' = Defs
    BY <1>1 DEF Defs
  <2> QED
    BY <1>1, <2>1, <2>2, <2>3 DEF Carried
<1>5. PICK x : x = NodeOf(d)
  OBVIOUS
<1>6. x \in Node \cup {NoNode} /\ Def(d).module \in Module
      /\ ObjectKind(d) \in {"Table", "Row", "Scalar"}
  BY <1>5, DefFacts DEF Typed
<1>7. \A n \in Node : n # x => kind'[n] = kind[n] /\ kindModule'[n] = kindModule[n]
  BY <1>5 DEF InferKind, Typed
<1>8. rowNodes \subseteq rowNodes'
  BY DEF InferKind
<1>9. CASE x \in Node /\ should_prefer_module(world.facts, kindModule[x], Def(d).module)
  <2>1. /\ kind' = [kind EXCEPT ![x] = ObjectKind(d)]
        /\ kindModule' = [kindModule EXCEPT ![x] = Def(d).module]
        /\ ObjectKind(d) = "Row" => x \in rowNodes'
    BY <1>5, <1>9, SemanticsAssumption DEF InferKind
  <2>2. kind'[x] = ObjectKind(d) /\ kindModule'[x] = Def(d).module
    BY <1>9, <2>1 DEF Typed
  <2>3. Preferred("kinds", x, d)'
    <3>1. CASE At("kinds", x) = {}
      BY <1>1, <1>5, <3>1, PreferredComes DEF Typed
    <3>2. CASE At("kinds", x) # {}
      <4>1. PICK c \in Defs : Preferred("kinds", x, c) /\ kindModule[x] = Def(c).module
        BY <1>9, <3>2 DEF Classified
      <4>2. Def(c).module \in Module
        BY DefFacts DEF Typed
      <4>3. Overrules(world.facts, Def(d).module, Def(c).module)
        BY <1>9, <4>1, <4>2, ModuleAssumption DEF should_prefer_module
      <4> QED
        BY <1>1, <1>5, <4>1, <4>3, PreferredComes
    <3> QED
      BY <3>1, <3>2
  <2>4. Classified'
    <3> SUFFICES ASSUME NEW n \in Node
                 PROVE  \/ At("kinds", n)' = {} /\ kindModule'[n] = NoModule
                        \/ \E e \in Defs' :
                             /\ Preferred("kinds", n, e)' /\ kindModule'[n] = Def(e)'.module
                             /\ kind'[n] = IF ObjectKind(e)' = "Scalar" /\ After("columns")'
                                              /\ Parent[n] \in rowNodes'
                                           THEN "Column" ELSE ObjectKind(e)'
      BY DEF Classified
    <3>0. Defs' = Defs /\ \A e : Def(e)' = Def(e) /\ ObjectKind(e)' = ObjectKind(e)
      BY <1>1 DEF Defs, Def, ObjectKind, Indexed
    <3>1. CASE n = x
      BY <1>3, <2>2, <2>3, <3>0, <3>1
    <3>2. CASE n # x
      <4>1. At("kinds", n)' = At("kinds", n)
        BY <1>1, <1>5, <3>2, AtComes
      <4>2. \A e : Preferred("kinds", n, e)' <=> Preferred("kinds", n, e)
        BY <1>1, <4>1, PreferredStays
      <4> QED
        BY <1>3, <1>7, <3>0, <3>2, <4>1, <4>2 DEF Classified
    <3> QED
      BY <3>1, <3>2
  <2>5. RowsListed'
    BY <1>7, <1>8, <2>1, <2>2 DEF RowsListed
  <2> QED
    BY <1>4, <2>4, <2>5
<1>10. CASE ~ (x \in Node /\ should_prefer_module(world.facts, kindModule[x], Def(d).module))
  <2>1. UNCHANGED <<kind, kindModule, rowNodes>>
    BY <1>5, <1>6, <1>10 DEF InferKind
  <2>2. Classified'
    <3> SUFFICES ASSUME NEW n \in Node
                 PROVE  \/ At("kinds", n)' = {} /\ kindModule'[n] = NoModule
                        \/ \E e \in Defs' :
                             /\ Preferred("kinds", n, e)' /\ kindModule'[n] = Def(e)'.module
                             /\ kind'[n] = IF ObjectKind(e)' = "Scalar" /\ After("columns")'
                                              /\ Parent[n] \in rowNodes'
                                           THEN "Column" ELSE ObjectKind(e)'
      BY DEF Classified
    <3>0. Defs' = Defs /\ \A e : Def(e)' = Def(e) /\ ObjectKind(e)' = ObjectKind(e)
      BY <1>1 DEF Defs, Def, ObjectKind, Indexed
    <3>1. CASE n # x
      <4>1. At("kinds", n)' = At("kinds", n)
        BY <1>1, <1>5, <3>1, AtComes
      <4>2. \A e : Preferred("kinds", n, e)' <=> Preferred("kinds", n, e)
        BY <1>1, <4>1, PreferredStays
      <4> QED
        BY <1>3, <2>1, <3>0, <4>1, <4>2 DEF Classified
    <3>2. CASE n = x
      <4>1. ~ should_prefer_module(world.facts, kindModule[n], Def(d).module)
        BY <1>10, <3>2
      <4>2. kindModule[n] # NoModule
            /\ ~ Overrules(world.facts, Def(d).module, kindModule[n])
        BY <4>1 DEF should_prefer_module
      <4>3. PICK c \in Defs : /\ Preferred("kinds", n, c) /\ kindModule[n] = Def(c).module
                              /\ kind[n] = ObjectKind(c)
        BY <1>3, <4>2 DEF Classified
      <4>4. Preferred("kinds", n, c)'
        BY <1>1, <1>5, <3>2, <4>2, <4>3, PreferredComes
      <4> QED
        BY <1>3, <2>1, <3>0, <4>3, <4>4
    <3> QED
      BY <3>1, <3>2
  <2>3. RowsListed'
    BY <2>1 DEF RowsListed
  <2> QED
    BY <1>4, <2>2, <2>3
<1> QED
  BY <1>9, <1>10

\* A node carries the best of the definitions of objects so far.
LEMMA CreateObjectOwner ==
  ASSUME OwnerInv, NEW d \in Defs, CreateObject(d)
  PROVE  Carried'
<1> USE DEF OwnerInv
<1>1. Comes("objects", d) /\ world' = world
  BY DEF CreateObject
<1>2. PICK x : x = NodeOf(d)
  OBVIOUS
<1>3. /\ d \in Work("objects") /\ Def(d).sort = "Object" /\ Def(d).module \in Module
      /\ x \in Node \cup {NoNode}
  BY <1>1, <1>2, ComesFacts, DefFacts DEF Work, Typed
<1>4. Defs' = Defs
  BY <1>1 DEF Defs
<1> DEFINE held == attached["Object"][x]
           takes == held = 0 \/ should_prefer_module(world.facts, Def(held).module, Def(d).module)
<1>5. CASE x = NoNode
  <2>1. attached' = attached
    BY <1>2, <1>5 DEF CreateObject
  <2>2. \A n \in Node : n # x
    BY <1>5, SemanticsAssumption
  <2>3. \A n \in Node : At("objects", n)' = At("objects", n)
    BY <1>1, <1>2, <2>2, AtComes
  <2>4. \A n \in Node : \A e : Preferred("objects", n, e)' <=> Preferred("objects", n, e)
    BY <1>1, <2>3, PreferredStays
  <2> QED
    BY <1>4, <2>1, <2>3, <2>4 DEF Carried
<1>6. CASE x \in Node
  <2>1. attached' = IF takes THEN [attached EXCEPT !["Object"][x] = d] ELSE attached
    <3>1. Attach(d, x)
      BY <1>2, <1>6, SemanticsAssumption DEF CreateObject
    <3> QED
      BY <1>3, <3>1 DEF Attach
  <2>2. attached'["Object"][x] = (IF takes THEN d ELSE held)
        /\ \A n \in Node \ {x} : attached'["Object"][n] = attached["Object"][n]
    BY <1>6, <2>1 DEF Typed, Sorts
  <2>3. \E e \in Defs : (IF takes THEN d ELSE held) = e /\ Preferred("objects", x, e)'
    <3>1. CASE At("objects", x) = {}
      <4>1. held = 0
        BY <1>6, <3>1 DEF Carried, Preferred, Best
      <4> QED
        BY <1>1, <1>2, <3>1, <4>1, PreferredComes
    <3>2. CASE At("objects", x) # {}
      <4>1. PICK c \in Defs : held = c /\ Preferred("objects", x, c)
        BY <1>6, <3>2 DEF Carried
      <4>2. c # 0 /\ Def(c).module # NoModule
        BY DefFacts, ModuleAssumption DEF Typed
      <4>3. takes <=> Overrules(world.facts, Def(d).module, Def(c).module)
        BY <4>1, <4>2 DEF should_prefer_module
      <4> QED
        BY <1>1, <1>2, <4>1, <4>3, PreferredComes
    <3> QED
      BY <3>1, <3>2
  <2> HIDE DEF takes, held
  <2>4. \A n \in Node \ {x} : At("objects", n)' = At("objects", n)
    BY <1>1, <1>2, AtComes
  <2>5. \A n \in Node \ {x} : \A e : Preferred("objects", n, e)' <=> Preferred("objects", n, e)
    BY <1>1, <2>4, PreferredStays
  <2> QED
    BY <1>4, <1>6, <2>2, <2>3, <2>4, <2>5 DEF Carried
<1> QED
  BY <1>3, <1>5, <1>6

\* Below a listed row a scalar becomes a column.
LEMMA ReclassifyOwner ==
  ASSUME OwnerInv, ReclassifyColumns
  PROVE  (Classified /\ RowsListed /\ Carried)'
<1> USE DEF OwnerInv
<1>1. pass = "columns" /\ pass' = "objects" /\ world' = world
  BY DEF ReclassifyColumns, StartPass
<1>2. ~ After("columns") /\ After("columns")'
  BY <1>1, RankOf DEF After, Rank, Passes
<1>3. {"kinds", "objects"} \subseteq PassNames
  BY DEF PassNames, Passes
<1>4. Done("kinds")' = Done("kinds") /\ Done("objects")' = Done("objects")
  BY <1>3, PassMoves
<1>5. \A n : At("kinds", n)' = At("kinds", n) /\ At("objects", n)' = At("objects", n)
  BY <1>1, <1>4, AtStays
<1>6. \A n, e : /\ Preferred("kinds", n, e)' <=> Preferred("kinds", n, e)
                /\ Preferred("objects", n, e)' <=> Preferred("objects", n, e)
  BY <1>1, <1>5, PreferredStays
<1>7. Defs' = Defs /\ \A e : Def(e)' = Def(e) /\ ObjectKind(e)' = ObjectKind(e)
  BY <1>1 DEF Defs, Def, ObjectKind, Indexed
<1>8. UNCHANGED <<kindModule, rowNodes, attached>>
  BY DEF ReclassifyColumns
<1>9. \A n \in Node : kind'[n] = IF kind[n] = "Scalar" /\ Parent[n] \in rowNodes
                                  THEN "Column" ELSE kind[n]
  BY DEF ReclassifyColumns
<1>10. Carried'
  BY <1>5, <1>6, <1>7, <1>8 DEF Carried
<1>11. RowsListed'
  BY <1>8, <1>9 DEF RowsListed
<1>12. Classified'
  <2> SUFFICES ASSUME NEW n \in Node
               PROVE  \/ At("kinds", n)' = {} /\ kindModule'[n] = NoModule
                      \/ \E e \in Defs' :
                           /\ Preferred("kinds", n, e)' /\ kindModule'[n] = Def(e)'.module
                           /\ kind'[n] = IF ObjectKind(e)' = "Scalar" /\ After("columns")'
                                            /\ Parent[n] \in rowNodes'
                                         THEN "Column" ELSE ObjectKind(e)'
    BY DEF Classified
  <2>1. CASE At("kinds", n) = {} /\ kindModule[n] = NoModule
    BY <1>5, <1>8, <2>1
  <2>2. CASE ~ (At("kinds", n) = {} /\ kindModule[n] = NoModule)
    <3>1. PICK e \in Defs : /\ Preferred("kinds", n, e) /\ kindModule[n] = Def(e).module
                            /\ kind[n] = ObjectKind(e)
      BY <1>2, <2>2 DEF Classified
    <3>2. kind'[n] = IF ObjectKind(e) = "Scalar" /\ Parent[n] \in rowNodes
                     THEN "Column" ELSE ObjectKind(e)
      BY <1>9, <3>1
    <3> QED
      BY <1>2, <1>6, <1>7, <1>8, <3>1, <3>2
  <2> QED
    BY <2>1, <2>2
<1> QED
  BY <1>10, <1>11, <1>12

\* The owners stay when neither the kinds nor what the nodes carry change.
LEMMA OwnerStays ==
  ASSUME OwnerInv, UNCHANGED <<world, kind, kindModule, rowNodes>>,
         After("columns")' <=> After("columns"),
         Done("kinds")' = Done("kinds")
  PROVE  Classified' /\ RowsListed'
<1> USE DEF OwnerInv
<1>5. \A n : At("kinds", n)' = At("kinds", n)
  BY AtStays
<1>6. \A n, e : Preferred("kinds", n, e)' <=> Preferred("kinds", n, e)
  BY <1>5, PreferredStays
<1>7. Defs' = Defs /\ \A e : Def(e)' = Def(e) /\ ObjectKind(e)' = ObjectKind(e)
  BY DEF Defs, Def, ObjectKind, Indexed
<1> QED
  BY <1>5, <1>6, <1>7 DEF Classified, RowsListed

LEMMA CarriedStays ==
  ASSUME OwnerInv, world' = world, attached'["Object"] = attached["Object"],
         Done("objects")' = Done("objects")
  PROVE  Carried'
<1> USE DEF OwnerInv
<1>5. \A n : At("objects", n)' = At("objects", n)
  BY AtStays
<1>6. \A n, e : Preferred("objects", n, e)' <=> Preferred("objects", n, e)
  BY <1>5, PreferredStays
<1>7. Defs' = Defs
  BY DEF Defs
<1> QED
  BY <1>5, <1>6, <1>7 DEF Carried

LEMMA OwnerStep == OwnerInv /\ [Next]_vars => OwnerInv'
<1> SUFFICES ASSUME OwnerInv, [Next]_vars PROVE OwnerInv'
  OBVIOUS
<1>1. Typed'
  BY TypedStep DEF OwnerInv
<1>2. {"kinds", "columns", "objects"} \subseteq PassNames
  BY DEF PassNames, Passes
<1>3. CASE UNCHANGED vars
  <2>1. /\ UNCHANGED <<world, kind, kindModule, rowNodes, attached>>
        /\ \A p : (After(p)' <=> After(p)) /\ Done(p)' = Done(p)
    BY <1>3, WorkStays DEF vars, After, Rank, Passes, Done
  <2> QED
    BY <1>1, <2>1, OwnerStays, CarriedStays DEF OwnerInv
<1>4. CASE CollectStructures \/ NextPass
  <2>1. /\ \A p \in PassNames : Done(p)' = Done(p)
        /\ After("columns")' <=> After("columns")
    <3>1. pass # "columns"
      BY <1>4 DEF CollectStructures, NextPass
    <3> QED
      BY <1>2, <1>4, <3>1, PassMoves DEF OwnerInv
  <2>2. UNCHANGED <<world, kind, kindModule, rowNodes, attached>>
    BY <1>4 DEF CollectStructures, NextPass
  <2> QED
    BY <1>1, <1>2, <2>1, <2>2, OwnerStays, CarriedStays DEF OwnerInv
<1>5. CASE ReclassifyColumns
  BY <1>1, <1>5, ReclassifyOwner DEF OwnerInv
<1>6. ASSUME NEW d \in Defs, InferKind(d)
      PROVE  OwnerInv'
  BY <1>1, <1>6, InferKindOwner DEF OwnerInv
<1>7. ASSUME NEW d \in Defs, CreateObject(d)
      PROVE  OwnerInv'
  <2>1. Comes("objects", d) /\ UNCHANGED <<world, kind, kindModule, rowNodes>>
    BY <1>7 DEF CreateObject
  <2>2. Done("kinds")' = Done("kinds") /\ (After("columns")' <=> After("columns"))
    BY <2>1, DoneComes DEF OwnerInv
  <2> QED
    BY <1>1, <1>7, <2>1, <2>2, OwnerStays, CreateObjectOwner DEF OwnerInv
<1>8. ASSUME NEW d \in Defs, Links(d) \/ Creates(d)
      PROVE  OwnerInv'
  <2>1. /\ UNCHANGED <<world, kind, kindModule, rowNodes>>
        /\ attached'["Object"] = attached["Object"]
    BY <1>8, LaterKeeps DEF OwnerInv
  <2>2. PICK p \in PassNames \ {"kinds", "objects"} : Comes(p, d)
    BY <1>8, LaterKeeps DEF OwnerInv
  <2>3. /\ Done("kinds")' = Done("kinds") /\ Done("objects")' = Done("objects")
        /\ After("columns")' <=> After("columns")
    BY <2>1, <2>2, DoneComes DEF OwnerInv
  <2> QED
    BY <1>1, <2>1, <2>3, OwnerStays, CarriedStays DEF OwnerInv
<1> QED
  BY <1>3, <1>4, <1>5, <1>6, <1>7, <1>8 DEF Next, Links, Creates

LEMMA AlwaysOwner == Spec => []OwnerInv
<1>1. Init => OwnerInv
  BY OwnerInit
<1>2. OwnerInv /\ [Next]_vars => OwnerInv'
  BY OwnerStep
<1> QED
  BY <1>1, <1>2, PTL DEF Spec

\* The kind of a node is that of the object it carries, whatever modules define it in
\* whatever order: both passes keep the best of one set of definitions, and there is one.
LEMMA OwnerGivesKind ==
  ASSUME OwnerInv, After("objects"), NEW n \in Node, attached["Object"][n] # 0
  PROVE  LET own == ObjectKind(attached["Object"][n])
         IN /\ own \in {"Table", "Row", "Scalar"}
            /\ kind[n] = IF own = "Scalar" /\ Parent[n] \in rowNodes THEN "Column" ELSE own
<1> USE DEF OwnerInv
<1>1. PICK d \in Defs : attached["Object"][n] = d /\ Preferred("objects", n, d)
  BY DEF Carried
<1>2. After("columns") /\ Done("objects") = Work("objects") /\ Done("kinds") = Work("objects")
  BY AfterObjects, ObjectWork DEF Typed
<1>3. At("kinds", n) = At("objects", n)
  BY <1>2 DEF At
<1>4. d \in At("objects", n)
  BY <1>1 DEF Preferred, Best
<1>5. PICK e \in Defs :
         /\ Preferred("kinds", n, e)
         /\ kind[n] = IF ObjectKind(e) = "Scalar" /\ Parent[n] \in rowNodes
                      THEN "Column" ELSE ObjectKind(e)
  BY <1>2, <1>3, <1>4 DEF Classified
<1>6. At("objects", n) \in SUBSET Defs
  BY DoneIsDefs DEF At
<1>7. d = e
  BY <1>1, <1>3, <1>5, <1>6, BestIsUnique DEF Preferred, Typed
<1>8. ObjectKind(d) \in {"Table", "Row", "Scalar"}
  BY DefFacts DEF Typed
<1> QED
  BY <1>1, <1>5, <1>7, <1>8

\* KindOfOwner: what the nodes are taken for agrees with the objects they carry.
THEOREM KindOfOwnerHolds == Spec => []KindOfOwner
<1>1. OwnerInv => KindOfOwner
  <2> SUFFICES ASSUME OwnerInv, After("objects"), NEW n \in Node, attached["Object"][n] # 0
               PROVE  LET own == ObjectKind(attached["Object"][n])
                      IN /\ own # "Scalar" => kind[n] = own
                         /\ own = "Scalar" => kind[n] \in {"Scalar", "Column"}
                         /\ own = "Scalar" /\ (\A r \in rowNodes : kind[r] = "Row") =>
                              (kind[n] = "Column" <=> Parent[n] # NoNode /\ kind[Parent[n]] = "Row")
    BY DEF KindOfOwner
  <2>1. PICK own : own = ObjectKind(attached["Object"][n])
    OBVIOUS
  <2>2. /\ own \in {"Table", "Row", "Scalar"}
        /\ kind[n] = IF own = "Scalar" /\ Parent[n] \in rowNodes THEN "Column" ELSE own
    BY <2>1, OwnerGivesKind
  <2>3. Parent[n] \in Node \cup {NoNode} /\ NoNode \notin Node
    BY SemanticsAssumption
  <2>4. rowNodes \subseteq Node /\ \A r \in Node : kind[r] = "Row" => r \in rowNodes
    BY DEF OwnerInv, Typed, RowsListed
  <2> QED
    BY <2>1, <2>2, <2>3, <2>4
<1> QED
  BY <1>1, AlwaysOwner, PTL

------------------------------------------------------------------------------
(* The lookups once the objects are created. *)

\* A pass that has begun stays behind.
LEMMA AfterStays ==
  ASSUME Typed, [Next]_vars, NEW p \in PassNames, After(p)
  PROVE  After(p)'
<1>1. CASE UNCHANGED vars
  BY <1>1 DEF vars, After, Rank, Passes
<1>2. CASE CollectStructures \/ NextPass \/ ReclassifyColumns
  BY <1>2, PassMoves
<1>3. ASSUME NEW d \in Defs, InferKind(d) \/ CreateObject(d)
      PROVE  After(p)'
  BY <1>3, DoneComes DEF InferKind, CreateObject
<1>4. ASSUME NEW d \in Defs, Links(d) \/ Creates(d)
      PROVE  After(p)'
  BY <1>4, LaterKeeps, DoneComes
<1> QED
  BY <1>1, <1>2, <1>3, <1>4 DEF Next, Links, Creates

\* From the creation of the last object on neither the objects nor the nodes that carry
\* them change.
LEMMA ObjectsStay ==
  ASSUME Typed, [Next]_vars, After("objects")
  PROVE  /\ world' = world /\ attached'["Object"] = attached["Object"] /\ After("objects")'
         /\ \A d : (d \in created /\ Def(d).sort = "Object")' <=> (d \in created /\ Def(d).sort = "Object")
<1>1. "objects" \in PassNames
  BY DEF PassNames, Passes
<1>2. After("objects")' /\ Typed'
  BY <1>1, AfterStays, TypedStep
<1>3. pass \notin {"kinds", "objects"}
  BY RankOf DEF After
<1>4. world' = world /\ attached'["Object"] = attached["Object"]
  <2>1. CASE UNCHANGED vars
    BY <2>1 DEF vars
  <2>2. CASE CollectStructures \/ NextPass \/ ReclassifyColumns
    BY <2>2 DEF CollectStructures, NextPass, ReclassifyColumns
  <2>3. ASSUME NEW d \in Defs, InferKind(d) \/ CreateObject(d)
        PROVE  FALSE
    BY <1>3, <2>3 DEF InferKind, CreateObject, Comes
  <2>4. ASSUME NEW d \in Defs, Links(d) \/ Creates(d)
        PROVE  world' = world /\ attached'["Object"] = attached["Object"]
    BY <2>4, LaterKeeps
  <2> QED
    BY <2>1, <2>2, <2>3, <2>4 DEF Next, Links, Creates
<1>5. Defs' = Defs /\ \A d : Def(d)' = Def(d)
  BY <1>4 DEF Defs, Def
<1>6. \A d \in Defs : Def(d).sort = "Object" => d \in created
  BY AfterObjects, ObjectWork DEF Typed
<1>7. \A d \in Defs' : Def(d)'.sort = "Object" => d \in created'
  <2>1. Done("objects")' = Work("objects")'
    <3>1. pass' # "objects"
      <4>1. Rank(pass') > Rank("objects")
        BY <1>2 DEF After
      <4> QED
        BY <4>1, RankOf
    <3> QED
      BY <1>2, <3>1 DEF Done
  <2>2. Work("objects")' = {d \in Defs' : Def(d)'.sort = "Object"}
    BY DEF Work
  <2> QED
    BY <1>2, <2>1, <2>2 DEF Typed
<1>8. created \subseteq Defs /\ created' \subseteq Defs
  BY <1>2, <1>5 DEF Typed
<1> QED
  BY <1>2, <1>4, <1>5, <1>6, <1>7, <1>8

\* So the lookups of objects find the same.
LEMMA LookupsStay ==
  ASSUME Typed, [Next]_vars, After("objects")
  PROVE  \A m, n : /\ ScopeObject(m, n)' = ScopeObject(m, n)
                   /\ lookup_object_by_name(m, n)' = lookup_object_by_name(m, n)
                   /\ ScopeNode(m, n)' = ScopeNode(m, n)
<1>1. /\ world' = world /\ attached'["Object"] = attached["Object"]
      /\ \A d : (d \in created /\ Def(d).sort = "Object")' <=> (d \in created /\ Def(d).sort = "Object")
  BY ObjectsStay
<1>2. \A d : Def(d)' = Def(d)
  BY <1>1 DEF Def
<1>3. \A m, n : {d \in created : Def(d).sort = "Object" /\ Def(d).module = m /\ Def(d).name = n}'
                  = {d \in created : Def(d).sort = "Object" /\ Def(d).module = m /\ Def(d).name = n}
  BY <1>1, <1>2
<1>4. \A n : {d \in created : Def(d).sort = "Object" /\ Def(d).name = n}'
               = {d \in created : Def(d).sort = "Object" /\ Def(d).name = n}
  BY <1>1, <1>2
<1>5. \A m, n : ModuleObject(m, n)' = ModuleObject(m, n)
  BY <1>3 DEF ModuleObject
<1>6. \A m, n : ScopeObject(m, n)' = ScopeObject(m, n)
  BY <1>1, <1>5 DEF ScopeObject, FromImport
<1>7. \A n : object_by_name(n)' = object_by_name(n)
  BY <1>1, <1>4 DEF object_by_name
<1>8. \A m, n : lookup_object_by_name(m, n)' = lookup_object_by_name(m, n)
  BY <1>1, <1>6, <1>7 DEF lookup_object_by_name
<1>9. \A m, n : ScopeNode(m, n)' = ScopeNode(m, n)
  BY <1>1 DEF ScopeNode, FromImport
<1> QED
  BY <1>6, <1>8, <1>9

------------------------------------------------------------------------------
(* What the validation says. *)

IndexCodes == {"IndexNotObject", "IndexUnresolved"}
AugmentsCodes == {"AugmentsNotObject", "AugmentsTargetNotFound"}
Among(R, codes) == {r \in R : r.code \in codes}

\* The reports about INDEX and AUGMENTS are those that hold of the lookups still.
Validated ==
  /\ Among(reports, IndexCodes) = UNION {IndexComplaints(d) : d \in Done("validate")}
  /\ Among(reports, AugmentsCodes) = UNION {AugmentsComplaints(d) : d \in Done("validate")}

\* Which names a definition is reported with.
LEMMA ComplaintsAre ==
  ASSUME NEW d
  PROVE  /\ \A r \in IndexComplaints(d) :
              /\ r.code \in IndexCodes /\ r.def = d
              /\ r.name \in NamesOf(Def(d).index) \ BareTypes
              /\ lookup_object_by_name(Def(d).module, r.name) = 0
         /\ \A n \in NamesOf(Def(d).index) \ BareTypes :
              lookup_object_by_name(Def(d).module, n) = 0
                => \E r \in IndexComplaints(d) : r.name = n
         /\ \A r \in AugmentsComplaints(d) : r.code \in AugmentsCodes /\ r.def = d
         /\ AugmentsComplaints(d) # {} <=>
              /\ Def(d).augments # NoName
              /\ lookup_object_by_name(Def(d).module, Def(d).augments) = 0
<1> DEFINE m == Def(d).module
           names == NamesOf(Def(d).index) \ BareTypes
<1>1. \A n, x, y : \A r \in Complaint(d, n, x, y) :
        r.code \in {x, y} /\ r.def = d /\ r.name = n /\ lookup_object_by_name(m, n) = 0
  BY DEF Complaint, Report
<1>2. \A n, x, y : lookup_object_by_name(m, n) = 0 =>
        \E r \in Complaint(d, n, x, y) : r.name = n
  BY DEF Complaint, Report
<1> HIDE DEF m, names
<1>3. IndexComplaints(d)
        = UNION {Complaint(d, n, "IndexNotObject", "IndexUnresolved") : n \in names}
  BY DEF IndexComplaints, names
<1>4. AugmentsComplaints(d)
        = IF Def(d).augments = NoName THEN {}
          ELSE Complaint(d, Def(d).augments, "AugmentsNotObject", "AugmentsTargetNotFound")
  BY DEF AugmentsComplaints
<1>5. \A r \in IndexComplaints(d) :
        r.code \in IndexCodes /\ r.def = d /\ r.name \in names
        /\ lookup_object_by_name(m, r.name) = 0
  BY <1>1, <1>3 DEF IndexCodes
<1>6. \A n \in names : lookup_object_by_name(m, n) = 0
                         => \E r \in IndexComplaints(d) : r.name = n
  BY <1>2, <1>3
<1>7. \A r \in AugmentsComplaints(d) : r.code \in AugmentsCodes /\ r.def = d
  BY <1>1, <1>4 DEF AugmentsCodes
<1>8. AugmentsComplaints(d) # {} <=>
        Def(d).augments # NoName /\ lookup_object_by_name(m, Def(d).augments) = 0
  BY <1>1, <1>2, <1>4
<1> QED
  BY <1>5, <1>6, <1>7, <1>8 DEF m, names

\* The reports of the other passes have other codes.
LEMMA OtherReports ==
  ASSUME NEW d, LinkIndexes(d) \/ CheckNesting(d) \/ Creates(d)
  PROVE  \A r \in reports' : r \in reports \/ r.code \notin IndexCodes \cup AugmentsCodes
<1> USE DEF Report, IndexCodes, AugmentsCodes
<1>1. CASE LinkIndexes(d)
  BY <1>1 DEF LinkIndexes
<1>2. CASE CheckNesting(d)
  BY <1>2 DEF CheckNesting
<1>3. CASE CreateNotification(d)
  <2>1. \A n : \A r \in NotificationReports(d, n) :
          r.code \in {"NotifObjectAccess", "NotifObjectNotObject", "NotifObjectUnresolved"}
    BY DEF NotificationReports
  <2> QED
    BY <1>3, <2>1 DEF CreateNotification, Skip
<1>4. CASE CreateGroup(d)
  <2>1. \A n : \A r \in MemberReports(d, n) :
          r.code \in {"GroupMemberUnresolved", "GroupNotificationsObject",
                      "GroupObjectsNotification", "GroupNotAccessible"}
    BY DEF MemberReports
  <2>2. \A n : \A r \in StatusReports(d, n) : r.code = "GroupObjectStatus"
    BY DEF StatusReports
  <2> QED
    BY <1>4, <2>1, <2>2 DEF CreateGroup, Skip
<1>5. CASE CreateCompliance(d)
  BY <1>5 DEF CreateCompliance
<1>6. CASE CreateCapability(d)
  BY <1>6 DEF CreateCapability, Skip
<1> QED
  BY <1>1, <1>2, <1>3, <1>4, <1>5, <1>6 DEF Creates

\* The complaints about a definition do not change once the objects are there.
LEMMA ComplaintsStay ==
  ASSUME Typed, [Next]_vars, After("objects")
  PROVE  \A d : /\ IndexComplaints(d)' = IndexComplaints(d)
                /\ AugmentsComplaints(d)' = AugmentsComplaints(d)
<1>1. \A m, n : /\ lookup_object_by_name(m, n)' = lookup_object_by_name(m, n)
                /\ ScopeNode(m, n)' = ScopeNode(m, n)
  BY LookupsStay
<1>2. \A d : Def(d)' = Def(d)
  BY ObjectsStay DEF Def
<1>3. \A d, n, x, y : Complaint(d, n, x, y)' = Complaint(d, n, x, y)
  BY <1>1, <1>2 DEF Complaint, Report
<1> QED
  BY <1>2, <1>3 DEF IndexComplaints, AugmentsComplaints, NamesOf

\* Nothing is validated before the objects are there.
LEMMA ValidatedLate ==
  ASSUME Typed, Done("validate") # {} \/ pass = "validate"
  PROVE  After("objects")
<1>1. Rank(pass) \in Nat
  BY RankOf DEF PassNames, Passes, Typed
<1>2. pass = "validate" \/ After("validate")
  BY DEF Done
<1> QED
  BY <1>1, <1>2, RankOf DEF After

\* A step that deals with no definition of the validation adds no report of its codes.
LEMMA ValidatedStays ==
  ASSUME Typed, Validated, [Next]_vars, Done("validate")' = Done("validate"),
         reports \subseteq reports',
         \A r \in reports' : r \in reports \/ r.code \notin IndexCodes \cup AugmentsCodes
  PROVE  Validated'
<1>1. /\ \A d \in Done("validate") : IndexComplaints(d)' = IndexComplaints(d)
      /\ \A d \in Done("validate") : AugmentsComplaints(d)' = AugmentsComplaints(d)
  BY ValidatedLate, ComplaintsStay
<1>2. /\ Among(reports', IndexCodes) = Among(reports, IndexCodes)
      /\ Among(reports', AugmentsCodes) = Among(reports, AugmentsCodes)
  BY DEF Among
<1>3. /\ UNION {IndexComplaints(d) : d \in Done("validate")}'
           = UNION {IndexComplaints(d) : d \in Done("validate")}
      /\ UNION {AugmentsComplaints(d) : d \in Done("validate")}'
           = UNION {AugmentsComplaints(d) : d \in Done("validate")}
  BY <1>1
<1> QED
  BY <1>2, <1>3 DEF Validated

LEMMA ValidateTableKeeps ==
  ASSUME Typed, Validated, [Next]_vars, NEW d \in Defs, ValidateTable(d)
  PROVE  Validated'
<1>1. Comes("validate", d) /\ world' = world
      /\ reports' = reports \cup IndexComplaints(d) \cup AugmentsComplaints(d)
  BY DEF ValidateTable
<1>2. pass = "validate" /\ After("objects")
  BY <1>1, ComesFacts, ValidatedLate
<1>3. Done("validate")' = Done("validate") \cup {d}
  BY <1>1, DoneComes
<1>4. \A c : /\ IndexComplaints(c)' = IndexComplaints(c)
             /\ AugmentsComplaints(c)' = AugmentsComplaints(c)
  BY <1>2, ComplaintsStay
<1>5. /\ \A r \in IndexComplaints(d) : r.code \in IndexCodes
      /\ \A r \in AugmentsComplaints(d) : r.code \in AugmentsCodes
      /\ \A c \in IndexCodes : c \notin AugmentsCodes
  BY ComplaintsAre DEF IndexCodes, AugmentsCodes
<1>6. /\ Among(reports', IndexCodes) = Among(reports, IndexCodes) \cup IndexComplaints(d)
      /\ Among(reports', AugmentsCodes) = Among(reports, AugmentsCodes) \cup AugmentsComplaints(d)
  BY <1>1, <1>5 DEF Among
<1>7. /\ UNION {IndexComplaints(c) : c \in Done("validate")}'
           = UNION {IndexComplaints(c) : c \in Done("validate") \cup {d}}
      /\ UNION {AugmentsComplaints(c) : c \in Done("validate")}'
           = UNION {AugmentsComplaints(c) : c \in Done("validate") \cup {d}}
  BY <1>3, <1>4
<1>8. /\ UNION {IndexComplaints(c) : c \in Done("validate") \cup {d}}
           = (UNION {IndexComplaints(c) : c \in Done("validate")}) \cup IndexComplaints(d)
      /\ UNION {AugmentsComplaints(c) : c \in Done("validate") \cup {d}}
           = (UNION {AugmentsComplaints(c) : c \in Done("validate")}) \cup AugmentsComplaints(d)
  OBVIOUS
<1> QED
  BY <1>6, <1>7, <1>8 DEF Validated

LEMMA ValidatedStep == Typed /\ Validated /\ [Next]_vars => Validated'
<1> SUFFICES ASSUME Typed, Validated, [Next]_vars PROVE Validated'
  OBVIOUS
<1>1. "validate" \in PassNames
  BY DEF PassNames, Passes
<1>2. CASE UNCHANGED vars
  <2>1. Done("validate")' = Done("validate") /\ reports' = reports
    BY <1>2, WorkStays DEF vars, After, Rank, Passes, Done
  <2> QED
    BY <2>1, ValidatedStays
<1>3. CASE CollectStructures \/ NextPass \/ ReclassifyColumns
  <2>1. Done("validate")' = Done("validate")
    BY <1>1, <1>3, PassMoves
  <2>2. reports' = reports
    BY <1>3 DEF CollectStructures, NextPass, ReclassifyColumns
  <2> QED
    BY <2>1, <2>2, ValidatedStays
<1>4. ASSUME NEW d \in Defs, InferKind(d) \/ CreateObject(d)
      PROVE  Validated'
  <2>1. Done("validate")' = Done("validate") /\ reports' = reports
    BY <1>4, DoneComes DEF InferKind, CreateObject
  <2> QED
    BY <2>1, ValidatedStays
<1>5. ASSUME NEW d \in Defs, LinkIndexes(d) \/ CheckNesting(d) \/ Creates(d)
      PROVE  Validated'
  <2>1. \E p : Comes(p, d) /\ p # "validate" /\ world' = world
    BY <1>5 DEF LinkIndexes, CheckNesting, Creates, CreateNotification, CreateGroup,
                CreateCompliance, CreateCapability
  <2>2. Done("validate")' = Done("validate")
    BY <2>1, DoneComes
  <2>3. reports \subseteq reports'
    BY <1>5 DEF LinkIndexes, CheckNesting, Creates, CreateNotification, CreateGroup,
                CreateCompliance, CreateCapability, Skip
  <2> QED
    BY <1>5, <2>2, <2>3, OtherReports, ValidatedStays
<1>6. ASSUME NEW d \in Defs, ValidateTable(d)
      PROVE  Validated'
  BY <1>6, ValidateTableKeeps
<1> QED
  BY <1>2, <1>3, <1>4, <1>5, <1>6 DEF Next, Creates

------------------------------------------------------------------------------
(* What the links hold. *)

Target(d) == IF Def(d).augments = NoName THEN 0
             ELSE lookup_object_by_name(Def(d).module, Def(d).augments)
Entries(d) == [k \in DOMAIN Def(d).index |-> Entry(Def(d).module, Def(d).index[k])]
Occurs(t, o) == {k \in DOMAIN augmentedBy[t] : augmentedBy[t][k] = o}

\* An object is linked when the pass comes to its definition and not before, and stands
\* in the list of its target once and in no other list.
WellLinked(d) ==
  /\ d \in Done("link") => index[d] = Entries(d) /\ augments[d] = Target(d)
  /\ d \notin Done("link") => index[d] = <<>> /\ augments[d] = 0
  /\ \A t \in Defs : augments[d] = t => \E k : Occurs(t, d) = {k}
  /\ \A t \in Defs : augments[d] # t => Occurs(t, d) = {}

Linked == \A d \in Defs : Def(d).sort = "Object" /\ AloneInName(d) => WellLinked(d)

LinkInv == Typed /\ Validated /\ Linked

\* Entries and target of a definition do not change once the objects are there.
LEMMA LinksStay ==
  ASSUME Typed, [Next]_vars, After("objects")
  PROVE  \A d : Entries(d)' = Entries(d) /\ Target(d)' = Target(d)
<1>1. \A m, n : lookup_object_by_name(m, n)' = lookup_object_by_name(m, n)
  BY LookupsStay
<1>2. \A d : Def(d)' = Def(d)
  BY ObjectsStay DEF Def
<1>3. \A m, n : Entry(m, n)' = Entry(m, n)
  BY <1>1 DEF Entry
<1> QED
  BY <1>1, <1>2, <1>3 DEF Entries, Target

LEMMA LinkedLate ==
  ASSUME Typed, Done("link") # {} \/ pass = "link"
  PROVE  After("objects")
<1>1. Rank(pass) \in Nat
  BY RankOf DEF PassNames, Passes, Typed
<1>2. pass = "link" \/ After("link")
  BY DEF Done
<1> QED
  BY <1>1, <1>2, RankOf DEF After

\* The steps that link nothing keep the links.
LEMMA LinkedStays ==
  ASSUME Typed, Linked, [Next]_vars, Done("link")' = Done("link"),
         UNCHANGED <<world, index, augments, augmentedBy>>
  PROVE  Linked'
<1>1. Defs' = Defs /\ \A d : Def(d)' = Def(d) /\ (AloneInName(d)' <=> AloneInName(d))
  BY DEF Defs, Def, AloneInName
<1>2. \A d \in Done("link") : Entries(d)' = Entries(d) /\ Target(d)' = Target(d)
  BY LinkedLate, LinksStay
<1>3. \A t, d : Occurs(t, d)' = Occurs(t, d)
  BY DEF Occurs
<1>4. \A d : WellLinked(d) => WellLinked(d)'
  <2> SUFFICES ASSUME NEW d, WellLinked(d) PROVE WellLinked(d)'
    OBVIOUS
  <2>1. d \in Done("link")' => index'[d] = Entries(d)' /\ augments'[d] = Target(d)'
    BY <1>2 DEF WellLinked
  <2>2. d \notin Done("link")' => index'[d] = <<>> /\ augments'[d] = 0
    BY DEF WellLinked
  <2>3. /\ \A t \in Defs' : augments'[d] = t => \E k : Occurs(t, d)' = {k}
        /\ \A t \in Defs' : augments'[d] # t => Occurs(t, d)' = {}
    BY <1>1, <1>3 DEF WellLinked
  <2> QED
    BY <2>1, <2>2, <2>3 DEF WellLinked
<1> QED
  BY <1>1, <1>4 DEF Linked

\* The name of an object that is the only one of its name finds it.
LEMMA ScopeFinds ==
  ASSUME Typed, After("objects"), NEW d \in Defs, Def(d).sort = "Object"
  PROVE  LET o == ScopeObject(Def(d).module, Def(d).name)
         IN /\ o \in Defs /\ Def(o).sort = "Object"
            /\ Def(o).module = Def(d).module /\ Def(o).name = Def(d).name
<1> DEFINE m == Def(d).module
           n == Def(d).name
<1>1. d \in created
  BY AfterObjects, ObjectWork DEF Typed
<1>2. ModuleObject(m, n) \in {e \in created : Def(e).sort = "Object" /\ Def(e).module = m
                                               /\ Def(e).name = n}
  BY <1>1, ModuleObjectFinds
<1>3. ModuleObject(m, n) # 0 /\ ModuleObject(m, n) \in Defs
  BY <1>2, DefFacts DEF Typed
<1> QED
  BY <1>2, <1>3 DEF ScopeObject

\* One more entry at the end of a list.
LEMMA AppendedAt ==
  ASSUME NEW S, NEW q \in Seq(S), NEW x \in S, NEW y
  PROVE  {k \in DOMAIN Append(q, x) : Append(q, x)[k] = y}
           = {k \in DOMAIN q : q[k] = y} \cup (IF x = y THEN {Len(q) + 1} ELSE {})
<1>1. /\ Len(q) \in Nat /\ DOMAIN q = 1 .. Len(q)
      /\ Append(q, x) \in Seq(S) /\ Len(Append(q, x)) = Len(q) + 1
      /\ \A i \in 1 .. Len(q) : Append(q, x)[i] = q[i]
      /\ Append(q, x)[Len(q) + 1] = x
  BY LenProperties, AppendProperties
<1>2. DOMAIN Append(q, x) = 1 .. (Len(q) + 1)
  BY <1>1, LenProperties
<1>3. \A k : k \in 1 .. (Len(q) + 1) <=> k \in 1 .. Len(q) \/ k = Len(q) + 1
  BY <1>1
<1>4. Len(q) + 1 \notin 1 .. Len(q)
  BY <1>1
<1> QED
  BY <1>1, <1>2, <1>3, <1>4

\* The pass links an object to the names it gives; what stands alone in its name is linked
\* by its own definition and by no other.
LEMMA LinkIndexesKeeps ==
  ASSUME Typed, Linked, [Next]_vars, NEW d \in Defs, LinkIndexes(d)
  PROVE  Linked'
<1>1. Comes("link", d) /\ world' = world /\ UNCHANGED <<created, attached>>
  BY DEF LinkIndexes
<1>2. pass = "link" /\ After("objects") /\ d \in Work("link") /\ d \in todo
  BY <1>1, ComesFacts, LinkedLate
<1>3. Def(d).sort = "Object" /\ d \notin Done("link") /\ Done("link")' = Done("link") \cup {d}
  BY <1>1, <1>2, DoneComes, ObjectWork
<1>4. PICK o : o = ScopeObject(Def(d).module, Def(d).name)
  OBVIOUS
<1>5. /\ o \in Defs /\ Def(o).sort = "Object"
      /\ Def(o).module = Def(d).module /\ Def(o).name = Def(d).name
  BY <1>2, <1>3, <1>4, ScopeFinds
<1>6. Target(d) \in Defs \cup {0}
  BY DefFacts, LookupType DEF Target, Typed
<1>7. PICK x : x = Target(d)
  OBVIOUS
<1>8. /\ index' = IF Def(d).index = <<>> THEN index ELSE [index EXCEPT ![o] = Entries(d)]
      /\ x = 0 => UNCHANGED <<augments, augmentedBy>>
      /\ x # 0 => /\ augments' = [augments EXCEPT ![o] = x]
                  /\ augmentedBy' = [augmentedBy EXCEPT ![x] = Append(augmentedBy[x], o)]
  BY <1>4, <1>7 DEF LinkIndexes, Entries, Target
<1>9. Defs' = Defs /\ \A e : Def(e)' = Def(e) /\ (AloneInName(e)' <=> AloneInName(e))
  BY <1>1 DEF Defs, Def, AloneInName
<1>10. \A e : Entries(e)' = Entries(e) /\ Target(e)' = Target(e)
  BY <1>2, LinksStay
<1>11. \A t \in Defs : augmentedBy[t] \in Seq(Defs)
  BY DEF Typed
<1>12. ASSUME NEW c \in Defs, Def(c).sort = "Object", AloneInName(c)
       PROVE  WellLinked(c)'
  <2>1. WellLinked(c)
    BY <1>12 DEF Linked
  <2>2. o = c <=> d = c
    BY <1>3, <1>5, <1>12 DEF AloneInName
  <2>3. \A t \in Defs : Occurs(t, c)' = IF t = x /\ c = d
                                        THEN Occurs(t, c) \cup {Len(augmentedBy[t]) + 1}
                                        ELSE Occurs(t, c)
    <3>1. CASE x = 0
      <4>1. \A t \in Defs : t # x
        BY <3>1, DefFacts DEF Typed
      <4> QED
        BY <1>8, <3>1, <4>1 DEF Occurs
    <3>2. CASE x # 0
      <4>1. x \in Defs
        BY <1>6, <1>7, <3>2
      <4>2. augmentedBy'[x] = Append(augmentedBy[x], o)
            /\ \A t \in Defs : t # x => augmentedBy'[t] = augmentedBy[t]
        BY <1>8, <3>2, <4>1 DEF Typed
      <4>3. {k \in DOMAIN Append(augmentedBy[x], o) : Append(augmentedBy[x], o)[k] = c}
              = Occurs(x, c) \cup (IF o = c THEN {Len(augmentedBy[x]) + 1} ELSE {})
        BY <1>5, <1>11, <4>1, AppendedAt DEF Occurs
      <4>4. \A t : Occurs(t, c)' = {k \in DOMAIN augmentedBy'[t] : augmentedBy'[t][k] = c}
        BY DEF Occurs
      <4>5. \A t \in Defs : t # x => Occurs(t, c)' = Occurs(t, c)
        BY <4>2, <4>4 DEF Occurs
      <4>6. Occurs(x, c)' = Occurs(x, c) \cup (IF o = c THEN {Len(augmentedBy[x]) + 1} ELSE {})
        BY <4>2, <4>3, <4>4
      <4> QED
        BY <2>2, <4>5, <4>6
    <3> QED
      BY <3>1, <3>2
  <2>4. CASE c = d
    <3>1. index[c] = <<>> /\ augments[c] = 0 /\ \A t \in Defs : augments[c] # t
      BY <1>3, <2>1, <2>4, DefFacts DEF WellLinked, Typed
    <3>2. \A t \in Defs : Occurs(t, c) = {}
      BY <2>1, <3>1 DEF WellLinked
    <3>3. index'[c] = Entries(c)
      <4>1. CASE Def(d).index = <<>>
        <5>1. Entries(d) = <<>>
          BY <4>1 DEF Entries
        <5> QED
          BY <1>8, <2>4, <3>1, <4>1, <5>1
      <4>2. CASE Def(d).index # <<>>
        BY <1>8, <2>2, <2>4, <4>2 DEF Typed
      <4> QED
        BY <4>1, <4>2
    <3>4. augments'[c] = x
      BY <1>8, <2>2, <2>4, <3>1 DEF Typed
    <3>5. \A t \in Defs : Occurs(t, c)' = IF t = x THEN {Len(augmentedBy[t]) + 1} ELSE {}
      BY <2>3, <2>4, <3>2
    <3> QED
      BY <1>3, <1>7, <1>9, <1>10, <2>4, <3>3, <3>4, <3>5 DEF WellLinked
  <2>5. CASE c # d
    <3>1. index'[c] = index[c] /\ augments'[c] = augments[c]
      BY <1>8, <2>2, <2>5 DEF Typed
    <3>2. \A t \in Defs : Occurs(t, c)' = Occurs(t, c)
      BY <2>3, <2>5
    <3>3. c \in Done("link")' <=> c \in Done("link")
      BY <1>3, <2>5
    <3>4. /\ c \in Done("link")' => index'[c] = Entries(c)' /\ augments'[c] = Target(c)'
          /\ c \notin Done("link")' => index'[c] = <<>> /\ augments'[c] = 0
      BY <1>10, <2>1, <3>1, <3>3 DEF WellLinked
    <3>5. /\ \A t \in Defs' : augments'[c] = t => \E k : Occurs(t, c)' = {k}
          /\ \A t \in Defs' : augments'[c] # t => Occurs(t, c)' = {}
      BY <1>9, <2>1, <3>1, <3>2 DEF WellLinked
    <3> QED
      BY <3>4, <3>5 DEF WellLinked
  <2> QED
    BY <2>4, <2>5
<1> QED
  BY <1>9, <1>12 DEF Linked

LEMMA LinkInit == Init => LinkInv
<1> SUFFICES ASSUME Init PROVE LinkInv
  OBVIOUS
<1>1. Typed
  BY TypedInit
<1>2. Done("validate") = {} /\ Done("link") = {}
  <2>1. pass = "structures"
    BY DEF Init
  <2> QED
    BY <2>1, RankOf DEF Done, After
<1>3. Validated
  BY <1>2 DEF Validated, Among, Init
<1>4. Linked
  <2>1. \A d \in Defs : index[d] = <<>> /\ augments[d] = 0 /\ augmentedBy[d] = <<>> /\ d # 0
    BY <1>1, DefFacts DEF Init, Typed
  <2>2. \A t \in Defs : \A d : Occurs(t, d) = {}
    BY <2>1 DEF Occurs
  <2> QED
    BY <1>2, <2>1, <2>2 DEF Linked, WellLinked
<1> QED
  BY <1>1, <1>3, <1>4 DEF LinkInv

LEMMA LinkStep == LinkInv /\ [Next]_vars => LinkInv'
<1> SUFFICES ASSUME LinkInv, [Next]_vars PROVE LinkInv'
  OBVIOUS
<1> USE DEF LinkInv
<1>1. Typed' /\ Validated'
  BY TypedStep, ValidatedStep
<1>2. "link" \in PassNames
  BY DEF PassNames, Passes
<1>3. CASE UNCHANGED vars
  <2>1. Done("link")' = Done("link") /\ UNCHANGED <<world, index, augments, augmentedBy>>
    BY <1>3, WorkStays DEF vars, After, Rank, Passes, Done
  <2> QED
    BY <1>1, <2>1, LinkedStays
<1>4. CASE CollectStructures \/ NextPass \/ ReclassifyColumns
  <2>1. Done("link")' = Done("link")
    BY <1>2, <1>4, PassMoves
  <2>2. UNCHANGED <<world, index, augments, augmentedBy>>
    BY <1>4 DEF CollectStructures, NextPass, ReclassifyColumns
  <2> QED
    BY <1>1, <2>1, <2>2, LinkedStays
<1>5. ASSUME NEW d \in Defs,
             InferKind(d) \/ CreateObject(d) \/ ValidateTable(d) \/ CheckNesting(d) \/ Creates(d)
      PROVE  LinkInv'
  <2>1. \E p : Comes(p, d) /\ p # "link"
    BY <1>5 DEF InferKind, CreateObject, ValidateTable, CheckNesting, Creates,
                CreateNotification, CreateGroup, CreateCompliance, CreateCapability
  <2>2. UNCHANGED <<world, index, augments, augmentedBy>>
    BY <1>5 DEF InferKind, CreateObject, ValidateTable, CheckNesting, Creates,
                CreateNotification, CreateGroup, CreateCompliance, CreateCapability
  <2>3. Done("link")' = Done("link")
    BY <2>1, <2>2, DoneComes
  <2> QED
    BY <1>1, <2>2, <2>3, LinkedStays
<1>6. ASSUME NEW d \in Defs, LinkIndexes(d)
      PROVE  LinkInv'
  BY <1>1, <1>6, LinkIndexesKeeps
<1> QED
  BY <1>3, <1>4, <1>5, <1>6 DEF Next, Creates

LEMMA AlwaysLink == Spec => []LinkInv
<1>1. Init => LinkInv
  BY LinkInit
<1>2. LinkInv /\ [Next]_vars => LinkInv'
  BY LinkStep
<1> QED
  BY <1>1, <1>2, PTL DEF Spec

\* AugmentsInverse: a row is in the list of the row it augments once, and in no other.
THEOREM AugmentsInverseHolds == Spec => []AugmentsInverse
<1>1. LinkInv => AugmentsInverse
  <2> SUFFICES ASSUME LinkInv, NEW o \in created, NEW t \in created,
                      Def(o).sort = "Object", AloneInName(o)
               PROVE  Cardinality({k \in DOMAIN augmentedBy[t] : augmentedBy[t][k] = o})
                        = IF augments[o] = t THEN 1 ELSE 0
    BY DEF AugmentsInverse
  <2>1. o \in Defs /\ t \in Defs
    BY DEF LinkInv, Typed
  <2>2. WellLinked(o)
    BY <2>1 DEF LinkInv, Linked
  <2>3. CASE augments[o] = t
    <3>1. PICK k : Occurs(t, o) = {k}
      BY <2>1, <2>2, <2>3 DEF WellLinked
    <3> QED
      BY <2>3, <3>1, FS_Singleton DEF Occurs
  <2>4. CASE augments[o] # t
    <3>1. Occurs(t, o) = {}
      BY <2>1, <2>2, <2>4 DEF WellLinked
    <3> QED
      BY <2>4, <3>1, FS_EmptySet DEF Occurs
  <2> QED
    BY <2>3, <2>4
<1> QED
  BY <1>1, AlwaysLink, PTL

\* The names of the entries that stand for no object.
LEMMA UnlinkedNames ==
  ASSUME Typed, NEW d \in Defs
  PROVE  {e.name : e \in {f \in NamesOf(Entries(d)) : f.object = 0}} \ BareTypes
           = {n \in NamesOf(Def(d).index) \ BareTypes : lookup_object_by_name(Def(d).module, n) = 0}
<1> DEFINE names == Def(d).index
           m == Def(d).module
<1>1. \A n : /\ Entry(m, n).name = n
             /\ Entry(m, n).object = IF n \in BareTypes THEN 0 ELSE lookup_object_by_name(m, n)
  BY DEF Entry
<1>2. NamesOf(Entries(d)) = {Entry(m, n) : n \in NamesOf(names)}
  BY DEF NamesOf, Entries
<1> HIDE DEF names, m
<1>3. ASSUME NEW n
      PROVE  n \in {e.name : e \in {f \in NamesOf(Entries(d)) : f.object = 0}} \ BareTypes
               <=> n \in NamesOf(names) \ BareTypes /\ lookup_object_by_name(m, n) = 0
  BY <1>1, <1>2
<1>4. {e.name : e \in {f \in NamesOf(Entries(d)) : f.object = 0}} \ BareTypes
        = {n \in NamesOf(names) \ BareTypes : lookup_object_by_name(m, n) = 0}
  BY <1>3
<1> QED
  BY <1>4 DEF names, m

\* UnlinkedIsReported: what one pass complains of is what another could not link.
THEOREM UnlinkedIsReportedHolds == Spec => []UnlinkedIsReported
<1>1. LinkInv => UnlinkedIsReported
  <2> SUFFICES ASSUME LinkInv, After("link"), NEW d \in created,
                      Def(d).sort = "Object", AloneInName(d)
               PROVE  LET reported(codes) ==
                            {r.name : r \in {q \in reports : q.def = d /\ q.code \in codes}}
                      IN /\ {e.name : e \in {f \in NamesOf(index[d]) : f.object = 0}} \ BareTypes
                              = reported({"IndexNotObject", "IndexUnresolved"})
                         /\ (augments[d] = 0 /\ Def(d).augments # NoName)
                              <=> reported({"AugmentsNotObject", "AugmentsTargetNotFound"}) # {}
    BY DEF UnlinkedIsReported
  <2> USE DEF LinkInv
  <2> DEFINE m == Def(d).module
             told(codes) == {r \in reports : r.def = d /\ r.code \in codes}
  <2>1. d \in Defs /\ WellLinked(d)
    BY DEF Linked, Typed
  <2>2. /\ Done("link") = Work("link") /\ Done("validate") = Work("validate")
    <3>1. Rank(pass) \in Nat
      BY RankOf DEF PassNames, Passes, Typed
    <3> QED
      BY <3>1, RankOf DEF Done, After
  <2>3. index[d] = Entries(d) /\ augments[d] = Target(d)
    BY <2>1, <2>2, ObjectWork DEF WellLinked
  <2>4. told(IndexCodes) = IF d \in Work("validate") THEN IndexComplaints(d) ELSE {}
    <3>1. told(IndexCodes) = {r \in Among(reports, IndexCodes) : r.def = d}
      BY DEF Among
    <3>2. \A c : \A r \in IndexComplaints(c) : r.def = c
      BY ComplaintsAre
    <3> QED
      BY <2>2, <3>1, <3>2 DEF Validated
  <2>5. told(AugmentsCodes) = IF d \in Work("validate") THEN AugmentsComplaints(d) ELSE {}
    <3>1. told(AugmentsCodes) = {r \in Among(reports, AugmentsCodes) : r.def = d}
      BY DEF Among
    <3>2. \A c : \A r \in AugmentsComplaints(c) : r.def = c
      BY ComplaintsAre
    <3> QED
      BY <2>2, <3>1, <3>2 DEF Validated
  <2>6. d \notin Work("validate") => Def(d).index = <<>> /\ Def(d).augments = NoName
    BY <2>1 DEF Work
  <2>7. {r.name : r \in told(IndexCodes)}
          = {n \in NamesOf(Def(d).index) \ BareTypes : lookup_object_by_name(m, n) = 0}
    <3>1. CASE d \in Work("validate")
      BY <2>4, <3>1, ComplaintsAre
    <3>2. CASE d \notin Work("validate")
      <4>1. NamesOf(Def(d).index) = {}
        BY <2>6, <3>2 DEF NamesOf
      <4> QED
        BY <2>4, <3>2, <4>1
    <3> QED
      BY <3>1, <3>2
  <2>8. told(AugmentsCodes) # {} <=>
          Def(d).augments # NoName /\ lookup_object_by_name(m, Def(d).augments) = 0
    BY <2>5, <2>6, ComplaintsAre
  <2>9. {e.name : e \in {f \in NamesOf(index[d]) : f.object = 0}} \ BareTypes
          = {r.name : r \in told(IndexCodes)}
    BY <2>1, <2>3, <2>7, UnlinkedNames
  <2>10. (augments[d] = 0 /\ Def(d).augments # NoName)
           <=> {r.name : r \in told(AugmentsCodes)} # {}
    BY <2>3, <2>8 DEF Target
  <2> QED
    BY <2>9, <2>10 DEF IndexCodes, AugmentsCodes
<1> QED
  BY <1>1, AlwaysLink, PTL

------------------------------------------------------------------------------
(* What a filter keeps. *)

\* Induction over the numbers, for a set.
LEMMA Induction ==
  ASSUME NEW S, 0 \in S, \A k \in Nat : k \in S => k + 1 \in S, NEW n \in Nat
  PROVE  n \in S
<1> DEFINE T == {k \in Nat : k \notin S}
<1>1. SUFFICES ASSUME T # {} PROVE FALSE
  OBVIOUS
<1>2. PICK k \in T : \A j \in T : k <= j
  BY <1>1, SmallestMember
<1>3. k \in Nat /\ k # 0
  BY <1>2
<1>4. k - 1 \in Nat /\ k - 1 \notin T
  BY <1>2, <1>3
<1>5. (k - 1) + 1 = k /\ k - 1 \in S
  BY <1>3, <1>4
<1> QED
  BY <1>2, <1>4, <1>5

Filtering(f, s, S, k) ==
  f = [i \in 0 .. k |-> IF i = 0 THEN <<>> ELSE IF s[i] \in S THEN Append(f[i - 1], s[i]) ELSE f[i - 1]]

\* There is a function that filters, prefix by prefix.
LEMMA FilteringExists ==
  ASSUME NEW s, NEW S, NEW k \in Nat
  PROVE  \E f : Filtering(f, s, S, k)
<1> DEFINE N == {n \in Nat : \E f : Filtering(f, s, S, n)}
<1>1. 0 \in N
  <2> DEFINE f == [i \in 0 .. 0 |-> <<>>]
  <2>1. Filtering(f, s, S, 0)
    BY DEF Filtering
  <2> QED
    BY <2>1
<1>2. ASSUME NEW n \in Nat, n \in N PROVE n + 1 \in N
  <2>1. PICK g : Filtering(g, s, S, n)
    BY <1>2
  <2> DEFINE last == IF (n + 1) = 0 THEN <<>>
                     ELSE IF s[(n + 1)] \in S THEN Append(g[(n + 1) - 1], s[(n + 1)]) ELSE g[(n + 1) - 1]
             f == [i \in 0 .. n + 1 |-> IF i = n + 1 THEN last ELSE g[i]]
  <2>2. \A i \in 0 .. n : g[i] = IF i = 0 THEN <<>>
                                 ELSE IF s[i] \in S THEN Append(g[i - 1], s[i]) ELSE g[i - 1]
    BY <2>1 DEF Filtering
  <2>3. \A i \in 0 .. n + 1 : f[i] = IF i = 0 THEN <<>>
                                     ELSE IF s[i] \in S THEN Append(f[i - 1], s[i]) ELSE f[i - 1]
    <3>1. TAKE i \in 0 .. n + 1
    <3>2. CASE i = n + 1
      <4>1. f[i] = last /\ i = n + 1 /\ (i # 0 => i - 1 = n /\ f[n] = g[n])
        BY <3>2
      <4> QED
        BY <4>1
    <3>3. CASE i # n + 1
      <4>1. i \in 0 .. n /\ f[i] = g[i]
        BY <3>3
      <4>2. i # 0 => i - 1 \in 0 .. n + 1 /\ i - 1 # n + 1 /\ f[i - 1] = g[i - 1]
        BY <3>3
      <4> QED
        BY <2>2, <4>1, <4>2
    <3> QED
      BY <3>2, <3>3
  <2>4. f = [i \in 0 .. n + 1 |-> IF i = 0 THEN <<>>
                                  ELSE IF s[i] \in S THEN Append(f[i - 1], s[i]) ELSE f[i - 1]]
    <3>1. f = [i \in 0 .. n + 1 |-> f[i]]
      OBVIOUS
    <3> HIDE DEF f
    <3> QED
      BY <2>3, <3>1
  <2>5. Filtering(f, s, S, n + 1)
    <3> HIDE DEF f
    <3> QED
      BY <2>4 DEF Filtering
  <2> QED
    BY <2>5
<1> QED
  <2> HIDE DEF N
  <2>1. k \in N
    BY <1>1, <1>2, Induction
  <2> QED
    BY <2>1 DEF N

\* A list with one more entry names one thing more.
LEMMA AppendedNames ==
  ASSUME NEW T, NEW q \in Seq(T), NEW x \in T
  PROVE  Append(q, x) \in Seq(T) /\ NamesOf(Append(q, x)) = NamesOf(q) \cup {x}
<1>1. /\ Len(q) \in Nat /\ DOMAIN q = 1 .. Len(q)
      /\ Append(q, x) \in Seq(T) /\ Len(Append(q, x)) = Len(q) + 1
      /\ \A i \in 1 .. Len(q) : Append(q, x)[i] = q[i]
      /\ Append(q, x)[Len(q) + 1] = x
  BY LenProperties, AppendProperties
<1>2. DOMAIN Append(q, x) = 1 .. (Len(q) + 1)
  BY <1>1, LenProperties
<1>3. \A k : k \in 1 .. (Len(q) + 1) <=> k \in 1 .. Len(q) \/ k = Len(q) + 1
  BY <1>1
<1> QED
  BY <1>1, <1>2, <1>3 DEF NamesOf

\* A filter keeps what is of the set, and nothing else.
LEMMA FilteredNames ==
  ASSUME NEW T, NEW s \in Seq(T), NEW S
  PROVE  Filtered(s, S) \in Seq(T) /\ NamesOf(Filtered(s, S)) = NamesOf(s) \cap S
<1>1. Len(s) \in Nat /\ DOMAIN s = 1 .. Len(s) /\ \A k \in 1 .. Len(s) : s[k] \in T
  BY LenProperties
<1> DEFINE g == CHOOSE f : Filtering(f, s, S, Len(s))
<1>2. Filtering(g, s, S, Len(s))
  BY <1>1, FilteringExists
<1>3. Filtered(s, S) = g[Len(s)]
  BY DEF Filtered, Filtering
<1> HIDE DEF g
<1>4. \A i \in 0 .. Len(s) : g[i] = IF i = 0 THEN <<>>
                                    ELSE IF s[i] \in S THEN Append(g[i - 1], s[i]) ELSE g[i - 1]
  BY <1>2 DEF Filtering
<1> DEFINE A == {k \in Nat : k <= Len(s) => /\ g[k] \in Seq(T)
                                            /\ NamesOf(g[k]) = {s[i] : i \in 1 .. k} \cap S}
<1>5. 0 \in A
  <2>1. g[0] = <<>>
    BY <1>1, <1>4
  <2>2. <<>> \in Seq(T) /\ NamesOf(<<>>) = {} /\ 1 .. 0 = {}
    BY EmptySeq DEF NamesOf
  <2> QED
    BY <2>1, <2>2
<1>6. ASSUME NEW k \in Nat, k \in A PROVE k + 1 \in A
  <2> SUFFICES ASSUME k + 1 <= Len(s)
               PROVE  g[k + 1] \in Seq(T) /\ NamesOf(g[k + 1]) = {s[i] : i \in 1 .. k + 1} \cap S
    OBVIOUS
  <2>1. /\ k + 1 \in 1 .. Len(s) /\ k + 1 \in 0 .. Len(s) /\ k + 1 # 0 /\ (k + 1) - 1 = k
        /\ g[k] \in Seq(T) /\ NamesOf(g[k]) = {s[i] : i \in 1 .. k} \cap S
    BY <1>1, <1>6
  <2>2. g[k + 1] = IF s[k + 1] \in S THEN Append(g[k], s[k + 1]) ELSE g[k]
    BY <1>4, <2>1
  <2>3. {s[i] : i \in 1 .. k + 1} = {s[i] : i \in 1 .. k} \cup {s[k + 1]}
    <3>1. \A i : i \in 1 .. k + 1 <=> i \in 1 .. k \/ i = k + 1
      OBVIOUS
    <3> QED
      BY <3>1
  <2>4. s[k + 1] \in T
    BY <1>1, <2>1
  <2>5. Append(g[k], s[k + 1]) \in Seq(T) /\ NamesOf(Append(g[k], s[k + 1])) = NamesOf(g[k]) \cup {s[k + 1]}
    BY <2>1, <2>4, AppendedNames
  <2> QED
    BY <2>1, <2>2, <2>3, <2>5
<1>7. Len(s) \in A
  <2> HIDE DEF A
  <2> QED
    BY <1>1, <1>5, <1>6, Induction
<1> QED
  BY <1>1, <1>3, <1>7 DEF NamesOf

------------------------------------------------------------------------------
(* Candidates. *)

\* The definitions of a sort that have a name in a module.
Called(s, m, n) == {d \in created : Def(d).sort = s /\ Def(d).module = m /\ Def(d).name = n}

LEMMA CalledFirst ==
  ASSUME Typed, NEW s, NEW m, NEW n
  PROVE  /\ First(Called(s, m, n)) # 0 => First(Called(s, m, n)) \in Called(s, m, n)
         /\ First(Called(s, m, n)) = 0 => Called(s, m, n) = {}
<1>1. Called(s, m, n) \in SUBSET Defs
  BY DEF Called, Typed
<1> QED
  BY <1>1, FirstOfDefs, DefFacts DEF Typed

\* What a module calls n, by the sorts of its definitions.
LEMMA SymbolsAre ==
  ASSUME NEW m, NEW n
  PROVE  LET sorts == {k \in 1 .. 5 : First(Called(SortOrder[k], m, n)) # 0}
         IN /\ sorts # {} =>
                 symbols(m, n) = [k \in sorts |-> CandidateOf(First(Called(SortOrder[k], m, n)))]
            /\ sorts = {} => symbols(m, n) = IF world.symbols[m][n] = NoNode THEN <<>>
                 ELSE <<[module |-> m, def |-> 0, node |-> world.symbols[m][n]]>>
<1>1. DOMAIN SortOrder = 1 .. 5
  BY DEF SortOrder
<1> QED
  BY <1>1 DEF symbols, Called

\* A name without candidates has no node.
LEMMA NoSymbols ==
  ASSUME NEW m, NEW n, DOMAIN symbols(m, n) = {}
  PROVE  world.symbols[m][n] = NoNode
<1> DEFINE sorts == {k \in 1 .. 5 : First(Called(SortOrder[k], m, n)) # 0}
<1>1. CASE sorts # {}
  <2>1. symbols(m, n) = [k \in sorts |-> CandidateOf(First(Called(SortOrder[k], m, n)))]
    BY <1>1, SymbolsAre
  <2>2. DOMAIN symbols(m, n) = sorts
    BY <2>1
  <2> QED
    BY <1>1, <2>2
<1>2. CASE sorts = {}
  <2> DEFINE one == [module |-> m, def |-> 0, node |-> world.symbols[m][n]]
  <2>1. symbols(m, n) = IF world.symbols[m][n] = NoNode THEN <<>> ELSE <<one>>
    BY <1>2, SymbolsAre
  <2> HIDE DEF one
  <2>2. DOMAIN <<one>> # {}
    OBVIOUS
  <2> QED
    BY <2>1, <2>2
<1> QED
  BY <1>1, <1>2

\* A candidate is a definition of the module and name, or stands for the node alone.
LEMMA CandidateFacts ==
  ASSUME Typed, NEW m \in Module, NEW n \in Name, NEW k \in DOMAIN symbols(m, n)
  PROVE  LET c == symbols(m, n)[k]
         IN /\ k \in Nat /\ c.node = world.symbols[m][n] /\ c # None
            /\ c.def # 0 => /\ c = CandidateOf(c.def) /\ c.def = First(Called(SortOrder[k], m, n))
                            /\ c.def \in Called(SortOrder[k], m, n) /\ k \in 1 .. 5
            /\ c.def = 0 => c.node # NoNode
<1> DEFINE sorts == {j \in 1 .. 5 : First(Called(SortOrder[j], m, n)) # 0}
<1>1. CASE sorts # {}
  <2>1. symbols(m, n) = [j \in sorts |-> CandidateOf(First(Called(SortOrder[j], m, n)))]
    BY <1>1, SymbolsAre
  <2>2. k \in sorts
    BY <2>1
  <2> DEFINE d == First(Called(SortOrder[k], m, n))
  <2>3. d # 0 /\ d \in Called(SortOrder[k], m, n)
    BY <2>2, CalledFirst
  <2>4. symbols(m, n)[k] = CandidateOf(d)
    BY <2>1, <2>2
  <2> HIDE DEF d
  <2>5. Def(d).module = m /\ Def(d).name = n
    BY <2>3 DEF Called
  <2>6. CandidateOf(d) = [module |-> m, def |-> d, node |-> world.symbols[m][n]]
    BY <2>3, <2>5 DEF CandidateOf, NodeOf
  <2> QED
    BY <2>2, <2>3, <2>4, <2>6 DEF None, d
<1>2. CASE sorts = {}
  <2>1. symbols(m, n) = IF world.symbols[m][n] = NoNode THEN <<>>
                        ELSE <<[module |-> m, def |-> 0, node |-> world.symbols[m][n]]>>
    BY <1>2, SymbolsAre
  <2>2. world.symbols[m][n] # NoNode
    BY <2>1
  <2>3. k = 1 /\ symbols(m, n)[k] = [module |-> m, def |-> 0, node |-> world.symbols[m][n]]
    BY <2>1, <2>2
  <2> QED
    BY <2>2, <2>3 DEF None
<1> QED
  BY <1>1, <1>2

\* Where objects are sought, the module's object is found or nothing.
LEMMA ObjectCandidate ==
  ASSUME Typed, NEW m \in Module, NEW n \in Name, NEW domain \in ObjectDomains
  PROVE  domain_candidate_in_module(m, n, domain) = CandidateOf(ModuleObject(m, n))
<1> DEFINE found == {k \in DOMAIN symbols(m, n) : symbol_matches_domain(symbols(m, n)[k], domain)}
           sorts == {k \in 1 .. 5 : First(Called(SortOrder[k], m, n)) # 0}
<1>1. domain_candidate_in_module(m, n, domain)
        = IF found = {} THEN None ELSE symbols(m, n)[First(found)]
  BY DEF domain_candidate_in_module
<1>2. SortOrder[1] = "Object" /\ \A k \in 1 .. 5 : SortOrder[k] = "Object" => k = 1
  BY DEF SortOrder
<1>3. ModuleObject(m, n) = First(Called(SortOrder[1], m, n))
  BY <1>2 DEF ModuleObject, Called
<1>4. ASSUME NEW k \in found PROVE k = 1 /\ ModuleObject(m, n) # 0
  <2>1. k \in DOMAIN symbols(m, n)
    OBVIOUS
  <2> DEFINE c == symbols(m, n)[k]
  <2>2. c.def # 0 /\ Def(c.def).sort = "Object"
    BY <1>4 DEF symbol_matches_domain
  <2>3. c.def = First(Called(SortOrder[k], m, n)) /\ c.def \in Called(SortOrder[k], m, n) /\ k \in 1 .. 5
    BY <2>1, <2>2, CandidateFacts
  <2>4. k = 1
    BY <1>2, <2>2, <2>3 DEF Called
  <2> QED
    BY <1>3, <2>2, <2>3, <2>4
<1>5. CASE ModuleObject(m, n) = 0
  <2>1. found = {}
    BY <1>4, <1>5
  <2> QED
    BY <1>1, <1>5, <2>1 DEF CandidateOf
<1>6. CASE ModuleObject(m, n) # 0
  <2>1. 1 \in sorts
    BY <1>3, <1>6
  <2>2. symbols(m, n) = [k \in sorts |-> CandidateOf(First(Called(SortOrder[k], m, n)))]
    BY <2>1, SymbolsAre
  <2>3. 1 \in DOMAIN symbols(m, n) /\ symbols(m, n)[1] = CandidateOf(ModuleObject(m, n))
    BY <1>3, <2>1, <2>2
  <2>4. ModuleObject(m, n) \in Called("Object", m, n)
    BY <1>2, <1>3, <1>6, CalledFirst
  <2>5. symbol_matches_domain(symbols(m, n)[1], domain)
    BY <1>6, <2>3, <2>4 DEF symbol_matches_domain, CandidateOf, Called
  <2>6. found = {1}
    BY <1>4, <2>3, <2>5
  <2>7. First({1}) = 1
    BY DEF First
  <2> QED
    BY <1>1, <2>3, <2>6, <2>7
<1> QED
  BY <1>5, <1>6

\* Elsewhere the candidate is at the node of the name, if there is one.
LEMMA AnyCandidate ==
  ASSUME Typed, NEW m \in Module, NEW n \in Name, NEW domain, domain \notin ObjectDomains
  PROVE  LET c == domain_candidate_in_module(m, n, domain)
         IN /\ c # None => c.node = world.symbols[m][n]
            /\ c = None => world.symbols[m][n] = NoNode
<1> DEFINE found == {k \in DOMAIN symbols(m, n) : symbol_matches_domain(symbols(m, n)[k], domain)}
<1>1. domain_candidate_in_module(m, n, domain)
        = IF found = {} THEN None ELSE symbols(m, n)[First(found)]
  BY DEF domain_candidate_in_module
<1>2. found = DOMAIN symbols(m, n)
  BY DEF symbol_matches_domain
<1>3. CASE found # {}
  <2>1. found \in SUBSET Nat
    BY <1>2, CandidateFacts
  <2>2. First(found) \in DOMAIN symbols(m, n)
    BY <1>2, <1>3, <2>1, FirstIsLeast
  <2>3. symbols(m, n)[First(found)].node = world.symbols[m][n] /\ symbols(m, n)[First(found)] # None
    BY <2>2, CandidateFacts
  <2> QED
    BY <1>1, <1>3, <2>3
<1>4. CASE found = {}
  <2>1. world.symbols[m][n] = NoNode
    BY <1>2, <1>4, NoSymbols
  <2> QED
    BY <1>1, <1>4, <2>1
<1> QED
  BY <1>3, <1>4

\* What is found in a module is one of the candidates of the name.
LEMMA CandidateApplies ==
  ASSUME Typed, NEW m \in Module, NEW n \in Name, NEW domain,
         domain_candidate_in_module(m, n, domain) # None
  PROVE  domain_candidate_in_module(m, n, domain) \in applicable_candidates(n, domain)
<1> DEFINE found == {k \in DOMAIN symbols(m, n) : symbol_matches_domain(symbols(m, n)[k], domain)}
<1>1. found # {} /\ domain_candidate_in_module(m, n, domain) = symbols(m, n)[First(found)]
  BY DEF domain_candidate_in_module
<1>2. found \in SUBSET Nat
  BY CandidateFacts
<1>3. First(found) \in found
  BY <1>1, <1>2, FirstIsLeast
<1>4. symbols(m, n)[First(found)] \in NamesOf(symbols(m, n))
  BY <1>3 DEF NamesOf
<1> QED
  BY <1>1, <1>3, <1>4 DEF applicable_candidates

\* A candidate stands for its definition, and no candidate for none.
LEMMA CandidateIs ==
  ASSUME world \in Worlds, NEW d \in Defs \cup {0}
  PROVE  /\ CandidateOf(d).def = d /\ (CandidateOf(d) = None <=> d = 0)
         /\ d # 0 => CandidateOf(d).node = NodeOf(d)
<1>1. d \in Defs => d # 0
  BY DefFacts
<1> QED
  BY <1>1 DEF CandidateOf, None

\* The decision of a trace in the scope of a module.
LEMMA ScopedIs ==
  ASSUME NEW m \in Module, NEW n, NEW domain
  PROVE  LET local    == domain_candidate_in_module(m, n, domain)
             imported == ImportedCandidate(m, n, domain)
             s        == resolve_trace_in_scope(m, n, domain)
         IN /\ trace_symbol(m, n, domain).target = s.target
            /\ trace_symbol(m, n, domain).outcome = "Resolved" <=> s.target # None
            /\ local # None => s.target = local /\ s.strategy # "Import"
            /\ local = None /\ imported # None => s.target = imported
            /\ local = None /\ imported = None =>
                 /\ s.target = IF world.permissive THEN global_domain_candidate(n, domain) ELSE None
                 /\ s.strategy # "Import"
<1>1. m # NoModule
  BY ModuleAssumption
<1>2. trace_symbol(m, n, domain)
        = [outcome |-> IF resolve_trace_in_scope(m, n, domain).target = None
                       THEN "Missing" ELSE "Resolved",
           target |-> resolve_trace_in_scope(m, n, domain).target]
  BY <1>1 DEF trace_symbol
<1> QED
  BY <1>2 DEF resolve_trace_in_scope, Selected

\* In scope a trace for an object finds what the resolver finds in scope.
LEMMA ScopedObject ==
  ASSUME Typed, NEW m \in Module, NEW n \in Name, NEW domain \in ObjectDomains
  PROVE  LET s == resolve_trace_in_scope(m, n, domain)
         IN /\ ScopeObject(m, n) # 0 => s.target = CandidateOf(ScopeObject(m, n))
            /\ ScopeObject(m, n) = 0 =>
                 s.target = IF world.permissive THEN global_domain_candidate(n, domain) ELSE None
            /\ s.strategy = "Import" => ScopeObject(m, n) # 0 /\ ObjectUse(m, n) = {<<m, n>>}
<1>1. domain_candidate_in_module(m, n, domain) = CandidateOf(ModuleObject(m, n))
  BY ObjectCandidate
<1>2. world.imports[m][n] \in Module \cup {NoModule}
  BY WorldType DEF Typed
<1>3. ImportedCandidate(m, n, domain)
        = IF FromImport(m, n) THEN CandidateOf(ModuleObject(world.imports[m][n], n)) ELSE None
  BY <1>2, ObjectCandidate DEF ImportedCandidate, FromImport
<1>4. \A k : ModuleObject(k, n) \in Defs \cup {0}
  BY ModuleObjectFinds
<1>5. \A k : CandidateOf(ModuleObject(k, n)) = None <=> ModuleObject(k, n) = 0
  BY <1>4, CandidateIs DEF Typed
<1> QED
  BY <1>1, <1>3, <1>5, ScopedIs DEF ScopeObject, ObjectUse

\* A trace for an object finds what the INDEX and AUGMENTS clauses are linked to.
LEMMA TracedObject ==
  ASSUME Typed, NEW m \in Module, NEW n \in Name, NEW domain \in {"Object", "Index"}
  PROVE  trace_symbol(m, n, domain).target.def = lookup_object_by_name(m, n)
<1>1. domain \in ObjectDomains
  BY DEF ObjectDomains
<1>2. global_domain_candidate(n, domain) = CandidateOf(object_by_name(n))
  BY DEF global_domain_candidate
<1>3. trace_symbol(m, n, domain).target = CandidateOf(lookup_object_by_name(m, n))
  <2>1. PICK target : target = resolve_trace_in_scope(m, n, domain).target
    OBVIOUS
  <2>2. trace_symbol(m, n, domain).target = target
    BY <2>1, ScopedIs
  <2>3. /\ ScopeObject(m, n) # 0 => target = CandidateOf(ScopeObject(m, n))
        /\ ScopeObject(m, n) = 0 =>
             target = IF world.permissive THEN global_domain_candidate(n, domain) ELSE None
    BY <1>1, <2>1, ScopedObject
  <2>4. CASE ScopeObject(m, n) # 0
    BY <2>2, <2>3, <2>4 DEF lookup_object_by_name
  <2>5. CASE ScopeObject(m, n) = 0 /\ world.permissive
    BY <1>2, <2>2, <2>3, <2>5 DEF lookup_object_by_name
  <2>6. CASE ScopeObject(m, n) = 0 /\ ~ world.permissive
    <3>1. CandidateOf(0) = None
      BY DEF CandidateOf
    <3> QED
      BY <2>2, <2>3, <2>6, <3>1 DEF lookup_object_by_name
  <2> QED
    BY <2>4, <2>5, <2>6
<1>4. lookup_object_by_name(m, n) \in Defs \cup {0}
  BY LookupType
<1> QED
  BY <1>3, <1>4, CandidateIs DEF Typed

\* The first module that places a name places it, and where none does, no module does.
LEMMA GlobalNode ==
  ASSUME world \in Worlds, NEW n \in Name
  PROVE  LET defining == {k \in DOMAIN Order : world.symbols[Order[k]][n] # NoNode}
         IN /\ defining = {} => /\ lookup_node_global(n) = NoNode
                                /\ \A m \in Module : world.symbols[m][n] = NoNode
            /\ defining # {} => /\ Order[First(defining)] \in Module
                                /\ lookup_node_global(n) = world.symbols[Order[First(defining)]][n]
                                /\ lookup_node_global(n) \in Node
<1> DEFINE defining == {k \in DOMAIN Order : world.symbols[Order[k]][n] # NoNode}
<1>1. /\ DOMAIN Order = 1 .. Len(Order) /\ \A k \in DOMAIN Order : Order[k] \in Module
      /\ Module = {Order[k] : k \in DOMAIN Order}
  BY SemanticsAssumption, LenProperties
<1>2. defining \in SUBSET Nat
  BY <1>1
<1>3. defining # {} => First(defining) \in defining
  BY <1>2, FirstIsLeast
<1>4. lookup_node_global(n)
        = IF defining = {} THEN NoNode ELSE world.symbols[Order[First(defining)]][n]
  BY DEF lookup_node_global
<1>5. \A m \in Module : world.symbols[m][n] \in Node \cup {NoNode}
  BY WorldType
<1>6. defining = {} => \A m \in Module : world.symbols[m][n] = NoNode
  BY <1>1
<1>7. defining # {} => Order[First(defining)] \in Module
                       /\ world.symbols[Order[First(defining)]][n] # NoNode
  BY <1>1, <1>3
<1> HIDE DEF defining
<1>8. defining # {} => lookup_node_global(n) \in Node
  BY <1>4, <1>5, <1>7
<1> QED
  BY <1>4, <1>6, <1>7, <1>8 DEF defining

\* The object of a notification: in scope both find the same; at Permissive everywhere.
LEMMA TracedNotificationObject ==
  ASSUME Typed, NEW m \in Module, NEW n \in Name
  PROVE  LET target == trace_symbol(m, n, "NotificationObject").target
         IN /\ world.permissive => target.def = NotificationObject(m, n)
            /\ ~ world.permissive => target.def = ScopeObject(m, n)
            /\ NotificationObject(m, n) \in Defs \cup {0}
<1> DEFINE target == trace_symbol(m, n, "NotificationObject").target
           defining == {k \in DOMAIN Order : world.symbols[Order[k]][n] # NoNode}
           o == ScopeObject(m, n)
<1>1. /\ o # 0 => target = CandidateOf(o)
      /\ o = 0 => target = IF world.permissive THEN global_domain_candidate(n, "NotificationObject") ELSE None
  BY ScopedIs, ScopedObject DEF ObjectDomains
<1>2. o \in Defs \cup {0}
  BY LookupType
<1>3. world.imports[m][n] \in Module \cup {NoModule}
      /\ \A k \in Module : world.symbols[k][n] \in Node \cup {NoNode}
  BY WorldType DEF Typed
<1>4. \A x \in Node : attached["Object"][x] \in Defs \cup {0}
  BY DEF Typed, Sorts
<1>5. ScopeNode(m, n) \in Node \cup {NoNode}
  BY <1>3 DEF ScopeNode, FromImport
<1>6. global_domain_candidate(n, "NotificationObject")
        = IF defining = {} THEN None
          ELSE CandidateOf(attached["Object"][world.symbols[Order[First(defining)]][n]])
  BY DEF global_domain_candidate
<1>7. /\ defining = {} => lookup_node_global(n) = NoNode /\ ScopeNode(m, n) = NoNode
      /\ defining # {} => /\ lookup_node_global(n) = world.symbols[Order[First(defining)]][n]
                          /\ lookup_node_global(n) \in Node
  BY <1>3, GlobalNode DEF ScopeNode, FromImport, Typed
<1>8. NoNode \notin Node
  BY SemanticsAssumption
<1>9. NotificationObject(m, n) \in Defs \cup {0}
  BY <1>2, <1>4, <1>5, <1>7, <1>8 DEF NotificationObject, NotificationNode
<1> HIDE DEF target, defining, o
<1>10. o # 0 => target.def = o
  BY <1>1, <1>2, CandidateIs DEF Typed
<1>11. o = 0 /\ ~ world.permissive => target.def = 0
  BY <1>1 DEF None
<1>12. ASSUME o = 0, world.permissive PROVE target.def = NotificationObject(m, n)
  <2>1. CASE defining = {}
    BY <1>1, <1>6, <1>7, <1>12, <2>1 DEF None, NotificationObject, NotificationNode, o
  <2>2. CASE defining # {}
    <3>1. target = CandidateOf(attached["Object"][lookup_node_global(n)])
      BY <1>1, <1>6, <1>7, <1>12, <2>2
    <3>2. NotificationObject(m, n) = attached["Object"][lookup_node_global(n)]
      BY <1>7, <1>8, <1>12, <2>2 DEF NotificationObject, NotificationNode, o
    <3> QED
      BY <1>4, <1>7, <2>2, <3>1, <3>2, CandidateIs DEF Typed
  <2> QED
    BY <2>1, <2>2
<1> QED
  BY <1>9, <1>10, <1>11, <1>12 DEF target, o, NotificationObject

\* A member of a group: where every candidate has a node, a trace finds the resolver's.
LEMMA TracedMember ==
  ASSUME Typed, NEW m \in Module, NEW n \in Name,
         LET target == trace_symbol(m, n, "GroupMember").target
         IN target # None => target.node # NoNode
  PROVE  trace_symbol(m, n, "GroupMember").target.node = MemberNode(m, n)
<1> DEFINE target == trace_symbol(m, n, "GroupMember").target
           defining == {k \in DOMAIN Order : world.symbols[Order[k]][n] # NoNode}
           first == Order[First(defining)]
           here(k) == domain_candidate_in_module(k, n, "GroupMember")
<1>1. \A k \in Module : /\ here(k) # None => here(k).node = world.symbols[k][n]
                        /\ here(k) = None => world.symbols[k][n] = NoNode
  BY AnyCandidate DEF ObjectDomains
<1>2. world.imports[m][n] \in Module \cup {NoModule}
  BY WorldType DEF Typed
<1>3. ImportedCandidate(m, n, "GroupMember")
        = IF FromImport(m, n) THEN here(world.imports[m][n]) ELSE None
  BY DEF ImportedCandidate
<1>4. /\ here(m) # None => target = here(m)
      /\ here(m) = None /\ ImportedCandidate(m, n, "GroupMember") # None
           => target = ImportedCandidate(m, n, "GroupMember")
      /\ here(m) = None /\ ImportedCandidate(m, n, "GroupMember") = None
           => target = IF world.permissive THEN global_domain_candidate(n, "GroupMember") ELSE None
  BY ScopedIs
<1>5. global_domain_candidate(n, "GroupMember") = IF defining = {} THEN None ELSE here(first)
  BY DEF global_domain_candidate
<1>6. /\ defining = {} => lookup_node_global(n) = NoNode
      /\ defining # {} => /\ first \in Module
                          /\ lookup_node_global(n) = world.symbols[first][n]
                          /\ lookup_node_global(n) \in Node
  BY GlobalNode DEF Typed
<1>7. NoNode \notin Node /\ None.node = NoNode
  BY SemanticsAssumption DEF None
<1>8. target # None => target.node # NoNode
  OBVIOUS
<1> HIDE DEF target, defining, first, here
<1>9. CASE here(m) # None
  BY <1>1, <1>4, <1>8, <1>9 DEF MemberNode, ScopeNode, target
<1>10. CASE here(m) = None /\ ImportedCandidate(m, n, "GroupMember") # None
  BY <1>1, <1>2, <1>3, <1>4, <1>8, <1>10 DEF MemberNode, ScopeNode, FromImport, target
<1>11. CASE here(m) = None /\ ImportedCandidate(m, n, "GroupMember") = None
  <2>1. ScopeNode(m, n) = NoNode
    BY <1>1, <1>2, <1>3, <1>11 DEF ScopeNode, FromImport
  <2>2. MemberNode(m, n) = IF world.permissive THEN lookup_node_global(n) ELSE NoNode
    BY <2>1 DEF MemberNode
  <2> QED
    BY <1>1, <1>4, <1>5, <1>6, <1>7, <1>11, <2>2 DEF target
<1> QED
  BY <1>9, <1>10, <1>11

\* A node that a trace finds through an import was used by the lookup of the node.
LEMMA TracedThroughImport ==
  ASSUME Typed, NEW m \in Module, NEW n \in Name, NEW domain, domain \notin ObjectDomains,
         resolve_trace_in_scope(m, n, domain).strategy = "Import",
         resolve_trace_in_scope(m, n, domain).target.node # NoNode
  PROVE  NodeUse(m, n) = {<<m, n>>}
<1> DEFINE here(k) == domain_candidate_in_module(k, n, domain)
<1>1. \A k \in Module : /\ here(k) # None => here(k).node = world.symbols[k][n]
                        /\ here(k) = None => world.symbols[k][n] = NoNode
  BY AnyCandidate
<1>2. world.imports[m][n] \in Module \cup {NoModule}
  BY WorldType DEF Typed
<1>3. ImportedCandidate(m, n, domain) = IF FromImport(m, n) THEN here(world.imports[m][n]) ELSE None
  BY DEF ImportedCandidate
<1>4. here(m) = None /\ ImportedCandidate(m, n, domain) # None
      /\ resolve_trace_in_scope(m, n, domain).target = ImportedCandidate(m, n, domain)
  BY ScopedIs
<1> HIDE DEF here
<1>5. world.symbols[m][n] = NoNode /\ FromImport(m, n)
      /\ world.symbols[world.imports[m][n]][n] # NoNode
  BY <1>1, <1>2, <1>3, <1>4 DEF FromImport
<1> QED
  BY <1>5 DEF NodeUse, ScopeNode

------------------------------------------------------------------------------
(* What the passes leave of their lookups. *)

\* The imports that the passes use for a definition.
UsesOf(d) ==
  LET m == Def(d).module
  IN IF Def(d).sort = "Object"
     THEN Uses(m, (NamesOf(Def(d).index) \ BareTypes) \cup ({Def(d).augments} \ {NoName}))
     ELSE IF Def(d).sort = "Notification"
     THEN UNION {NotificationUse(m, n) : n \in NamesOf(Def(d).objects)}
     ELSE IF Def(d).sort = "Group" THEN UNION {NodeUse(m, n) : n \in NamesOf(Def(d).members)}
     ELSE IF Def(d).sort = "Compliance" THEN UNION {ClauseUses(m, c) : c \in Own(d)}
     ELSE {}

\* The objects of a notification and the members of a group, found and not found.
Looked(d) == [k \in DOMAIN Def(d).objects |-> NotificationObject(Def(d).module, Def(d).objects[k])]
Sought(d) == [k \in DOMAIN Def(d).members |-> MemberNode(Def(d).module, Def(d).members[k])]

Referred(d) ==
  /\ Def(d).sort = "Notification" => refs[d] = Filtered(Looked(d), Defs)
  /\ Def(d).sort = "Group" => refs[d] = Filtered(Sought(d), Node)

\* What was looked up, once the objects are created, is marked and kept.
Explained ==
  /\ DOMAIN refs = Defs
  /\ \A d \in Done("validate") : UsesOf(d) \subseteq used
  /\ \A d \in created : Def(d).sort # "Object" =>
       After("objects") /\ UsesOf(d) \subseteq used /\ Referred(d)

\* The other lookups find the same too.
LEMMA UsesStay ==
  ASSUME Typed, [Next]_vars, After("objects")
  PROVE  \A d : /\ UsesOf(d)' = UsesOf(d) /\ Looked(d)' = Looked(d) /\ Sought(d)' = Sought(d)
                /\ Def(d)' = Def(d)
<1>1. /\ world' = world /\ attached'["Object"] = attached["Object"]
      /\ \A d : (d \in created /\ Def(d).sort = "Object")' <=> (d \in created /\ Def(d).sort = "Object")
  BY ObjectsStay
<1>2. \A d : Def(d)' = Def(d)
  BY <1>1 DEF Def
<1>3. \A m, n : {d \in created : Def(d).sort = "Object" /\ Def(d).module = m /\ Def(d).name = n}'
                  = {d \in created : Def(d).sort = "Object" /\ Def(d).module = m /\ Def(d).name = n}
  BY <1>1, <1>2
<1>4. \A m, n : ModuleObject(m, n)' = ModuleObject(m, n)
  BY <1>3 DEF ModuleObject
<1>5. \A m, n : ScopeObject(m, n)' = ScopeObject(m, n) /\ ScopeNode(m, n)' = ScopeNode(m, n)
  BY LookupsStay
<1>6. \A n : lookup_node_global(n)' = lookup_node_global(n)
  BY <1>1 DEF lookup_node_global
<1>7. \A m, n : /\ ObjectUse(m, n)' = ObjectUse(m, n)
                /\ NodeUse(m, n)' = NodeUse(m, n)
  BY <1>1, <1>4, <1>5 DEF ObjectUse, NodeUse
<1>8. \A m, n : /\ NotificationNode(m, n)' = NotificationNode(m, n)
                /\ MemberNode(m, n)' = MemberNode(m, n)
                /\ NotificationUse(m, n)' = NotificationUse(m, n)
  BY <1>1, <1>5, <1>6, <1>7 DEF NotificationNode, MemberNode, NotificationUse
<1>9. \A m, n : NotificationObject(m, n)' = NotificationObject(m, n)
  BY <1>1, <1>5, <1>8 DEF NotificationObject
<1>10. \A m, S : Uses(m, S)' = Uses(m, S)
  BY <1>7 DEF Uses
<1>11. \A m, c : ClauseUses(m, c)' = ClauseUses(m, c)
  BY <1>7, <1>10 DEF ClauseUses
<1>12. \A d : Own(d)' = Own(d)
  BY <1>2 DEF Own, NamesOf
<1>13. ASSUME NEW d PROVE UsesOf(d)' = UsesOf(d)
  <2> DEFINE m == Def(d).module
             indexed == (NamesOf(Def(d).index) \ BareTypes) \cup ({Def(d).augments} \ {NoName})
  <2>1. Def(d)' = Def(d) /\ m' = m /\ indexed' = indexed
    BY <1>2 DEF NamesOf
  <2>2. Uses(m, indexed)' = Uses(m, indexed)
    <3> HIDE DEF m, indexed
    <3> QED
      BY <1>10, <2>1
  <2>3. (UNION {NotificationUse(m, n) : n \in NamesOf(Def(d).objects)})'
          = UNION {NotificationUse(m, n) : n \in NamesOf(Def(d).objects)}
    BY <1>8, <2>1 DEF NamesOf
  <2>4. (UNION {NodeUse(m, n) : n \in NamesOf(Def(d).members)})'
          = UNION {NodeUse(m, n) : n \in NamesOf(Def(d).members)}
    BY <1>7, <2>1 DEF NamesOf
  <2>5. (UNION {ClauseUses(m, c) : c \in Own(d)})' = UNION {ClauseUses(m, c) : c \in Own(d)}
    BY <1>11, <1>12, <2>1
  <2> QED
    BY <2>1, <2>2, <2>3, <2>4, <2>5 DEF UsesOf
<1>14. \A d : Looked(d)' = Looked(d) /\ Sought(d)' = Sought(d)
  BY <1>2, <1>8, <1>9 DEF Looked, Sought
<1> QED
  BY <1>2, <1>13, <1>14

\* A step that looks nothing up keeps what was found.
LEMMA ExplainedStays ==
  ASSUME Typed, Explained, [Next]_vars, Done("validate")' = Done("validate"),
         world' = world, refs' = refs, used \subseteq used',
         \A d \in created' : d \in created \/ Def(d).sort = "Object"
  PROVE  Explained'
<1>1. Defs' = Defs /\ \A d : Def(d)' = Def(d)
  BY DEF Defs, Def
<1>2. DOMAIN refs' = Defs'
  BY <1>1 DEF Explained
<1>3. ASSUME NEW d \in Done("validate")' PROVE UsesOf(d)' \subseteq used'
  <2>1. d \in Done("validate") /\ After("objects")
    BY <1>3, ValidatedLate
  <2> QED
    BY <2>1, UsesStay DEF Explained
<1>4. ASSUME NEW d \in created', Def(d)'.sort # "Object"
      PROVE  After("objects")' /\ UsesOf(d)' \subseteq used' /\ Referred(d)'
  <2>1. d \in created /\ Def(d).sort # "Object"
    BY <1>1, <1>4
  <2>2. After("objects") /\ UsesOf(d) \subseteq used /\ Referred(d)
    BY <2>1 DEF Explained
  <2>3. After("objects")' /\ UsesOf(d)' = UsesOf(d) /\ Looked(d)' = Looked(d) /\ Sought(d)' = Sought(d)
    BY <2>2, UsesStay, ObjectsStay
  <2>4. Referred(d)'
    BY <1>1, <2>2, <2>3 DEF Referred
  <2> QED
    BY <2>2, <2>3, <2>4
<1> QED
  BY <1>2, <1>3, <1>4 DEF Explained

\* A definition that is created keeps what its pass finds.
LEMMA ExplainedCreates ==
  ASSUME Typed, Explained, [Next]_vars, Done("validate")' = Done("validate"), After("objects"),
         NEW d \in Defs, created' = created \cup {d},
         used \subseteq used', UsesOf(d) \subseteq used',
         DOMAIN refs' = Defs, \A e \in Defs \ {d} : refs'[e] = refs[e],
         Def(d).sort = "Notification" => refs'[d] = Filtered(Looked(d), Defs),
         Def(d).sort = "Group" => refs'[d] = Filtered(Sought(d), Node)
  PROVE  Explained'
<1>1. /\ world' = world /\ After("objects")' /\ Defs' = Defs
      /\ \A e : /\ UsesOf(e)' = UsesOf(e) /\ Looked(e)' = Looked(e) /\ Sought(e)' = Sought(e)
                /\ Def(e)' = Def(e)
  BY UsesStay, ObjectsStay DEF Defs
<1>2. DOMAIN refs' = Defs'
  BY <1>1
<1>3. \A e \in Done("validate")' : UsesOf(e)' \subseteq used'
  BY <1>1 DEF Explained
<1>4. ASSUME NEW e \in created', Def(e)'.sort # "Object"
      PROVE  After("objects")' /\ UsesOf(e)' \subseteq used' /\ Referred(e)'
  <2>1. CASE e = d
    <3>1. Referred(e)'
      BY <1>1, <2>1 DEF Referred
    <3> QED
      BY <1>1, <2>1, <3>1
  <2>2. CASE e # d
    <3>1. e \in created /\ Def(e).sort # "Object" /\ e \in Defs \ {d}
      BY <1>1, <1>4, <2>2 DEF Typed
    <3>2. UsesOf(e) \subseteq used /\ Referred(e) /\ refs'[e] = refs[e]
      BY <3>1 DEF Explained
    <3>3. Referred(e)'
      BY <1>1, <3>2 DEF Referred
    <3> QED
      BY <1>1, <3>2, <3>3
  <2> QED
    BY <2>1, <2>2
<1> QED
  BY <1>2, <1>3, <1>4 DEF Explained

\* The passes over the definitions that are no objects come after the objects.
LEMMA CreatedLate ==
  ASSUME Typed, NEW d \in Defs, NEW p \in {"Notification", "Group", "Compliance", "Capability"},
         Comes(p, d), world' = world
  PROVE  After("objects") /\ Def(d).sort = p /\ Done("validate")' = Done("validate")
<1>1. pass = p /\ d \in Work(p)
  BY ComesFacts
<1>2. After("objects")
  BY <1>1, RankOf DEF After
<1>3. Def(d).sort = p
  BY <1>1 DEF Work
<1>4. Done("validate")' = Done("validate")
  BY DoneComes
<1> QED
  BY <1>2, <1>3, <1>4

LEMMA NotificationExplained ==
  ASSUME Typed, Explained, [Next]_vars, NEW d \in Defs, CreateNotification(d)
  PROVE  Explained'
<1>1. Comes("Notification", d) /\ world' = world
  BY DEF CreateNotification
<1>2. After("objects") /\ Def(d).sort = "Notification" /\ Done("validate")' = Done("validate")
  BY <1>1, CreatedLate
<1>3. CASE Skip(d)
  BY <1>1, <1>2, <1>3, ExplainedStays DEF Skip
<1>4. CASE ~ Skip(d)
  <2>1. /\ created' = created \cup {d}
        /\ refs' = [refs EXCEPT ![d] = Filtered(Looked(d), Defs)]
        /\ used' = used \cup UNION {NotificationUse(Def(d).module, n) : n \in NamesOf(Def(d).objects)}
    BY <1>4 DEF CreateNotification, Create, Looked
  <2>2. UsesOf(d) \subseteq used' /\ used \subseteq used'
    BY <1>2, <2>1 DEF UsesOf
  <2>3. /\ DOMAIN refs' = Defs /\ refs'[d] = Filtered(Looked(d), Defs)
        /\ \A e \in Defs \ {d} : refs'[e] = refs[e]
    BY <2>1 DEF Explained
  <2> QED
    BY <1>2, <2>1, <2>2, <2>3, ExplainedCreates
<1> QED
  BY <1>3, <1>4

LEMMA GroupExplained ==
  ASSUME Typed, Explained, [Next]_vars, NEW d \in Defs, CreateGroup(d)
  PROVE  Explained'
<1>1. Comes("Group", d) /\ world' = world
  BY DEF CreateGroup
<1>2. After("objects") /\ Def(d).sort = "Group" /\ Done("validate")' = Done("validate")
  BY <1>1, CreatedLate
<1>3. CASE Skip(d)
  BY <1>1, <1>2, <1>3, ExplainedStays DEF Skip
<1>4. CASE ~ Skip(d)
  <2>1. /\ created' = created \cup {d}
        /\ refs' = [refs EXCEPT ![d] = Filtered(Sought(d), Node)]
        /\ used' = used \cup UNION {NodeUse(Def(d).module, n) : n \in NamesOf(Def(d).members)}
    BY <1>4 DEF CreateGroup, Create, Sought
  <2>2. UsesOf(d) \subseteq used' /\ used \subseteq used'
    BY <1>2, <2>1 DEF UsesOf
  <2>3. /\ DOMAIN refs' = Defs /\ refs'[d] = Filtered(Sought(d), Node)
        /\ \A e \in Defs \ {d} : refs'[e] = refs[e]
    BY <2>1 DEF Explained
  <2> QED
    BY <1>2, <2>1, <2>2, <2>3, ExplainedCreates
<1> QED
  BY <1>3, <1>4

LEMMA ComplianceExplained ==
  ASSUME Typed, Explained, [Next]_vars, NEW d \in Defs, CreateCompliance(d)
  PROVE  Explained'
<1>1. Comes("Compliance", d) /\ world' = world /\ refs' = refs
      /\ used' = used \cup UNION {ClauseUses(Def(d).module, c) : c \in Own(d)}
  BY DEF CreateCompliance
<1>2. After("objects") /\ Def(d).sort = "Compliance" /\ Done("validate")' = Done("validate")
  BY <1>1, CreatedLate
<1>3. UsesOf(d) \subseteq used' /\ used \subseteq used'
  BY <1>1, <1>2 DEF UsesOf
<1>4. CASE created' = created
  BY <1>1, <1>2, <1>3, <1>4, ExplainedStays
<1>5. CASE created' = created \cup {d}
  <2>1. DOMAIN refs' = Defs /\ \A e \in Defs \ {d} : refs'[e] = refs[e]
    BY <1>1 DEF Explained
  <2> QED
    BY <1>2, <1>3, <1>5, <2>1, ExplainedCreates
<1> QED
  BY <1>4, <1>5 DEF CreateCompliance, Create

LEMMA CapabilityExplained ==
  ASSUME Typed, Explained, [Next]_vars, NEW d \in Defs, CreateCapability(d)
  PROVE  Explained'
<1>1. Comes("Capability", d) /\ world' = world
  BY DEF CreateCapability
<1>2. After("objects") /\ Def(d).sort = "Capability" /\ Done("validate")' = Done("validate")
  BY <1>1, CreatedLate
<1>3. CASE Skip(d)
  BY <1>1, <1>2, <1>3, ExplainedStays DEF Skip
<1>4. CASE ~ Skip(d)
  <2>1. PICK r : refs' = [refs EXCEPT ![d] = r]
    BY <1>4 DEF CreateCapability
  <2>2. created' = created \cup {d} /\ used \subseteq used'
    BY <1>4 DEF CreateCapability, Create
  <2>3. UsesOf(d) \subseteq used'
    BY <1>2 DEF UsesOf
  <2>4. DOMAIN refs' = Defs /\ \A e \in Defs \ {d} : refs'[e] = refs[e]
    BY <2>1 DEF Explained
  <2> QED
    BY <1>2, <2>2, <2>3, <2>4, ExplainedCreates
<1> QED
  BY <1>3, <1>4

\* The validation marks what the definitions of objects name.
LEMMA ValidateExplained ==
  ASSUME Typed, Explained, [Next]_vars, NEW d \in Defs, ValidateTable(d)
  PROVE  Explained'
<1>1. Comes("validate", d) /\ world' = world /\ refs' = refs /\ created' = created
  BY DEF ValidateTable
<1>2. pass = "validate" /\ After("objects") /\ d \in Work("validate")
  BY <1>1, ComesFacts, ValidatedLate
<1>3. Def(d).sort = "Object" /\ Done("validate")' = Done("validate") \cup {d}
  BY <1>1, <1>2, DoneComes DEF Work
<1>4. UsesOf(d) \subseteq used' /\ used \subseteq used'
  BY <1>3 DEF UsesOf, ValidateTable
<1>5. /\ After("objects")' /\ Defs' = Defs
      /\ \A e : /\ UsesOf(e)' = UsesOf(e) /\ Looked(e)' = Looked(e) /\ Sought(e)' = Sought(e)
                /\ Def(e)' = Def(e)
  BY <1>1, <1>2, UsesStay, ObjectsStay DEF Defs
<1>6. \A e \in Done("validate")' : UsesOf(e)' \subseteq used'
  BY <1>3, <1>4, <1>5 DEF Explained
<1>7. \A e : Referred(e) => Referred(e)'
  BY <1>1, <1>5 DEF Referred
<1> QED
  BY <1>1, <1>4, <1>5, <1>6, <1>7 DEF Explained

LEMMA ExplainedInit == Init => Explained
<1> SUFFICES ASSUME Init PROVE Explained
  OBVIOUS
<1>1. Done("validate") = {}
  <2>1. pass = "structures"
    BY DEF Init
  <2> QED
    BY <2>1, RankOf DEF Done, After
<1> QED
  BY <1>1 DEF Explained, Init

LEMMA ExplainedStep == Typed /\ Explained /\ [Next]_vars => Explained'
<1> SUFFICES ASSUME Typed, Explained, [Next]_vars PROVE Explained'
  OBVIOUS
<1>1. "validate" \in PassNames
  BY DEF PassNames, Passes
<1>2. CASE UNCHANGED vars
  <2>1. Done("validate")' = Done("validate") /\ UNCHANGED <<world, created, refs, used>>
    BY <1>2, WorkStays DEF vars, After, Rank, Passes, Done
  <2> QED
    BY <2>1, ExplainedStays
<1>3. CASE CollectStructures \/ NextPass \/ ReclassifyColumns
  <2>1. Done("validate")' = Done("validate")
    BY <1>1, <1>3, PassMoves
  <2>2. UNCHANGED <<world, created, refs, used>>
    BY <1>3 DEF CollectStructures, NextPass, ReclassifyColumns
  <2> QED
    BY <2>1, <2>2, ExplainedStays
<1>4. ASSUME NEW d \in Defs, InferKind(d) \/ CreateObject(d) \/ LinkIndexes(d) \/ CheckNesting(d)
      PROVE  Explained'
  <2>1. PICK p \in {"kinds", "objects", "link", "nesting"} : Comes(p, d)
    BY <1>4 DEF InferKind, CreateObject, LinkIndexes, CheckNesting
  <2>2. /\ world' = world /\ refs' = refs /\ used \subseteq used'
        /\ created' = created \/ (p = "objects" /\ created' = created \cup {d})
    <3>1. CreateObject(d) => p = "objects"
      BY <2>1 DEF CreateObject, Comes
    <3> QED
      BY <1>4, <3>1 DEF InferKind, CreateObject, LinkIndexes, CheckNesting
  <2>3. Done("validate")' = Done("validate")
    BY <2>1, <2>2, DoneComes
  <2>4. p = "objects" => Def(d).sort = "Object"
    BY <2>1, ComesFacts, ObjectWork
  <2> QED
    BY <2>2, <2>3, <2>4, ExplainedStays
<1>5. ASSUME NEW d \in Defs, ValidateTable(d)
      PROVE  Explained'
  BY <1>5, ValidateExplained
<1>6. ASSUME NEW d \in Defs, Creates(d)
      PROVE  Explained'
  BY <1>6, NotificationExplained, GroupExplained, ComplianceExplained, CapabilityExplained DEF Creates
<1> QED
  BY <1>2, <1>3, <1>4, <1>5, <1>6 DEF Next, Creates

LEMMA AlwaysExplained == Spec => [](Typed /\ Explained)
<1>1. Init => Typed /\ Explained
  BY TypedInit, ExplainedInit
<1>2. Typed /\ Explained /\ [Next]_vars => (Typed /\ Explained)'
  BY TypedStep, ExplainedStep
<1> QED
  BY <1>1, <1>2, PTL DEF Spec

------------------------------------------------------------------------------
(* A trace explains the finished Mib. *)

LEMMA Finished ==
  ASSUME pass = "done"
  PROVE  /\ Done("validate") = Work("validate") /\ Done("link") = Work("link")
BY RankOf DEF Done, After

\* The lists of a definition name names, and those of other sorts are empty.
LEMMA DefLists ==
  ASSUME world \in Worlds, NEW d \in Defs
  PROVE  /\ AsParsed(Def(d))
         /\ Def(d).objects \in Seq(Name) /\ Def(d).members \in Seq(Name)
         /\ Def(d).clauses \in Seq(Clause)
<1>1. Def(d) \in Definition
  BY WorldType
<1>2. AsParsed(Def(d))
  BY SemanticsAssumption DEF Defs, Def
<1> QED
  BY <1>1, <1>2 DEF Definition

LEMMA NamesOfList ==
  ASSUME NEW T, NEW s \in Seq(T)
  PROVE  NamesOf(s) \subseteq T /\ DOMAIN s = 1 .. Len(s) /\ Len(s) \in Nat
         /\ (\A k \in DOMAIN s : s[k] \in T)
BY LenProperties DEF NamesOf

\* INDEX and AUGMENTS are linked to what a trace selects.
LEMMA RowIsTraced ==
  ASSUME LinkInv, pass = "done", NEW d \in created, AloneInName(d), Def(d).sort = "Object"
  PROVE  RowAgrees(d)
<1> USE DEF LinkInv
<1>1. d \in Defs /\ WellLinked(d)
  BY DEF Typed, Linked
<1>2. index[d] = Entries(d) /\ augments[d] = Target(d)
  BY <1>1, Finished, ObjectWork DEF WellLinked
<1>3. /\ Def(d).module \in Module /\ Def(d).index \in Seq(Name)
      /\ Def(d).augments \in Name \cup {NoName}
  BY <1>1, DefFacts DEF Typed
<1>4. \A n \in Name, domain \in {"Object", "Index"} :
        trace_symbol(Def(d).module, n, domain).target.def = lookup_object_by_name(Def(d).module, n)
  BY <1>3, TracedObject
<1>5. \A k \in DOMAIN Def(d).index : Def(d).index[k] \in Name
  BY <1>3, NamesOfList
<1>6. /\ DOMAIN Entries(d) = DOMAIN Def(d).index
      /\ \A k \in DOMAIN Entries(d) : Entries(d)[k] = Entry(Def(d).module, Def(d).index[k])
  BY DEF Entries
<1>7. ASSUME NEW k \in DOMAIN index[d], index[d][k].name \notin BareTypes
      PROVE  index[d][k].object
               = trace_symbol(Def(d).module, index[d][k].name, "Index").target.def
  <2>1. k \in DOMAIN Def(d).index /\ index[d][k] = Entry(Def(d).module, Def(d).index[k])
    BY <1>2, <1>6
  <2>2. index[d][k].name = Def(d).index[k]
        /\ index[d][k].object = lookup_object_by_name(Def(d).module, Def(d).index[k])
    BY <1>7, <2>1 DEF Entry
  <2> QED
    BY <1>4, <1>5, <2>1, <2>2
<1>8. Def(d).augments # NoName =>
        augments[d] = trace_symbol(Def(d).module, Def(d).augments, "Object").target.def
  BY <1>2, <1>3, <1>4 DEF Target
<1> QED
  BY <1>7, <1>8 DEF RowAgrees

\* The objects of a notification are those that a trace selects.
LEMMA NotificationIsTraced ==
  ASSUME Typed, Explained, NEW d \in created, Def(d).sort = "Notification"
  PROVE  NotificationAgrees(d)
<1> DEFINE m == Def(d).module
           names == Def(d).objects
           found(n) == trace_symbol(m, n, "NotificationObject").target.def
           selected == [k \in DOMAIN names |-> found(names[k])]
           carried == {attached["Object"][ScopeNode(m, n)] : n \in {x \in NamesOf(names) : ScopeNode(m, x) # NoNode}}
<1>1. d \in Defs /\ refs[d] = Filtered(Looked(d), Defs)
  BY DEF Explained, Referred, Typed
<1>2. m \in Module /\ names \in Seq(Name)
  BY <1>1, DefFacts, DefLists DEF Typed
<1>3. DOMAIN names = 1 .. Len(names) /\ Len(names) \in Nat /\ \A k \in DOMAIN names : names[k] \in Name
  BY <1>2, NamesOfList
<1>4. \A n \in Name : /\ world.permissive => found(n) = NotificationObject(m, n)
                      /\ ~ world.permissive => found(n) = ScopeObject(m, n)
  BY <1>2, TracedNotificationObject
<1>5. Looked(d) = [k \in DOMAIN names |-> NotificationObject(m, names[k])]
  BY DEF Looked
<1>6. NotificationAgrees(d) <=>
        IF world.permissive THEN refs[d] = Filtered(selected, Defs)
        ELSE /\ NamesOf(Filtered(selected, Defs)) \subseteq NamesOf(refs[d])
             /\ NamesOf(refs[d]) \subseteq NamesOf(Filtered(selected, Defs)) \cup carried
  BY DEF NotificationAgrees
<1>7. 0 \notin Defs
  BY DefFacts DEF Typed
<1>8. \A n \in Name : ScopeObject(m, n) \in Defs \cup {0}
  BY <1>2, LookupType
<1> HIDE DEF m, names, found, carried
<1>9. CASE world.permissive
  <2>1. selected = Looked(d)
    BY <1>3, <1>4, <1>5, <1>9
  <2> HIDE DEF selected
  <2> QED
    BY <1>1, <1>6, <1>9, <2>1
<1>10. CASE ~ world.permissive
  <2>1. /\ NamesOf(Filtered(selected, Defs)) = {found(names[k]) : k \in DOMAIN names} \cap Defs
        /\ NamesOf(refs[d]) = {NotificationObject(m, names[k]) : k \in DOMAIN names} \cap Defs
    <3>1. selected \in Seq({found(names[k]) : k \in DOMAIN names})
      BY <1>3
    <3>2. Looked(d) \in Seq({NotificationObject(m, names[k]) : k \in DOMAIN names})
      BY <1>3, <1>5
    <3>3. /\ NamesOf(selected) = {found(names[k]) : k \in DOMAIN names}
          /\ NamesOf(Looked(d)) = {NotificationObject(m, names[k]) : k \in DOMAIN names}
      BY <1>5 DEF NamesOf
    <3> HIDE DEF selected
    <3> QED
      BY <1>1, <3>1, <3>2, <3>3, FilteredNames
  <2>2. ASSUME NEW k \in DOMAIN names, found(names[k]) \in Defs
        PROVE  found(names[k]) = NotificationObject(m, names[k])
    BY <1>3, <1>4, <1>7, <1>10, <2>2 DEF NotificationObject
  <2>3. ASSUME NEW k \in DOMAIN names, NotificationObject(m, names[k]) \in Defs,
               found(names[k]) # NotificationObject(m, names[k])
        PROVE  NotificationObject(m, names[k]) \in carried
    <3>1. ScopeObject(m, names[k]) = 0
      BY <1>3, <1>4, <1>10, <2>3 DEF NotificationObject
    <3>2. /\ ScopeNode(m, names[k]) # NoNode
          /\ NotificationObject(m, names[k]) = attached["Object"][ScopeNode(m, names[k])]
      BY <1>7, <1>10, <2>3, <3>1 DEF NotificationObject, NotificationNode
    <3>3. names[k] \in NamesOf(names)
      BY DEF NamesOf
    <3> QED
      BY <3>2, <3>3 DEF carried
  <2> HIDE DEF selected
  <2>4. NamesOf(Filtered(selected, Defs)) \subseteq NamesOf(refs[d])
    BY <2>1, <2>2
  <2>5. NamesOf(refs[d]) \subseteq NamesOf(Filtered(selected, Defs)) \cup carried
    BY <2>1, <2>3
  <2> QED
    BY <1>6, <1>10, <2>4, <2>5
<1> QED
  BY <1>9, <1>10

\* The members of a group are those that a trace selects.
LEMMA GroupIsTraced ==
  ASSUME Typed, Explained, NEW d \in created, Def(d).sort = "Group"
  PROVE  GroupAgrees(d)
<1> DEFINE m == Def(d).module
           names == Def(d).members
           targets == [k \in DOMAIN names |-> trace_symbol(m, names[k], "GroupMember").target]
<1>1. d \in Defs /\ refs[d] = Filtered(Sought(d), Node)
  BY DEF Explained, Referred, Typed
<1>2. m \in Module /\ names \in Seq(Name)
  BY <1>1, DefFacts, DefLists DEF Typed
<1>3. \A k \in DOMAIN names : names[k] \in Name
  BY <1>2, NamesOfList
<1>4. SUFFICES ASSUME \A k \in DOMAIN names : targets[k] # None => targets[k].node # NoNode
               PROVE  refs[d] = Filtered([k \in DOMAIN names |-> targets[k].node], Node)
  BY DEF GroupAgrees
<1>5. ASSUME NEW k \in DOMAIN names
      PROVE  targets[k].node = MemberNode(m, names[k])
  BY <1>2, <1>3, <1>4, TracedMember
<1>6. Sought(d) = [k \in DOMAIN names |-> MemberNode(m, names[k])]
  BY DEF Sought
<1> HIDE DEF m, names, targets
<1>7. [k \in DOMAIN names |-> targets[k].node] = Sought(d)
  BY <1>5, <1>6
<1> QED
  BY <1>1, <1>7

\* An import that a trace goes through was marked as used.
LEMMA ImportIsMarked ==
  ASSUME Typed, Explained, pass = "done", NEW d \in created, NEW domain \in Domains,
         NEW n \in NamedBy(d, domain),
         resolve_trace_in_scope(Def(d).module, n, domain).strategy = "Import",
         resolve_trace_in_scope(Def(d).module, n, domain).target.node # NoNode
  PROVE  <<Def(d).module, n>> \in used
<1> DEFINE m == Def(d).module
<1>1. d \in Defs /\ world \in Worlds
  BY DEF Typed
<1>2. m \in Module /\ Def(d).sort \in Sorts /\ Def(d).index \in Seq(Name)
      /\ Def(d).augments \in Name \cup {NoName}
  BY <1>1, DefFacts
<1>3. /\ AsParsed(Def(d)) /\ Def(d).objects \in Seq(Name) /\ Def(d).members \in Seq(Name)
      /\ Def(d).clauses \in Seq(Clause)
  BY <1>1, DefLists
<1>4. NamesOf(<<>>) = {}
  BY DEF NamesOf
<1>5. /\ Def(d).sort # "Object" => NamesOf(Def(d).index) = {} /\ Def(d).augments = NoName
      /\ Def(d).sort # "Notification" => NamesOf(Def(d).objects) = {}
      /\ Def(d).sort # "Group" => NamesOf(Def(d).members) = {}
      /\ Def(d).sort # "Compliance" => Own(d) = {}
  BY <1>3, <1>4 DEF AsParsed, Own
<1>6. \A c \in Own(d) : NamesOf(c.groups) \subseteq Name /\ NamesOf(c.objects) \subseteq Name
  <2>1. \A c \in Own(d) : c \in Clause
    BY <1>3, NamesOfList DEF Own
  <2> QED
    BY <2>1, NamesOfList DEF Clause
<1>7. /\ NamesOf(Def(d).index) \subseteq Name /\ NamesOf(Def(d).objects) \subseteq Name
      /\ NamesOf(Def(d).members) \subseteq Name
  BY <1>2, <1>3, NamesOfList
<1>8. Def(d).sort # "Object" => UsesOf(d) \subseteq used
  BY DEF Explained
<1>9. Def(d).sort = "Object" /\ (NamesOf(Def(d).index) # {} \/ Def(d).augments # NoName)
        => UsesOf(d) \subseteq used
  <2>1. SUFFICES ASSUME Def(d).sort = "Object",
                        NamesOf(Def(d).index) # {} \/ Def(d).augments # NoName
                 PROVE  d \in Work("validate")
    BY Finished DEF Explained
  <2> QED
    BY <1>1, <1>4, <2>1 DEF Work
<1>10. ASSUME n \in Name, domain \in ObjectDomains
       PROVE  ScopeObject(m, n) # 0 /\ ObjectUse(m, n) = {<<m, n>>}
  BY <1>2, <1>10, ScopedObject DEF Typed
<1>11. ASSUME n \in Name, domain \notin ObjectDomains
       PROVE  NodeUse(m, n) = {<<m, n>>}
  BY <1>2, <1>11, TracedThroughImport
<1>12. CASE domain = "Index"
  <2>1. n \in NamesOf(Def(d).index) \ BareTypes
    BY <1>12 DEF NamedBy
  <2>2. Def(d).sort = "Object" /\ n \in Name /\ domain \in ObjectDomains
    BY <1>5, <1>7, <1>12, <2>1 DEF ObjectDomains
  <2>3. ObjectUse(m, n) \subseteq UsesOf(d)
    BY <2>1, <2>2 DEF UsesOf, Uses
  <2> QED
    BY <1>9, <1>10, <2>1, <2>2, <2>3
<1>13. CASE domain = "Object"
  <2>1. n \in ({Def(d).augments} \ {NoName}) \cup UNION {NamesOf(c.objects) : c \in Own(d)}
    BY <1>13 DEF NamedBy
  <2>2. domain \in ObjectDomains
    BY <1>13 DEF ObjectDomains
  <2>3. CASE n = Def(d).augments /\ n # NoName
    <3>1. Def(d).sort = "Object" /\ n \in Name
      BY <1>2, <1>5, <2>3
    <3>2. ObjectUse(m, n) \subseteq UsesOf(d)
      BY <2>3, <3>1 DEF UsesOf, Uses
    <3> QED
      BY <1>9, <1>10, <2>2, <2>3, <3>1, <3>2
  <2>4. CASE \E c \in Own(d) : n \in NamesOf(c.objects)
    <3>1. PICK c \in Own(d) : n \in NamesOf(c.objects)
      BY <2>4
    <3>2. Def(d).sort = "Compliance" /\ n \in Name
      BY <1>5, <1>6, <3>1
    <3>3. ObjectUse(m, n) \subseteq ClauseUses(m, c)
      BY <3>1 DEF ClauseUses, Uses
    <3>4. ClauseUses(m, c) \subseteq UsesOf(d)
      BY <3>1, <3>2 DEF UsesOf
    <3> QED
      BY <1>8, <1>10, <2>2, <3>2, <3>3, <3>4
  <2> QED
    BY <2>1, <2>3, <2>4
<1>14. CASE domain = "NotificationObject"
  <2>1. n \in NamesOf(Def(d).objects)
    BY <1>14 DEF NamedBy
  <2>2. Def(d).sort = "Notification" /\ n \in Name /\ domain \in ObjectDomains
    BY <1>5, <1>7, <1>14, <2>1 DEF ObjectDomains
  <2>3. NotificationUse(m, n) \subseteq UsesOf(d)
    BY <2>1, <2>2 DEF UsesOf
  <2> QED
    BY <1>8, <1>10, <2>2, <2>3 DEF NotificationUse
<1>15. CASE domain = "GroupMember"
  <2>1. n \in NamesOf(Def(d).members)
    BY <1>15 DEF NamedBy
  <2>2. Def(d).sort = "Group" /\ n \in Name /\ domain \notin ObjectDomains
    BY <1>5, <1>7, <1>15, <2>1 DEF ObjectDomains
  <2>3. NodeUse(m, n) \subseteq UsesOf(d)
    BY <2>1, <2>2 DEF UsesOf
  <2> QED
    BY <1>8, <1>11, <2>2, <2>3
<1>16. CASE domain = "Conformance"
  <2>1. PICK c \in Own(d) : n \in NamesOf(c.groups)
    BY <1>16 DEF NamedBy
  <2>2. Def(d).sort = "Compliance" /\ n \in Name /\ domain \notin ObjectDomains
    BY <1>5, <1>6, <1>16, <2>1 DEF ObjectDomains
  <2>3. NodeUse(m, n) \subseteq ClauseUses(m, c)
    BY <2>1 DEF ClauseUses
  <2>4. ClauseUses(m, c) \subseteq UsesOf(d)
    BY <2>1, <2>2 DEF UsesOf
  <2> QED
    BY <1>8, <1>11, <2>2, <2>3, <2>4
<1> QED
  BY <1>12, <1>13, <1>14, <1>15, <1>16 DEF Domains

\* The object that any module finds under a name is the first of its name in its module:
\* the node of the name carries the best of its definitions.
LEMMA ObjectByNameIsFirst ==
  ASSUME OwnerInv, NEW n \in Name, object_by_name(n) # 0
  PROVE  LET o == object_by_name(n)
         IN Def(o).module \in Module /\ ModuleObject(Def(o).module, n) = o
<1> USE DEF OwnerInv
<1> DEFINE candidates == {d \in created : Def(d).sort = "Object" /\ Def(d).name = n}
           nodes      == world.named[n]
           carrying   == {k \in DOMAIN nodes : attached["Object"][nodes[k]] \in candidates}
<1>1. object_by_name(n) = IF carrying # {} THEN attached["Object"][nodes[First(carrying)]]
                          ELSE First(candidates)
  BY DEF object_by_name
<1>2. nodes \in Seq(Node) /\ world \in Worlds
  BY WorldType DEF Typed
<1>3. DOMAIN nodes \subseteq Nat /\ \A k \in DOMAIN nodes : nodes[k] \in Node
  BY <1>2, NamesOfList
<1>4. candidates \in SUBSET Defs /\ candidates \in SUBSET Nat
  BY DefFacts DEF Typed
<1> HIDE DEF nodes
<1>5. PICK o : o = object_by_name(n)
  OBVIOUS
<1>6. o \in candidates
  <2>1. CASE carrying # {}
    <3>1. First(carrying) \in carrying
      BY <1>3, <2>1, FirstIsLeast
    <3> QED
      BY <1>1, <1>5, <2>1, <3>1
  <2>2. CASE carrying = {}
    <3>1. o = First(candidates)
      BY <1>1, <1>5, <2>2
    <3> HIDE DEF candidates, carrying
    <3>2. (candidates = {} => First(candidates) = 0)
          /\ (candidates # {} => First(candidates) \in candidates)
      BY <1>2, <1>4, FirstOfDefs
    <3> QED
      BY <1>5, <3>1, <3>2
  <2> QED
    BY <2>1, <2>2
<1>7. o \in created /\ o \in Defs /\ o \in Nat /\ Def(o).sort = "Object" /\ Def(o).name = n
      /\ Def(o).module \in Module
  BY <1>2, <1>4, <1>6, DefFacts
<1> DEFINE named == {d \in created : Def(d).sort = "Object" /\ Def(d).module = Def(o).module
                                      /\ Def(d).name = n}
<1>8. named \in SUBSET Nat /\ o \in named /\ ModuleObject(Def(o).module, n) = First(named)
  BY <1>4, <1>7 DEF ModuleObject
<1>9. PICK p : p = First(named)
  OBVIOUS
<1>10. p \in named /\ p <= o /\ p \in Defs /\ p \in Nat
  BY <1>4, <1>7, <1>8, <1>9, FirstIsLeast DEF Typed
<1> HIDE DEF named
<1>11. o <= p
  <2>1. CASE carrying # {}
    <3>1. First(carrying) \in carrying
      BY <1>3, <2>1, FirstIsLeast
    <3>2. PICK x \in Node : attached["Object"][x] = o
      BY <1>1, <1>3, <1>5, <2>1, <3>1
    <3>3. Preferred("objects", x, o)
      BY <1>7, <1>2, <3>2, DefFacts DEF Carried
    <3>4. o \in At("objects", x) /\ \A e \in At("objects", x) \ {o} : Beats(o, e)
      BY <3>3 DEF Preferred, Best
    <3>5. Def(p).sort = "Object" /\ Def(p).module = Def(o).module /\ Def(p).name = n /\ p \in created
      BY <1>10 DEF named
    <3>6. p \in At("objects", x)
      BY <1>7, <1>10, <3>4, <3>5 DEF At, NodeOf, Typed
    <3>7. ~ Overrules(world.facts, Def(o).module, Def(o).module)
      BY <1>2, <1>7, WorldType, OverrulesIsStrict
    <3> QED
      BY <1>7, <1>10, <3>4, <3>5, <3>6, <3>7 DEF Beats
  <2>2. CASE carrying = {}
    <3>1. o = First(candidates) /\ p \in candidates
      BY <1>1, <1>5, <1>10, <2>2 DEF named
    <3> QED
      BY <1>4, <3>1, FirstIsLeast
  <2> QED
    BY <2>1, <2>2
<1> QED
  BY <1>5, <1>7, <1>8, <1>9, <1>10, <1>11


------------------------------------------------------------------------------
(* Without a scope. *)

\* What a function takes finite sets to is finite.
LEMMA FiniteImage ==
  ASSUME NEW S, IsFiniteSet(S), NEW f, f \in [S -> {f[x] : x \in S}]
  PROVE  IsFiniteSet({f[x] : x \in S})
<1>1. f \in Surjection(S, {f[x] : x \in S})
  BY DEF Surjection
<1> QED
  BY <1>1, FS_Surjection

\* A module calls a name by finitely many symbols.
LEMMA SymbolsFinite ==
  ASSUME NEW m, NEW n
  PROVE  IsFiniteSet(NamesOf(symbols(m, n)))
<1> DEFINE sorts == {k \in 1 .. 5 : First(Called(SortOrder[k], m, n)) # 0}
           node  == [module |-> m, def |-> 0, node |-> world.symbols[m][n]]
<1>1. CASE sorts # {}
  <2>1. PICK f : f = symbols(m, n)
    OBVIOUS
  <2>2. f = [k \in sorts |-> CandidateOf(First(Called(SortOrder[k], m, n)))]
    BY <1>1, <2>1, SymbolsAre
  <2>3. DOMAIN f = sorts /\ f \in [sorts -> {f[x] : x \in sorts}]
    BY <2>2
  <2>4. IsFiniteSet(sorts)
    <3>1. IsFiniteSet(1 .. 5)
      <4>1. 1 \in Int /\ 5 \in Int
        OBVIOUS
      <4> QED
        BY <4>1, FS_Interval, Zenon
    <3>2. sorts \in SUBSET (1 .. 5)
      OBVIOUS
    <3> HIDE DEF sorts
    <3> QED
      BY <3>1, <3>2, FS_Subset
  <2> HIDE DEF sorts
  <2>5. IsFiniteSet({f[x] : x \in sorts})
    BY <2>3, <2>4, FiniteImage
  <2> QED
    BY <2>1, <2>3, <2>5 DEF NamesOf
<1>2. CASE sorts = {} /\ world.symbols[m][n] = NoNode
  <2>1. symbols(m, n) = <<>>
    BY <1>2, SymbolsAre
  <2>2. NamesOf(symbols(m, n)) = {}
    BY <2>1 DEF NamesOf
  <2> QED
    BY <2>2, FS_EmptySet
<1>3. CASE sorts = {} /\ world.symbols[m][n] # NoNode
  <2>1. symbols(m, n) = <<node>>
    BY <1>3, SymbolsAre
  <2> HIDE DEF node
  <2>2. NamesOf(symbols(m, n)) = {node}
    BY <2>1 DEF NamesOf
  <2> QED
    BY <2>2, FS_Singleton
<1> QED
  BY <1>1, <1>2, <1>3

\* There are finitely many candidates.
LEMMA CandidatesFinite ==
  ASSUME NEW n, NEW domain
  PROVE  IsFiniteSet(applicable_candidates(n, domain))
<1>1. IsFiniteSet(Module)
  <2>1. Order \in [1 .. Len(Order) -> Module] /\ DOMAIN Order = 1 .. Len(Order)
        /\ Module = {Order[k] : k \in DOMAIN Order} /\ Len(Order) \in Nat
    BY SemanticsAssumption, LenProperties
  <2>2. IsFiniteSet(1 .. Len(Order))
    BY <2>1, FS_Interval
  <2>3. Order \in [1 .. Len(Order) -> {Order[k] : k \in 1 .. Len(Order)}]
    BY <2>1
  <2>4. IsFiniteSet({Order[k] : k \in 1 .. Len(Order)})
    BY <2>2, <2>3, FiniteImage
  <2> QED
    BY <2>1, <2>4
<1> DEFINE f == [m \in Module |-> NamesOf(symbols(m, n))]
<1>2. f \in [Module -> {f[x] : x \in Module}]
  OBVIOUS
<1>3. \A T \in {f[x] : x \in Module} : IsFiniteSet(T)
  BY SymbolsFinite
<1>4. applicable_candidates(n, domain) \subseteq UNION {f[x] : x \in Module}
  BY DEF applicable_candidates
<1> HIDE DEF f
<1>5. IsFiniteSet({f[x] : x \in Module})
  BY <1>1, <1>2, FiniteImage
<1>6. IsFiniteSet(UNION {f[x] : x \in Module})
  BY <1>3, <1>5, FS_UNION
<1> QED
  BY <1>4, <1>6, FS_Subset

\* A name that resolves without a scope has one candidate.
LEMMA ResolvedIsAlone ==
  ASSUME NEW n, NEW domain, trace_symbol(NoModule, n, domain).outcome = "Resolved"
  PROVE  applicable_candidates(n, domain) = {trace_symbol(NoModule, n, domain).target}
<1>1. PICK candidates : candidates = applicable_candidates(n, domain)
  OBVIOUS
<1>2. trace_symbol(NoModule, n, domain)
        = IF Cardinality(candidates) = 1
          THEN [outcome |-> "Resolved", target |-> CHOOSE c \in candidates : TRUE]
          ELSE [outcome |-> IF candidates = {} THEN "Missing" ELSE "Ambiguous", target |-> None]
  BY <1>1 DEF trace_symbol
<1>3. Cardinality(candidates) = 1
  BY <1>2
<1>4. PICK c : candidates = {c}
  BY <1>1, <1>3, CandidatesFinite, FS_Singleton
<1> QED
  BY <1>1, <1>2, <1>3, <1>4

\* What a trace in the scope of a module resolves to is a candidate, at Permissive except
\* for the objects of notifications.
LEMMA ScopedApplies ==
  ASSUME Typed, OwnerInv, NEW n \in Name, NEW domain \in Domains, NEW m \in Module,
         trace_symbol(m, n, domain).outcome = "Resolved",
         ~ (world.permissive /\ domain = "NotificationObject")
  PROVE  trace_symbol(m, n, domain).target \in applicable_candidates(n, domain)
<1> DEFINE local    == domain_candidate_in_module(m, n, domain)
           imported == ImportedCandidate(m, n, domain)
           target   == trace_symbol(m, n, domain).target
<1>1. /\ target # None
      /\ local # None => target = local
      /\ local = None /\ imported # None => target = imported
      /\ local = None /\ imported = None =>
           target = IF world.permissive THEN global_domain_candidate(n, domain) ELSE None
  BY ScopedIs
<1>2. CASE local # None
  BY <1>1, <1>2, CandidateApplies
<1>3. CASE local = None /\ imported # None
  <2>1. FromImport(m, n) /\ imported = domain_candidate_in_module(world.imports[m][n], n, domain)
    BY <1>3 DEF ImportedCandidate
  <2>2. world.imports[m][n] \in Module
    BY <2>1, WorldType DEF Typed, FromImport
  <2> QED
    BY <1>1, <1>3, <2>1, <2>2, CandidateApplies
<1>4. CASE local = None /\ imported = None
  <2>1. world.permissive /\ target = global_domain_candidate(n, domain)
    BY <1>1, <1>4
  <2>2. CASE domain \in {"Object", "Index"}
    <3>1. PICK o : o = object_by_name(n)
      OBVIOUS
    <3>2. target = CandidateOf(o)
      BY <2>1, <2>2, <3>1 DEF global_domain_candidate
    <3>3. o # 0
      BY <1>1, <3>2 DEF CandidateOf
    <3>4. Def(o).module \in Module /\ ModuleObject(Def(o).module, n) = o
      BY <3>1, <3>3, ObjectByNameIsFirst
    <3>5. domain \in ObjectDomains
      BY <2>2 DEF ObjectDomains
    <3>6. domain_candidate_in_module(Def(o).module, n, domain) = target
      BY <3>2, <3>4, <3>5, ObjectCandidate
    <3> QED
      BY <1>1, <3>4, <3>6, CandidateApplies
  <2>3. CASE domain \notin {"Object", "Index"}
    <3> DEFINE defining == {k \in DOMAIN Order : world.symbols[Order[k]][n] # NoNode}
    <3>1. domain # "NotificationObject"
      BY <2>1
    <3>2. target = IF defining = {} THEN None
                   ELSE domain_candidate_in_module(Order[First(defining)], n, domain)
      BY <2>1, <2>3, <3>1 DEF global_domain_candidate
    <3>3. defining # {} /\ Order[First(defining)] \in Module
      BY <1>1, <3>2, GlobalNode DEF Typed
    <3> QED
      BY <1>1, <3>2, <3>3, CandidateApplies
  <2> QED
    BY <2>2, <2>3
<1> QED
  BY <1>2, <1>3, <1>4

\* What resolves without a scope resolves to the same in every module where it resolves.
LEMMA AnywhereIsScoped ==
  ASSUME Typed, OwnerInv, NEW n \in Name, NEW domain \in Domains, NEW m \in Module,
         trace_symbol(NoModule, n, domain).outcome = "Resolved",
         trace_symbol(m, n, domain).outcome = "Resolved",
         ~ (world.permissive /\ domain = "NotificationObject")
  PROVE  trace_symbol(m, n, domain).target = trace_symbol(NoModule, n, domain).target
BY ResolvedIsAlone, ScopedApplies


\* What TraceAgrees says of a definition, and of the names outside of modules.
TracedBy(d) ==
  /\ Def(d).sort = "Object" => RowAgrees(d)
  /\ Def(d).sort = "Notification" => NotificationAgrees(d)
  /\ Def(d).sort = "Group" => GroupAgrees(d)
  /\ \A domain \in Domains : \A n \in NamedBy(d, domain) :
       LET s == resolve_trace_in_scope(Def(d).module, n, domain)
       IN s.strategy = "Import" /\ s.target.node # NoNode => <<Def(d).module, n>> \in used

TracedAnywhere ==
  \A n \in Name, domain \in Domains, m \in Module :
    LET anywhere == trace_symbol(NoModule, n, domain)
        scoped   == trace_symbol(m, n, domain)
    IN /\ anywhere.outcome = "Resolved" /\ scoped.outcome = "Resolved"
       /\ ~ (world.permissive /\ domain = "NotificationObject")
       => scoped.target = anywhere.target

\* A trace explains the finished Mib: in the scope of the module it selects what INDEX,
\* AUGMENTS, OBJECTS and the members of groups were linked to by the passes of
\* semantics.rs, an import it goes through was marked as used, and what resolves without
\* a scope resolves to no other definition in any module.
THEOREM TraceAgreesHolds == Spec => []TraceAgrees
<1>1. OwnerInv /\ LinkInv /\ Typed /\ Explained => TraceAgrees
  <2> SUFFICES ASSUME OwnerInv, LinkInv, Typed, Explained, pass = "done" PROVE TraceAgrees
    BY DEF TraceAgrees
  <2>1. ASSUME NEW d \in created, AloneInName(d) PROVE TracedBy(d)
    <3>1. Def(d).sort = "Object" => RowAgrees(d)
      BY <2>1, RowIsTraced
    <3>2. Def(d).sort = "Notification" => NotificationAgrees(d)
      BY NotificationIsTraced
    <3>3. Def(d).sort = "Group" => GroupAgrees(d)
      BY GroupIsTraced
    <3>4. ASSUME NEW domain \in Domains, NEW n \in NamedBy(d, domain),
                 resolve_trace_in_scope(Def(d).module, n, domain).strategy = "Import",
                 resolve_trace_in_scope(Def(d).module, n, domain).target.node # NoNode
          PROVE  <<Def(d).module, n>> \in used
      BY <2>1, <3>4, ImportIsMarked
    <3> QED
      BY <3>1, <3>2, <3>3, <3>4 DEF TracedBy
  <2>2. TracedAnywhere
    BY AnywhereIsScoped DEF TracedAnywhere
  <2>3. (\A d \in {e \in created : AloneInName(e)} : TracedBy(d)) /\ TracedAnywhere
    BY <2>1, <2>2
  <2> QED
    BY <2>3 DEF TraceAgrees, TracedBy, TracedAnywhere
<1> QED
  BY <1>1, AlwaysOwner, AlwaysLink, AlwaysExplained, PTL

------------------------------------------------------------------------------
(* Passes over a list. *)

\* What goes through a list step by step, each step related to the one before, keeps its
\* set and relates every state on the way to the last.
Steps(h, n, S, R) ==
  /\ h[0] \in S
  /\ \A k \in 1 .. n : h[k - 1] \in S => h[k] \in S /\ <<h[k - 1], h[k]>> \in R

LEMMA StepsKeep ==
  ASSUME NEW S, NEW R, NEW n \in Nat, NEW h, Steps(h, n, S, R),
         \A x \in S : <<x, x>> \in R,
         \A x, y, z \in S : <<x, y>> \in R /\ <<y, z>> \in R => <<x, z>> \in R
  PROVE  \A k \in 0 .. n : h[k] \in S /\ <<h[k], h[n]>> \in R
<1> DEFINE A == {m \in Nat : m <= n => h[m] \in S /\ \A k \in 0 .. m : h[k] \in S /\ <<h[k], h[m]>> \in R}
<1>1. 0 \in A
  BY DEF Steps
<1>2. ASSUME NEW m \in Nat, m \in A PROVE m + 1 \in A
  <2> SUFFICES ASSUME m + 1 <= n
               PROVE  /\ h[m + 1] \in S
                      /\ \A k \in 0 .. m + 1 : h[k] \in S /\ <<h[k], h[m + 1]>> \in R
    OBVIOUS
  <2>1. h[m] \in S /\ \A k \in 0 .. m : h[k] \in S /\ <<h[k], h[m]>> \in R
    BY <1>2
  <2>2. m + 1 \in 1 .. n /\ (m + 1) - 1 = m
    OBVIOUS
  <2>3. h[m + 1] \in S /\ <<h[m], h[m + 1]>> \in R
    BY <2>1, <2>2 DEF Steps
  <2>4. \A k \in 0 .. m + 1 : k \in 0 .. m \/ k = m + 1
    OBVIOUS
  <2> QED
    BY <2>1, <2>3, <2>4
<1>3. n \in A
  <2> HIDE DEF A
  <2> QED
    BY <1>1, <1>2, Induction
<1> QED
  BY <1>3

\* There is a state for every step of a list.
Iterating(f, s, n, g) == /\ f = [k \in 0 .. n |-> f[k]] /\ f[0] = s
                         /\ \A k \in 1 .. n : f[k] = g[k][f[k - 1]]

LEMMA IterationExists ==
  ASSUME NEW s, NEW g, NEW n \in Nat
  PROVE  \E f : Iterating(f, s, n, g)
<1> DEFINE N == {m \in Nat : \E f : Iterating(f, s, m, g)}
<1>1. 0 \in N
  <2> DEFINE f == [i \in 0 .. 0 |-> s]
  <2>1. Iterating(f, s, 0, g)
    BY DEF Iterating
  <2> QED
    BY <2>1
<1>2. ASSUME NEW m \in Nat, m \in N PROVE m + 1 \in N
  <2>1. PICK e : Iterating(e, s, m, g)
    BY <1>2
  <2> DEFINE f == [i \in 0 .. m + 1 |-> IF i = m + 1 THEN g[m + 1][e[m]] ELSE e[i]]
  <2>2. f = [i \in 0 .. m + 1 |-> f[i]]
    OBVIOUS
  <2>3. f[0] = s
    BY <2>1 DEF Iterating
  <2>4. ASSUME NEW k \in 1 .. m + 1 PROVE f[k] = g[k][f[k - 1]]
    <3>1. CASE k = m + 1
      <4>1. k - 1 = m /\ k - 1 \in 0 .. m + 1 /\ k - 1 # m + 1 /\ k \in 0 .. m + 1
        BY <3>1
      <4>2. f[k - 1] = e[m] /\ f[k] = g[k][e[m]]
        BY <3>1, <4>1
      <4> QED
        BY <4>2
    <3>2. CASE k # m + 1
      <4>1. k \in 1 .. m /\ k \in 0 .. m + 1 /\ k - 1 \in 0 .. m + 1 /\ k - 1 # m + 1
        BY <3>2
      <4>2. f[k] = e[k] /\ f[k - 1] = e[k - 1]
        BY <3>2, <4>1
      <4> QED
        BY <2>1, <4>1, <4>2 DEF Iterating
    <3> QED
      BY <3>1, <3>2
  <2> HIDE DEF f
  <2>5. Iterating(f, s, m + 1, g)
    BY <2>2, <2>3, <2>4 DEF Iterating
  <2> QED
    BY <2>5
<1> QED
  <2> HIDE DEF N
  <2>1. n \in N
    BY <1>1, <1>2, Induction
  <2> QED
    BY <2>1 DEF N

------------------------------------------------------------------------------
(* The shapes of a module. *)

Shapely(objects) ==
  /\ objects \in Seq(Shape)
  /\ \A k \in DOMAIN objects : objects[k].table => objects[k].syntax # NoName

LEMMA LargestMember ==
  ASSUME NEW n \in Nat, NEW K \in SUBSET (1 .. n), K # {}
  PROVE  \E k \in K : \A j \in K : j <= k
<1> DEFINE D == {n - k : k \in K}
<1>1. D \in SUBSET Nat /\ D # {}
  <2>1. \A k \in K : k \in 1 .. n /\ n - k \in Nat
    OBVIOUS
  <2>2. PICK k : k \in K
    OBVIOUS
  <2>3. n - k \in D
    BY <2>2
  <2> QED
    BY <2>1, <2>3
<1>2. PICK d \in D : \A e \in D : d <= e
  BY <1>1, SmallestMember
<1>3. PICK k \in K : d = n - k
  BY <1>2
<1>4. \A j \in K : n - j \in D
  OBVIOUS
<1>5. \A j \in K : n - k <= n - j
  BY <1>2, <1>3, <1>4
<1>6. \A j \in K : j <= k
  BY <1>5
<1> QED
  BY <1>6

\* The shape of a name is that of an object of the name.
LEMMA ShapeFacts ==
  ASSUME NEW objects, Shapely(objects)
  PROVE  /\ Names(objects) \in Seq(Name) /\ NamesOf(Names(objects)) = Declared(objects)
         /\ Declared(objects) \subseteq Name
         /\ \A n \in Declared(objects) :
              LET o == ShapeOf(objects, n)
              IN o \in Shape /\ o.name = n /\ (o.table => o.syntax # NoName)
<1>1. /\ Len(objects) \in Nat /\ DOMAIN objects = 1 .. Len(objects)
      /\ \A k \in DOMAIN objects : objects[k] \in Shape
  BY LenProperties DEF Shapely
<1>2. \A k \in DOMAIN objects : objects[k].name \in Name
  BY <1>1 DEF Shape
<1>3. Names(objects) = [k \in 1 .. Len(objects) |-> objects[k].name]
  BY <1>1 DEF Names
<1>4. Names(objects) \in Seq(Name)
  BY <1>1, <1>2, <1>3
<1>5. NamesOf(Names(objects)) = Declared(objects)
  BY <1>1, <1>3 DEF NamesOf, Declared
<1>6. ASSUME NEW n \in Declared(objects)
      PROVE  \E k \in DOMAIN objects : ShapeOf(objects, n) = objects[k] /\ objects[k].name = n
  <2> DEFINE K == {k \in DOMAIN objects : objects[k].name = n}
  <2>1. K \in SUBSET (1 .. Len(objects)) /\ K # {}
    BY <1>1 DEF Declared
  <2>2. \E k \in K : \A j \in K : j <= k
    BY <1>1, <2>1, LargestMember
  <2>3. \E k \in DOMAIN objects :
          objects[k].name = n /\ \A j \in DOMAIN objects : objects[j].name = n => j <= k
    BY <2>2
  <2> QED
    BY <2>3 DEF ShapeOf
<1>7. ASSUME NEW n \in Declared(objects)
      PROVE  LET o == ShapeOf(objects, n)
             IN o \in Shape /\ o.name = n /\ (o.table => o.syntax # NoName)
  <2>1. PICK k \in DOMAIN objects : ShapeOf(objects, n) = objects[k] /\ objects[k].name = n
    BY <1>6
  <2> QED
    BY <1>1, <2>1 DEF Shapely
<1> QED
  BY <1>2, <1>4, <1>5, <1>7 DEF Declared

------------------------------------------------------------------------------
(* Structures under construction. *)

\* Tables and rows name each other, and what a table names is a row.
Paired(s) ==
  /\ \A t, r \in Name : s.rowOf[t] = r <=> s.tableOf[r] = t
  /\ \A t \in Name : s.rowOf[t] # NoName => s.kind[s.rowOf[t]] = "Row"

\* So do rows and columns.
Columned(s) ==
  /\ \A r, c \in Name : s.rowOfColumn[c] = r <=> c \in NamesOf(s.columnsOf[r])
  /\ \A c \in Name : s.rowOfColumn[c] # NoName =>
       s.kind[c] = "Column" /\ s.kind[s.rowOfColumn[c]] = "Row"

Uncolumned(s) == \A c \in Name : s.rowOfColumn[c] = NoName /\ s.columnsOf[c] = <<>>

Tabled == {s \in Structure : Paired(s) /\ Uncolumned(s)}
Rowed == {s \in Structure : Paired(s) /\ Columned(s)}

\* What was linked and marked stays so.
Extends(s, t) ==
  /\ s.errors \subseteq t.errors
  /\ \A n \in Name : /\ s.rowOf[n] # NoName => t.rowOf[n] = s.rowOf[n]
                     /\ NamesOf(s.columnsOf[n]) \subseteq NamesOf(t.columnsOf[n])
                     /\ s.kind[n] = "Row" => t.kind[n] = "Row"
                     /\ t.kind[n] = "Table" => s.kind[n] = "Table"
SameRows(s, t) == t.rowOf = s.rowOf /\ \A n \in Name : t.kind[n] = "Row" => s.kind[n] = "Row"

Growth == {p \in Structure \X Structure : Extends(p[1], p[2])}
ColumnGrowth == {p \in Structure \X Structure : Extends(p[1], p[2]) /\ SameRows(p[1], p[2])}

LEMMA StructureFields ==
  ASSUME NEW s \in Structure
  PROVE  /\ s.kind \in [Name -> StructureKinds]
         /\ s.rowOf \in [Name -> Name \cup {NoName}] /\ s.tableOf \in [Name -> Name \cup {NoName}]
         /\ s.columnsOf \in [Name -> Seq(Name)] /\ s.rowOfColumn \in [Name -> Name \cup {NoName}]
         /\ s.errors \in SUBSET Name
BY DEF Structure

LEMMA GrowthOrders ==
  /\ \A x \in Structure : <<x, x>> \in Growth /\ <<x, x>> \in ColumnGrowth
  /\ \A x, y, z \in Structure :
       /\ <<x, y>> \in Growth /\ <<y, z>> \in Growth => <<x, z>> \in Growth
       /\ <<x, y>> \in ColumnGrowth /\ <<y, z>> \in ColumnGrowth => <<x, z>> \in ColumnGrowth
<1>1. \A x \in Structure : Extends(x, x) /\ SameRows(x, x)
  BY DEF Extends, SameRows
<1>2. ASSUME NEW x \in Structure, NEW y \in Structure, NEW z \in Structure,
             Extends(x, y), Extends(y, z)
      PROVE  Extends(x, z)
  BY <1>2 DEF Extends
<1>3. ASSUME NEW x \in Structure, NEW y \in Structure, NEW z \in Structure,
             SameRows(x, y), SameRows(y, z)
      PROVE  SameRows(x, z)
  BY <1>3 DEF SameRows
<1>4. \A x, y \in Structure : /\ <<x, y>> \in Growth <=> Extends(x, y)
                              /\ <<x, y>> \in ColumnGrowth <=> Extends(x, y) /\ SameRows(x, y)
  BY DEF Growth, ColumnGrowth
<1> QED
  BY <1>1, <1>2, <1>3, <1>4

\* A mark changes nothing else.
LEMMA MarkKeeps ==
  ASSUME NEW s \in Structure, NEW names \in SUBSET Name
  PROVE  LET u == Mark(s, names)
         IN /\ u \in Structure /\ u.errors = s.errors \cup names
            /\ s \in Tabled => u \in Tabled
            /\ s \in Rowed => u \in Rowed
            /\ Extends(s, u) /\ SameRows(s, u)
<1>1. PICK u : u = Mark(s, names)
  OBVIOUS
<1>2. /\ u \in Structure /\ u.errors = s.errors \cup names
      /\ u.kind = s.kind /\ u.rowOf = s.rowOf /\ u.tableOf = s.tableOf
      /\ u.columnsOf = s.columnsOf /\ u.rowOfColumn = s.rowOfColumn
  BY <1>1 DEF Mark, Structure
<1>3. Paired(s) => Paired(u)
  BY <1>2 DEF Paired
<1>4. (Columned(s) => Columned(u)) /\ (Uncolumned(s) => Uncolumned(u))
  BY <1>2 DEF Columned, Uncolumned
<1>5. Extends(s, u) /\ SameRows(s, u)
  BY <1>2 DEF Extends, SameRows
<1> QED
  BY <1>1, <1>2, <1>3, <1>4, <1>5 DEF Tabled, Rowed

\* A row becomes its table's, or the table is marked.
LEMMA LinksRow ==
  ASSUME NEW s \in Tabled, NEW table \in Name, NEW row \in Name
  PROVE  LET u == link_table_row(s, table, row)
         IN /\ u \in Tabled /\ Extends(s, u) /\ (table \in u.errors \/ u.rowOf[table] = row)
            /\ \A t \in Name : u.rowOf[t] = s.rowOf[t] \/ (t = table /\ u.rowOf[t] = row)
<1>1. s \in Structure /\ Paired(s) /\ Uncolumned(s) /\ NoName \notin Name
  BY SemanticsAssumption DEF Tabled
<1>2. CASE s.rowOf[table] \notin {NoName, row}
  <2>1. link_table_row(s, table, row) = Mark(s, {table})
    BY <1>2 DEF link_table_row
  <2>2. {table} \in SUBSET Name
    OBVIOUS
  <2> QED
    BY <1>1, <2>1, <2>2, MarkKeeps DEF SameRows
<1>3. CASE s.rowOf[table] \in {NoName, row} /\ s.tableOf[row] \notin {NoName, table}
  <2>1. link_table_row(s, table, row) = Mark(s, {row, table})
    BY <1>3 DEF link_table_row
  <2>2. {row, table} \in SUBSET Name
    OBVIOUS
  <2> QED
    BY <1>1, <2>1, <2>2, MarkKeeps DEF SameRows
<1>4. CASE s.rowOf[table] \in {NoName, row} /\ s.tableOf[row] \in {NoName, table}
  <2>1. PICK u : u = link_table_row(s, table, row)
    OBVIOUS
  <2>2. u = [s EXCEPT !.rowOf[table] = row, !.tableOf[row] = table, !.kind[row] = "Row"]
    BY <1>4, <2>1 DEF link_table_row
  <2>3. /\ u.kind = [s.kind EXCEPT ![row] = "Row"]
        /\ u.rowOf = [s.rowOf EXCEPT ![table] = row]
        /\ u.tableOf = [s.tableOf EXCEPT ![row] = table]
        /\ u.columnsOf = s.columnsOf /\ u.rowOfColumn = s.rowOfColumn /\ u.errors = s.errors
        /\ u \in Structure
    <3>1. "Row" \in StructureKinds
      BY DEF StructureKinds
    <3> QED
      BY <1>1, <2>2, <3>1 DEF Structure
  <2>4. \A n \in Name : /\ u.kind[n] = IF n = row THEN "Row" ELSE s.kind[n]
                        /\ u.rowOf[n] = IF n = table THEN row ELSE s.rowOf[n]
                        /\ u.tableOf[n] = IF n = row THEN table ELSE s.tableOf[n]
    BY <1>1, <2>3, StructureFields
  <2>5. ASSUME NEW t \in Name, NEW r \in Name PROVE u.rowOf[t] = r <=> u.tableOf[r] = t
    BY <1>1, <1>4, <2>4 DEF Paired
  <2>6. ASSUME NEW t \in Name, u.rowOf[t] # NoName PROVE u.kind[u.rowOf[t]] = "Row"
    <3>1. u.rowOf[t] \in Name
      BY <2>3, <2>6, StructureFields
    <3> QED
      BY <1>1, <2>4, <2>6, <3>1 DEF Paired
  <2>7. Paired(u) /\ Uncolumned(u)
    BY <1>1, <2>3, <2>5, <2>6 DEF Paired, Uncolumned
  <2>8. Extends(s, u)
    BY <1>1, <1>4, <2>3, <2>4 DEF Extends
  <2> QED
    BY <2>1, <2>3, <2>4, <2>7, <2>8 DEF Tabled
<1> QED
  BY <1>2, <1>3, <1>4

\* A column becomes its row's, or the row is marked.
LEMMA LinksColumn ==
  ASSUME NEW s \in Rowed, NEW row \in Name, NEW column \in Name, s.kind[row] = "Row"
  PROVE  LET u == link_row_column(s, row, column)
         IN /\ u \in Rowed /\ Extends(s, u) /\ SameRows(s, u)
            /\ row \in u.errors \/ column \in NamesOf(u.columnsOf[row])
<1>1. s \in Structure /\ Paired(s) /\ Columned(s) /\ NoName \notin Name
  BY SemanticsAssumption DEF Rowed
<1>2. CASE row = column
  <2>1. link_row_column(s, row, column) = Mark(s, {row})
    BY <1>2 DEF link_row_column
  <2>2. {row} \in SUBSET Name
    OBVIOUS
  <2> QED
    BY <1>1, <2>1, <2>2, MarkKeeps
<1>3. CASE row # column /\ s.kind[column] \in {"Table", "Row"}
  <2>1. link_row_column(s, row, column) = Mark(s, {row, column})
    BY <1>3 DEF link_row_column
  <2>2. {row, column} \in SUBSET Name
    OBVIOUS
  <2> QED
    BY <1>1, <2>1, <2>2, MarkKeeps
<1>4. CASE row # column /\ s.kind[column] \notin {"Table", "Row"}
           /\ s.rowOfColumn[column] \notin {NoName, row}
  <2>1. link_row_column(s, row, column) = Mark(s, {row, s.rowOfColumn[column], column})
    BY <1>4 DEF link_row_column
  <2>2. {row, s.rowOfColumn[column], column} \in SUBSET Name
    BY <1>1, <1>4, StructureFields
  <2> QED
    BY <1>1, <2>1, <2>2, MarkKeeps
<1>5. CASE row # column /\ s.kind[column] \notin {"Table", "Row"}
           /\ s.rowOfColumn[column] \in {NoName, row}
  <2> DEFINE columns == s.columnsOf[row]
             more == IF column \in NamesOf(columns) THEN columns ELSE Append(columns, column)
  <2>1. PICK u : u = link_row_column(s, row, column)
    OBVIOUS
  <2>2. u = [s EXCEPT !.rowOfColumn[column] = row, !.kind[column] = "Column", !.columnsOf[row] = more]
    BY <1>5, <2>1 DEF link_row_column
  <2>3. columns \in Seq(Name)
    BY <1>1, StructureFields
  <2>4. more \in Seq(Name) /\ NamesOf(more) = NamesOf(columns) \cup {column}
    <3>1. CASE column \in NamesOf(columns)
      BY <2>3, <3>1
    <3>2. CASE column \notin NamesOf(columns)
      <4> HIDE DEF columns
      <4> QED
        BY <2>3, <3>2, AppendedNames
    <3> QED
      BY <3>1, <3>2
  <2> HIDE DEF more
  <2>5. /\ u.kind = [s.kind EXCEPT ![column] = "Column"]
        /\ u.rowOfColumn = [s.rowOfColumn EXCEPT ![column] = row]
        /\ u.columnsOf = [s.columnsOf EXCEPT ![row] = more]
        /\ u.rowOf = s.rowOf /\ u.tableOf = s.tableOf /\ u.errors = s.errors
        /\ u \in Structure
    <3>1. "Column" \in StructureKinds
      BY DEF StructureKinds
    <3> QED
      BY <1>1, <2>2, <2>4, <3>1 DEF Structure
  <2>6. \A n \in Name : /\ u.kind[n] = IF n = column THEN "Column" ELSE s.kind[n]
                        /\ u.rowOfColumn[n] = IF n = column THEN row ELSE s.rowOfColumn[n]
                        /\ NamesOf(u.columnsOf[n]) = IF n = row THEN NamesOf(s.columnsOf[n]) \cup {column}
                                                     ELSE NamesOf(s.columnsOf[n])
    <3>1. \A n \in Name : /\ u.kind[n] = IF n = column THEN "Column" ELSE s.kind[n]
                          /\ u.rowOfColumn[n] = IF n = column THEN row ELSE s.rowOfColumn[n]
                          /\ u.columnsOf[n] = IF n = row THEN more ELSE s.columnsOf[n]
      BY <1>1, <2>5, StructureFields
    <3> QED
      BY <2>4, <3>1
  <2>7. ASSUME NEW r \in Name, NEW c \in Name
        PROVE  u.rowOfColumn[c] = r <=> c \in NamesOf(u.columnsOf[r])
    <3>1. s.rowOfColumn[c] = r <=> c \in NamesOf(s.columnsOf[r])
      BY <1>1 DEF Columned
    <3>2. CASE c = column
      <4>1. u.rowOfColumn[c] = row
        BY <2>6, <3>2
      <4>2. CASE r = row
        BY <2>6, <3>2, <4>1, <4>2
      <4>3. CASE r # row
        <5>1. s.rowOfColumn[c] # r
          BY <1>1, <1>5, <3>2, <4>3
        <5> QED
          BY <2>6, <3>1, <4>1, <4>3, <5>1
      <4> QED
        BY <4>2, <4>3
    <3>3. CASE c # column
      <4>1. u.rowOfColumn[c] = s.rowOfColumn[c]
        BY <2>6, <3>3
      <4>2. c \in NamesOf(u.columnsOf[r]) <=> c \in NamesOf(s.columnsOf[r])
        BY <2>6, <3>3
      <4> QED
        BY <3>1, <4>1, <4>2
    <3> QED
      BY <3>2, <3>3
  <2>8. ASSUME NEW c \in Name, u.rowOfColumn[c] # NoName
        PROVE  u.kind[c] = "Column" /\ u.kind[u.rowOfColumn[c]] = "Row"
    <3>1. CASE c = column
      BY <1>5, <2>6, <3>1
    <3>2. CASE c # column
      <4>1. u.rowOfColumn[c] = s.rowOfColumn[c] /\ u.kind[c] = s.kind[c]
        BY <2>6, <3>2
      <4>2. s.kind[c] = "Column" /\ s.kind[s.rowOfColumn[c]] = "Row"
        BY <1>1, <2>8, <4>1 DEF Columned
      <4>3. s.rowOfColumn[c] \in Name
        BY <2>5, <2>8, <4>1, StructureFields
      <4>4. s.rowOfColumn[c] # column
        BY <1>5, <4>2
      <4> QED
        BY <2>6, <4>1, <4>2, <4>3, <4>4
    <3> QED
      BY <3>1, <3>2
  <2>9. Columned(u)
    BY <2>7, <2>8 DEF Columned
  <2>10. Paired(u)
    <3>1. \A t \in Name : s.rowOf[t] # NoName => s.rowOf[t] \in Name
      BY <1>1, StructureFields
    <3> QED
      BY <1>1, <1>5, <2>5, <2>6, <3>1 DEF Paired
  <2>11. Extends(s, u) /\ SameRows(s, u)
    BY <1>1, <1>5, <2>5, <2>6 DEF Extends, SameRows
  <2> QED
    BY <2>1, <2>5, <2>6, <2>9, <2>10, <2>11 DEF Rowed
<1> QED
  BY <1>2, <1>3, <1>4, <1>5

Through(f, s, n, g, S) == Iterating(f, s, n, g) /\ \A k \in 1 .. n : f[k - 1] \in S

LEMMA GoesThrough ==
  ASSUME NEW S, NEW R, NEW n \in Nat, NEW s \in S, NEW g,
         \A k \in 1 .. n : \A x \in S : g[k][x] \in S /\ <<x, g[k][x]>> \in R,
         \A x \in S : <<x, x>> \in R,
         \A x, y, z \in S : <<x, y>> \in R /\ <<y, z>> \in R => <<x, z>> \in R
  PROVE  \E f : Through(f, s, n, g, S)
<1>1. PICK f : Iterating(f, s, n, g)
  BY IterationExists
<1>2. Steps(f, n, S, R)
  BY <1>1 DEF Iterating, Steps
<1>3. \A k \in 0 .. n : f[k] \in S
  BY <1>2, StepsKeep
<1>4. \A k \in 1 .. n : f[k - 1] \in S
  <2>1. \A k \in 1 .. n : k - 1 \in 0 .. n
    OBVIOUS
  <2> QED
    BY <1>3, <2>1
<1> QED
  BY <1>1, <1>4 DEF Through

------------------------------------------------------------------------------
(* The passes over a module's objects. *)

\* A table's row has the type that the table names.
RowsTyped(objects, s) ==
  \A t \in Name : s.rowOf[t] # NoName =>
    /\ s.rowOf[t] \in Declared(objects)
    /\ ShapeOf(objects, s.rowOf[t]).syntax = ShapeOf(objects, t).syntax
    /\ ShapeOf(objects, t).syntax \in Name

TabledBy(objects) == {s \in Tabled : RowsTyped(objects, s)}
RowedBy(objects) == {s \in Rowed : RowsTyped(objects, s)}

\* A table is marked, or it has the one row that its type and its children allow.
RowFound(objects, s, table) ==
  \/ table \in s.errors
  \/ LET r == s.rowOf[table]
     IN /\ r \in Declared(objects) /\ ShapeOf(objects, r).syntax = ShapeOf(objects, table).syntax
        /\ \A q \in Declared(objects) \ {r} :
             ShapeOf(objects, q).under = table =>
               ShapeOf(objects, q).syntax # ShapeOf(objects, table).syntax

LEMMA TableIsLinked ==
  ASSUME NEW objects, Shapely(objects), NEW s \in TabledBy(objects), NEW table \in Declared(objects),
         ShapeOf(objects, table).table
  PROVE  LET u == LinkTable(objects, s, table)
         IN u \in TabledBy(objects) /\ Extends(s, u) /\ RowFound(objects, u, table)
<1> DEFINE rows == Candidates(objects, table)
           shape == ShapeOf(objects, table)
           typed == {n \in Declared(objects) : ShapeOf(objects, n).syntax = shape.syntax}
           explicit == {n \in typed : ShapeOf(objects, n).under = table}
           some == IF explicit # {} THEN explicit ELSE typed \cap Below(objects, shape.node)
<1>0. s \in Tabled /\ RowsTyped(objects, s) /\ NoName \notin Name
  BY SemanticsAssumption DEF TabledBy
<1>1. /\ shape.syntax # NoName /\ shape.syntax \in Name /\ Declared(objects) \subseteq Name
      /\ Names(objects) \in Seq(Name) /\ NamesOf(Names(objects)) = Declared(objects)
  BY ShapeFacts DEF Shape
<1>2. rows = Filtered(Names(objects), some)
  BY DEF Candidates
<1>3. some \subseteq typed /\ (explicit # {} => some = explicit)
  OBVIOUS
<1> HIDE DEF some
<1>4. rows \in Seq(Name) /\ NamesOf(rows) = Declared(objects) \cap some
  BY <1>1, <1>2, FilteredNames
<1>5. LinkTable(objects, s, table) = IF Len(rows) = 1 THEN link_table_row(s, table, rows[1])
                                     ELSE Mark(s, {table} \cup NamesOf(rows))
  BY <1>1 DEF LinkTable
<1> HIDE DEF rows
<1>6. CASE Len(rows) = 1
  <2> DEFINE r == rows[1]
  <2>1. DOMAIN rows = {1}
    BY <1>4, <1>6, LenProperties
  <2>2. NamesOf(rows) = {r}
    BY <2>1 DEF NamesOf
  <2>3. r \in some /\ r \in Declared(objects) /\ r \in Name /\ table \in Name
    BY <1>1, <1>4, <2>2
  <2>4. \A q \in explicit : q = r
    BY <1>3, <1>4, <2>2
  <2>5. r \in typed
    BY <1>3, <2>3
  <2> HIDE DEF r
  <2>6. PICK u : u = LinkTable(objects, s, table)
    OBVIOUS
  <2>7. u = link_table_row(s, table, r)
    BY <1>5, <1>6, <2>6 DEF r
  <2>8. /\ u \in Tabled /\ Extends(s, u) /\ (table \in u.errors \/ u.rowOf[table] = r)
        /\ \A t \in Name : u.rowOf[t] = s.rowOf[t] \/ (t = table /\ u.rowOf[t] = r)
    <3>1. s \in Tabled /\ table \in Name /\ r \in Name
      BY <1>0, <2>3
    <3> HIDE DEF shape, typed, explicit
    <3>2. LET x == link_table_row(s, table, r)
          IN /\ x \in Tabled /\ Extends(s, x) /\ (table \in x.errors \/ x.rowOf[table] = r)
             /\ \A t \in Name : x.rowOf[t] = s.rowOf[t] \/ (t = table /\ x.rowOf[t] = r)
      BY <3>1, LinksRow
    <3> QED
      BY <2>7, <3>2
  <2>9. RowFound(objects, u, table)
    BY <2>3, <2>4, <2>5, <2>8 DEF RowFound
  <2>10. RowsTyped(objects, u)
    BY <1>0, <1>1, <2>3, <2>5, <2>8 DEF RowsTyped
  <2> QED
    BY <2>6, <2>8, <2>9, <2>10 DEF TabledBy
<1>7. CASE Len(rows) # 1
  <2>1. {table} \cup NamesOf(rows) \in SUBSET Name
    BY <1>1, <1>4
  <2>2. PICK u : u = LinkTable(objects, s, table)
    OBVIOUS
  <2>3. u = Mark(s, {table} \cup NamesOf(rows))
    BY <1>5, <1>7, <2>2
  <2>4. s \in Structure
    BY <1>0 DEF Tabled
  <2>5. u \in Tabled /\ Extends(s, u) /\ u.rowOf = s.rowOf /\ table \in u.errors
    BY <1>0, <2>1, <2>3, <2>4, MarkKeeps DEF SameRows
  <2>6. RowsTyped(objects, u)
    BY <1>0, <2>5 DEF RowsTyped
  <2> QED
    BY <2>2, <2>5, <2>6 DEF RowFound, TabledBy
<1> QED
  BY <1>6, <1>7

\* What was found for a table stays.
LEMMA RowStays ==
  ASSUME NEW objects, NEW s \in Structure, NEW u \in Structure, NEW table \in Name,
         Extends(s, u), RowFound(objects, s, table), Shapely(objects)
  PROVE  RowFound(objects, u, table)
<1>1. Declared(objects) \subseteq Name /\ NoName \notin Name
  BY ShapeFacts, SemanticsAssumption
<1>2. CASE table \in s.errors
  BY <1>2 DEF Extends, RowFound
<1>3. CASE table \notin s.errors
  <2>1. s.rowOf[table] # NoName
    BY <1>1, <1>3 DEF RowFound
  <2>2. u.rowOf[table] = s.rowOf[table]
    BY <2>1 DEF Extends
  <2> QED
    BY <1>3, <2>2 DEF RowFound
<1> QED
  BY <1>2, <1>3

TableSteps(f, objects, s, tables) ==
  f = [k \in 0 .. Len(tables) |-> IF k = 0 THEN s ELSE LinkTable(objects, f[k - 1], tables[k])]

LEMMA TablesAreLinked ==
  ASSUME NEW objects, Shapely(objects), NEW s \in TabledBy(objects), NEW tables \in Seq(Name),
         \A t \in NamesOf(tables) : t \in Declared(objects) /\ ShapeOf(objects, t).table
  PROVE  LET S == TabledBy(objects)
             u == LinkTables(objects, s, tables)
         IN /\ u \in S /\ Extends(s, u)
            /\ \A t \in NamesOf(tables) : RowFound(objects, u, t)
<1> DEFINE S == TabledBy(objects)
           n == Len(tables)
           g == [k \in 1 .. n |-> [x \in S |-> LinkTable(objects, x, tables[k])]]
<1>1. n \in Nat /\ DOMAIN tables = 1 .. n /\ S \subseteq Structure
      /\ Declared(objects) \subseteq Name
  BY LenProperties, ShapeFacts DEF Tabled, TabledBy
<1>2. ASSUME NEW k \in 1 .. n, NEW x \in S
      PROVE  LET y == LinkTable(objects, x, tables[k])
             IN y \in S /\ <<x, y>> \in Growth /\ RowFound(objects, y, tables[k])
  <2>1. tables[k] \in Declared(objects) /\ ShapeOf(objects, tables[k]).table
    BY <1>1 DEF NamesOf
  <2>2. PICK y : y = LinkTable(objects, x, tables[k])
    OBVIOUS
  <2>3. y \in S /\ Extends(x, y) /\ RowFound(objects, y, tables[k])
    BY <2>1, <2>2, TableIsLinked
  <2> QED
    BY <1>1, <2>2, <2>3 DEF Growth
<1>3. /\ \A x \in S : <<x, x>> \in Growth
      /\ \A x, y, z \in S : <<x, y>> \in Growth /\ <<y, z>> \in Growth => <<x, z>> \in Growth
  BY <1>1, GrowthOrders
<1>4. \E f : TableSteps(f, objects, s, tables)
  <2>1. \A k \in 1 .. n : \A x \in S : g[k][x] = LinkTable(objects, x, tables[k])
    OBVIOUS
  <2> HIDE DEF g
  <2>2. \A k \in 1 .. n : \A x \in S : g[k][x] \in S /\ <<x, g[k][x]>> \in Growth
    BY <1>2, <2>1
  <2>3. PICK f : Through(f, s, n, g, S)
    BY <1>1, <1>3, <2>2, GoesThrough
  <2>4. \A k \in 0 .. n : f[k] = IF k = 0 THEN s ELSE LinkTable(objects, f[k - 1], tables[k])
    <3>1. \A k \in 0 .. n : k # 0 => k \in 1 .. n
      BY <1>1
    <3> QED
      BY <2>1, <2>3, <3>1 DEF Through, Iterating
  <2>5. f = [k \in 0 .. n |-> IF k = 0 THEN s ELSE LinkTable(objects, f[k - 1], tables[k])]
    BY <2>3, <2>4 DEF Through, Iterating
  <2> QED
    BY <2>5 DEF TableSteps
<1> HIDE DEF g
<1> DEFINE h == CHOOSE f : TableSteps(f, objects, s, tables)
<1>5. TableSteps(h, objects, s, tables)
  BY <1>4
<1>6. LinkTables(objects, s, tables) = h[n]
  BY DEF LinkTables, TableSteps
<1> HIDE DEF h
<1>7. h[0] = s /\ \A k \in 1 .. n : h[k] = LinkTable(objects, h[k - 1], tables[k])
  BY <1>1, <1>5 DEF TableSteps
<1>8. Steps(h, n, S, Growth)
  BY <1>2, <1>7 DEF Steps
<1>9. \A k \in 0 .. n : h[k] \in S /\ <<h[k], h[n]>> \in Growth
  BY <1>1, <1>3, <1>8, StepsKeep
<1>10. \A k \in 0 .. n : h[k] \in Structure /\ Extends(h[k], h[n])
  BY <1>9 DEF Growth
<1>11. 0 \in 0 .. n /\ n \in 0 .. n
  BY <1>1
<1>12. ASSUME NEW t \in NamesOf(tables) PROVE RowFound(objects, h[n], t)
  <2>1. PICK k \in 1 .. n : tables[k] = t
    BY <1>1 DEF NamesOf
  <2>2. k \in 0 .. n /\ k - 1 \in 0 .. n
    BY <1>1
  <2>3. RowFound(objects, h[k], t)
    BY <1>2, <1>7, <1>9, <2>1, <2>2
  <2>4. t \in Name
    BY <1>1
  <2> QED
    BY <1>10, <1>11, <2>2, <2>3, <2>4, RowStays
<1> QED
  BY <1>6, <1>7, <1>9, <1>10, <1>11, <1>12

\* What is indexed is a row, whatever else it is.
LEMMA RowsAreMarked ==
  ASSUME NEW objects, NEW s \in TabledBy(objects)
  PROVE  LET u == MarkRows(objects, s)
         IN /\ u \in RowedBy(objects) /\ Extends(s, u) /\ u.rowOf = s.rowOf
<1>1. PICK u : u = MarkRows(objects, s)
  OBVIOUS
<1> DEFINE marked(n) == n \in Declared(objects) /\ ShapeOf(objects, n).indexed
           kinds == [n \in Name |-> IF marked(n) THEN "Row" ELSE s.kind[n]]
<1>2. s \in Structure /\ Paired(s) /\ Uncolumned(s) /\ NoName \notin Name /\ RowsTyped(objects, s)
  BY SemanticsAssumption DEF TabledBy, Tabled
<1>3. u = [s EXCEPT !.kind = kinds]
  BY <1>1 DEF MarkRows
<1>4. kinds \in [Name -> StructureKinds]
  BY <1>2, StructureFields DEF StructureKinds
<1>5. \A n \in Name : kinds[n] = "Row" \/ kinds[n] = s.kind[n]
  OBVIOUS
<1> HIDE DEF kinds
<1>6. /\ u.kind = kinds /\ u.errors = s.errors /\ u.rowOf = s.rowOf /\ u.tableOf = s.tableOf
      /\ u.columnsOf = s.columnsOf /\ u.rowOfColumn = s.rowOfColumn /\ u \in Structure
  BY <1>2, <1>3, <1>4 DEF Structure
<1>7. \A t \in Name : s.rowOf[t] # NoName => s.rowOf[t] \in Name
  BY <1>2, StructureFields
<1>8. Paired(u)
  BY <1>2, <1>5, <1>6, <1>7 DEF Paired
<1>9. Columned(u)
  <2>1. \A c \in Name : u.rowOfColumn[c] = NoName /\ NamesOf(u.columnsOf[c]) = {}
    BY <1>2, <1>6 DEF Uncolumned, NamesOf
  <2> QED
    BY <1>2, <2>1 DEF Columned
<1>10. Extends(s, u) /\ RowsTyped(objects, u)
  BY <1>2, <1>5, <1>6 DEF Extends, RowsTyped
<1> QED
  BY <1>1, <1>6, <1>8, <1>9, <1>10 DEF RowedBy, Rowed

\* A field of a table's row is a column of the row, unless the table or the row is marked.
FieldGiven(s, table, row, field) ==
  table \in s.errors \/ row \in s.errors \/ field \in NamesOf(s.columnsOf[row])

LEMMA FieldStays ==
  ASSUME NEW s, NEW u, NEW table, NEW row \in Name, NEW field, Extends(s, u),
         FieldGiven(s, table, row, field)
  PROVE  FieldGiven(u, table, row, field)
BY DEF Extends, FieldGiven

LEMMA FieldIsLinked ==
  ASSUME NEW objects, NEW s \in RowedBy(objects), NEW table \in Name, NEW row \in Name,
         s.kind[row] = "Row", NEW field \in Name
  PROVE  LET u == LinkField(objects, s, table, row, field)
         IN /\ u \in RowedBy(objects) /\ Extends(s, u) /\ SameRows(s, u)
            /\ FieldGiven(u, table, row, field)
<1>1. s \in Rowed /\ s \in Structure /\ RowsTyped(objects, s)
  BY DEF RowedBy, Rowed
<1>2. PICK u : u = LinkField(objects, s, table, row, field)
  OBVIOUS
<1>3. CASE field \in Declared(objects)
  <2>1. u = link_row_column(s, row, field)
    BY <1>2, <1>3 DEF LinkField
  <2>2. /\ u \in Rowed /\ Extends(s, u) /\ SameRows(s, u)
        /\ row \in u.errors \/ field \in NamesOf(u.columnsOf[row])
    BY <1>1, <2>1, LinksColumn
  <2>3. RowsTyped(objects, u)
    BY <1>1, <2>2 DEF SameRows, RowsTyped
  <2> QED
    BY <1>2, <2>2, <2>3 DEF FieldGiven, RowedBy
<1>4. CASE field \notin Declared(objects)
  <2>1. u = Mark(s, {table}) /\ {table} \in SUBSET Name
    BY <1>2, <1>4 DEF LinkField
  <2>2. u \in Rowed /\ Extends(s, u) /\ SameRows(s, u) /\ table \in u.errors
    BY <1>1, <2>1, MarkKeeps
  <2>3. RowsTyped(objects, u)
    BY <1>1, <2>2 DEF SameRows, RowsTyped
  <2> QED
    BY <1>2, <2>2, <2>3 DEF FieldGiven, RowedBy
<1> QED
  BY <1>3, <1>4

FieldSteps(f, objects, s, table, entry, fields) ==
  f = [k \in 0 .. Len(fields) |-> IF k = 0 THEN s
                                  ELSE LinkField(objects, f[k - 1], table, entry, fields[k])]

\* The fields of a table's row.
FieldsGiven(objects, sequences, s, table) ==
  LET row == s.rowOf[table]
  IN row # NoName => \A field \in NamesOf(sequences[ShapeOf(objects, row).syntax]) :
                       FieldGiven(s, table, row, field)

LEMMA FieldsAreLinked ==
  ASSUME NEW objects, Shapely(objects), NEW sequences \in [Name -> Seq(Name)],
         NEW s \in RowedBy(objects), NEW table \in Name
  PROVE  LET u == LinkFields(objects, sequences, s, table)
         IN /\ u \in RowedBy(objects) /\ <<s, u>> \in ColumnGrowth
            /\ FieldsGiven(objects, sequences, u, table)
<1> DEFINE row == s.rowOf[table]
           fields == sequences[ShapeOf(objects, row).syntax]
           n == Len(fields)
           S == {x \in RowedBy(objects) : x.kind[row] = "Row"}
           g == [k \in 1 .. n |-> [x \in S |-> LinkField(objects, x, table, row, fields[k])]]
<1>1. s \in Rowed /\ s \in Structure /\ RowsTyped(objects, s) /\ Paired(s)
      /\ RowedBy(objects) \subseteq Structure
  BY DEF RowedBy, Rowed
<1>2. CASE row = NoName
  <2>1. LinkFields(objects, sequences, s, table) = s
    BY <1>2 DEF LinkFields
  <2>2. <<s, s>> \in ColumnGrowth
    BY <1>1, GrowthOrders
  <2> QED
    BY <1>2, <2>1, <2>2 DEF FieldsGiven
<1>3. CASE row # NoName
  <2>1. row \in Declared(objects) /\ row \in Name /\ ShapeOf(objects, row).syntax \in Name
        /\ s.kind[row] = "Row"
    BY <1>1, <1>3, ShapeFacts DEF RowsTyped, Paired
  <2>2. fields \in Seq(Name) /\ n \in Nat /\ DOMAIN fields = 1 .. n
    BY <2>1, LenProperties
  <2>5. s \in S /\ S \subseteq Structure
    BY <1>1, <2>1
  <2>6. ASSUME NEW k \in 1 .. n, NEW x \in S
        PROVE  LET y == LinkField(objects, x, table, row, fields[k])
               IN y \in S /\ <<x, y>> \in ColumnGrowth /\ FieldGiven(y, table, row, fields[k])
    <3>1. fields[k] \in Name
      BY <2>2
    <3>2. PICK y : y = LinkField(objects, x, table, row, fields[k])
      OBVIOUS
    <3>3. x \in RowedBy(objects) /\ x.kind[row] = "Row"
      OBVIOUS
    <3> HIDE DEF row, fields, S
    <3>4. /\ y \in RowedBy(objects) /\ Extends(x, y) /\ SameRows(x, y)
          /\ FieldGiven(y, table, row, fields[k])
      BY <2>1, <3>1, <3>2, <3>3, FieldIsLinked
    <3>5. y.kind[row] = "Row"
      BY <2>1, <3>3, <3>4 DEF Extends
    <3> QED
      BY <1>1, <3>2, <3>3, <3>4, <3>5 DEF ColumnGrowth, S
  <2>7. /\ \A x \in S : <<x, x>> \in ColumnGrowth
        /\ \A x, y, z \in S : <<x, y>> \in ColumnGrowth /\ <<y, z>> \in ColumnGrowth
                                => <<x, z>> \in ColumnGrowth
    BY <2>5, GrowthOrders
  <2> HIDE DEF S
  <2>8. \E f : FieldSteps(f, objects, s, table, row, fields)
    <3>1. \A k \in 1 .. n : \A x \in S : g[k][x] = LinkField(objects, x, table, row, fields[k])
      OBVIOUS
    <3> HIDE DEF g, row, fields
    <3>2. \A k \in 1 .. n : \A x \in S : g[k][x] \in S /\ <<x, g[k][x]>> \in ColumnGrowth
      BY <2>6, <3>1
    <3>3. PICK f : Through(f, s, n, g, S)
      BY <2>2, <2>5, <2>7, <3>2, GoesThrough
    <3>4. \A k \in 0 .. n : f[k] = IF k = 0 THEN s ELSE LinkField(objects, f[k - 1], table, row, fields[k])
      <4>1. \A k \in 0 .. n : k # 0 => k \in 1 .. n
        BY <2>2
      <4> QED
        BY <3>1, <3>3, <4>1 DEF Through, Iterating
    <3>5. f = [k \in 0 .. n |-> IF k = 0 THEN s ELSE LinkField(objects, f[k - 1], table, row, fields[k])]
      BY <3>3, <3>4 DEF Through, Iterating
    <3> QED
      BY <3>5 DEF FieldSteps
  <2> HIDE DEF g
  <2> DEFINE h == CHOOSE f : FieldSteps(f, objects, s, table, row, fields)
  <2>9. FieldSteps(h, objects, s, table, row, fields)
    BY <2>8
  <2>10. LinkFields(objects, sequences, s, table) = h[n]
    BY <1>3 DEF LinkFields, FieldSteps
  <2> HIDE DEF h, row, fields
  <2>11. h[0] = s /\ \A k \in 1 .. n : h[k] = LinkField(objects, h[k - 1], table, row, fields[k])
    <3>1. h = [k \in 0 .. n |-> IF k = 0 THEN s ELSE LinkField(objects, h[k - 1], table, row, fields[k])]
      BY <2>9 DEF FieldSteps
    <3>2. \A k \in 1 .. n : k \in 0 .. n /\ k # 0
      BY <2>2
    <3>3. 0 \in 0 .. n
      BY <2>2
    <3> HIDE DEF n
    <3>4. h[0] = s
      BY <3>1, <3>3
    <3>5. ASSUME NEW k \in 1 .. n
          PROVE  h[k] = LinkField(objects, h[k - 1], table, row, fields[k])
      BY <3>1, <3>2
    <3> QED
      BY <3>4, <3>5
  <2>12. Steps(h, n, S, ColumnGrowth)
    BY <2>5, <2>6, <2>11 DEF Steps
  <2>13. \A k \in 0 .. n : h[k] \in S /\ <<h[k], h[n]>> \in ColumnGrowth
    BY <2>2, <2>7, <2>12, StepsKeep
  <2>14. 0 \in 0 .. n /\ n \in 0 .. n
    BY <2>2
  <2>15. ASSUME NEW field \in NamesOf(fields) PROVE FieldGiven(h[n], table, row, field)
    <3>1. PICK k \in 1 .. n : fields[k] = field
      BY <2>2 DEF NamesOf
    <3>2. k \in 0 .. n /\ k - 1 \in 0 .. n
      BY <2>2
    <3>3. FieldGiven(h[k], table, row, field)
      BY <2>6, <2>11, <2>13, <3>1, <3>2
    <3>4. Extends(h[k], h[n])
      BY <2>13, <3>2 DEF ColumnGrowth
    <3> QED
      BY <2>1, <3>3, <3>4, FieldStays
  <2>16. h[n].rowOf[table] = row
    BY <2>11, <2>13, <2>14 DEF ColumnGrowth, SameRows, row
  <2>17. h[n] \in RowedBy(objects)
    BY <2>13, <2>14 DEF S
  <2>18. FieldsGiven(objects, sequences, h[n], table)
    BY <2>15, <2>16 DEF FieldsGiven, fields
  <2> QED
    BY <2>10, <2>11, <2>13, <2>14, <2>17, <2>18
<1> QED
  BY <1>2, <1>3

\* What was given stays.
LEMMA FieldsStay ==
  ASSUME NEW objects, Shapely(objects), NEW sequences, NEW s \in RowedBy(objects), NEW u,
         NEW table \in Name, Extends(s, u), SameRows(s, u), FieldsGiven(objects, sequences, s, table)
  PROVE  FieldsGiven(objects, sequences, u, table)
<1>1. s.rowOf[table] # NoName => s.rowOf[table] \in Name
  BY ShapeFacts DEF RowedBy, RowsTyped
<1>2. u.rowOf = s.rowOf
  BY DEF SameRows
<1> QED
  BY <1>1, <1>2, FieldStays DEF FieldsGiven

AllFieldSteps(f, objects, sequences, s, tables) ==
  f = [k \in 0 .. Len(tables) |-> IF k = 0 THEN s
                                  ELSE LinkFields(objects, sequences, f[k - 1], tables[k])]

LEMMA AllFieldsAreLinked ==
  ASSUME NEW objects, Shapely(objects), NEW sequences \in [Name -> Seq(Name)],
         NEW s \in RowedBy(objects), NEW tables \in Seq(Name)
  PROVE  LET u == LinkAllFields(objects, sequences, s, tables)
         IN /\ u \in RowedBy(objects) /\ <<s, u>> \in ColumnGrowth
            /\ \A t \in NamesOf(tables) : FieldsGiven(objects, sequences, u, t)
<1> DEFINE S == RowedBy(objects)
           n == Len(tables)
           g == [k \in 1 .. n |-> [x \in S |-> LinkFields(objects, sequences, x, tables[k])]]
<1>1. n \in Nat /\ DOMAIN tables = 1 .. n /\ S \subseteq Structure
      /\ \A k \in 1 .. n : tables[k] \in Name
  BY LenProperties DEF Rowed, RowedBy
<1>2. ASSUME NEW k \in 1 .. n, NEW x \in S
      PROVE  LET y == LinkFields(objects, sequences, x, tables[k])
             IN y \in S /\ <<x, y>> \in ColumnGrowth /\ FieldsGiven(objects, sequences, y, tables[k])
  BY <1>1, FieldsAreLinked
<1>3. /\ \A x \in S : <<x, x>> \in ColumnGrowth
      /\ \A x, y, z \in S : <<x, y>> \in ColumnGrowth /\ <<y, z>> \in ColumnGrowth
                              => <<x, z>> \in ColumnGrowth
  BY <1>1, GrowthOrders
<1>4. \E f : AllFieldSteps(f, objects, sequences, s, tables)
  <2>1. \A k \in 1 .. n : \A x \in S : g[k][x] = LinkFields(objects, sequences, x, tables[k])
    OBVIOUS
  <2> HIDE DEF g
  <2>2. \A k \in 1 .. n : \A x \in S : g[k][x] \in S /\ <<x, g[k][x]>> \in ColumnGrowth
    BY <1>2, <2>1
  <2>3. PICK f : Through(f, s, n, g, S)
    BY <1>1, <1>3, <2>2, GoesThrough
  <2>4. \A k \in 0 .. n : f[k] = IF k = 0 THEN s ELSE LinkFields(objects, sequences, f[k - 1], tables[k])
    <3>1. \A k \in 0 .. n : k # 0 => k \in 1 .. n
      BY <1>1
    <3> QED
      BY <2>1, <2>3, <3>1 DEF Through, Iterating
  <2>5. f = [k \in 0 .. n |-> IF k = 0 THEN s ELSE LinkFields(objects, sequences, f[k - 1], tables[k])]
    BY <2>3, <2>4 DEF Through, Iterating
  <2> QED
    BY <2>5 DEF AllFieldSteps
<1> HIDE DEF g
<1> DEFINE h == CHOOSE f : AllFieldSteps(f, objects, sequences, s, tables)
<1>5. AllFieldSteps(h, objects, sequences, s, tables)
  BY <1>4
<1>6. LinkAllFields(objects, sequences, s, tables) = h[n]
  BY DEF LinkAllFields, AllFieldSteps
<1> HIDE DEF h
<1>7. h[0] = s /\ \A k \in 1 .. n : h[k] = LinkFields(objects, sequences, h[k - 1], tables[k])
  <2>1. h = [k \in 0 .. n |-> IF k = 0 THEN s ELSE LinkFields(objects, sequences, h[k - 1], tables[k])]
    BY <1>5 DEF AllFieldSteps
  <2>2. 0 \in 0 .. n /\ \A k \in 1 .. n : k \in 0 .. n /\ k # 0
    BY <1>1
  <2> HIDE DEF n
  <2>3. h[0] = s
    BY <2>1, <2>2
  <2>4. ASSUME NEW k \in 1 .. n
        PROVE  h[k] = LinkFields(objects, sequences, h[k - 1], tables[k])
    BY <2>1, <2>2
  <2> QED
    BY <2>3, <2>4
<1>8. Steps(h, n, S, ColumnGrowth)
  BY <1>2, <1>7 DEF Steps
<1>9. \A k \in 0 .. n : h[k] \in S /\ <<h[k], h[n]>> \in ColumnGrowth
  BY <1>1, <1>3, <1>8, StepsKeep
<1>10. \A k \in 0 .. n : Extends(h[k], h[n]) /\ SameRows(h[k], h[n])
  BY <1>9 DEF ColumnGrowth
<1>11. 0 \in 0 .. n /\ n \in 0 .. n
  BY <1>1
<1>12. ASSUME NEW t \in NamesOf(tables) PROVE FieldsGiven(objects, sequences, h[n], t)
  <2>1. PICK k \in 1 .. n : tables[k] = t
    BY <1>1 DEF NamesOf
  <2>2. k \in 0 .. n /\ k - 1 \in 0 .. n
    BY <1>1
  <2>3. FieldsGiven(objects, sequences, h[k], t)
    BY <1>2, <1>7, <1>9, <2>1, <2>2
  <2> QED
    BY <1>1, <1>9, <1>10, <2>1, <2>2, <2>3, FieldsStay
<1> QED
  BY <1>6, <1>7, <1>9, <1>11, <1>12

\* What names a row as its parent is a column of the row, unless the row is marked.
ParentKept(objects, rows, s, n) ==
  LET row == ShapeOf(objects, n).under
  IN row \in NamesOf(rows) => row \in s.errors \/ n \in NamesOf(s.columnsOf[row])

LEMMA ObjectIsLinked ==
  ASSUME NEW objects, Shapely(objects), NEW rows \in Seq(Name), NEW s \in Rowed,
         \A r \in NamesOf(rows) : s.kind[r] = "Row", NEW n \in Name
  PROVE  LET u == LinkObject(objects, rows, s, n)
         IN /\ u \in Rowed /\ Extends(s, u) /\ SameRows(s, u) /\ ParentKept(objects, rows, u, n)
<1> DEFINE shape == ShapeOf(objects, n)
           some == {r \in NamesOf(rows) : ShapeOf(objects, r).node = Parent[shape.node]}
           above == IF shape.node # NoNode /\ Parent[shape.node] # NoNode
                    THEN Filtered(rows, some) ELSE <<>>
<1>1. PICK u : u = LinkObject(objects, rows, s, n)
  OBVIOUS
<1>2. u = IF shape.under \in NamesOf(rows) THEN link_row_column(s, shape.under, n)
          ELSE IF Len(above) = 1 THEN link_row_column(s, above[1], n)
          ELSE IF above = <<>> \/ s.rowOfColumn[n] # NoName THEN s
          ELSE Mark(s, {n} \cup NamesOf(above))
  BY <1>1 DEF LinkObject
<1>3. s \in Structure /\ NamesOf(rows) \subseteq Name
  BY NamesOfList DEF Rowed
<1>4. above \in Seq(Name) /\ NamesOf(above) \subseteq NamesOf(rows)
  <2>1. Filtered(rows, some) \in Seq(Name) /\ NamesOf(Filtered(rows, some)) = NamesOf(rows) \cap some
    <3> HIDE DEF some
    <3> QED
      BY FilteredNames
  <2>2. <<>> \in Seq(Name) /\ NamesOf(<<>>) = {}
    BY EmptySeq DEF NamesOf
  <2> HIDE DEF some
  <2> QED
    BY <2>1, <2>2
<1> HIDE DEF above
<1>5. CASE shape.under \in NamesOf(rows)
  <2>1. u = link_row_column(s, shape.under, n) /\ shape.under \in Name /\ s.kind[shape.under] = "Row"
    BY <1>2, <1>3, <1>5
  <2>2. /\ u \in Rowed /\ Extends(s, u) /\ SameRows(s, u)
        /\ shape.under \in u.errors \/ n \in NamesOf(u.columnsOf[shape.under])
    BY <2>1, LinksColumn
  <2> QED
    BY <1>1, <2>2 DEF ParentKept
<1>6. CASE shape.under \notin NamesOf(rows)
  <2>1. ParentKept(objects, rows, u, n)
    BY <1>6 DEF ParentKept
  <2>2. CASE Len(above) = 1
    <3>1. above[1] \in NamesOf(above)
      BY <1>4, <2>2, LenProperties DEF NamesOf
    <3>2. u = link_row_column(s, above[1], n) /\ above[1] \in Name /\ s.kind[above[1]] = "Row"
      BY <1>2, <1>3, <1>4, <1>6, <2>2, <3>1
    <3>3. u \in Rowed /\ Extends(s, u) /\ SameRows(s, u)
      BY <3>2, LinksColumn
    <3> QED
      BY <1>1, <2>1, <3>3
  <2>3. CASE Len(above) # 1 /\ (above = <<>> \/ s.rowOfColumn[n] # NoName)
    <3>1. u = s
      BY <1>2, <1>6, <2>3
    <3>2. Extends(s, s) /\ SameRows(s, s)
      BY DEF Extends, SameRows
    <3> QED
      BY <1>1, <2>1, <3>1, <3>2
  <2>4. CASE Len(above) # 1 /\ ~ (above = <<>> \/ s.rowOfColumn[n] # NoName)
    <3>1. u = Mark(s, {n} \cup NamesOf(above)) /\ {n} \cup NamesOf(above) \in SUBSET Name
      BY <1>2, <1>3, <1>4, <1>6, <2>4
    <3>2. u \in Rowed /\ Extends(s, u) /\ SameRows(s, u)
      BY <1>3, <3>1, MarkKeeps
    <3> QED
      BY <1>1, <2>1, <3>2
  <2> QED
    BY <2>2, <2>3, <2>4
<1> QED
  BY <1>5, <1>6

LEMMA ParentStays ==
  ASSUME NEW objects, NEW rows \in Seq(Name), NEW s, NEW u, NEW n, Extends(s, u),
         ParentKept(objects, rows, s, n)
  PROVE  ParentKept(objects, rows, u, n)
BY NamesOfList DEF Extends, ParentKept

ObjectSteps(f, objects, rows, s, names) ==
  f = [k \in 0 .. Len(names) |-> IF k = 0 THEN s ELSE LinkObject(objects, rows, f[k - 1], names[k])]

LEMMA ObjectsAreLinked ==
  ASSUME NEW objects, Shapely(objects), NEW rows \in Seq(Name), NEW s \in Rowed,
         \A r \in NamesOf(rows) : s.kind[r] = "Row"
  PROVE  LET u == LinkObjects(objects, rows, s)
         IN /\ u \in Rowed /\ <<s, u>> \in ColumnGrowth
            /\ \A n \in Declared(objects) : ParentKept(objects, rows, u, n)
<1> DEFINE S == {x \in Rowed : \A r \in NamesOf(rows) : x.kind[r] = "Row"}
           names == Names(objects)
           n == Len(names)
           g == [k \in 1 .. n |-> [x \in S |-> LinkObject(objects, rows, x, names[k])]]
<1>1. /\ names \in Seq(Name) /\ n \in Nat /\ DOMAIN names = 1 .. n /\ s \in S
      /\ S \subseteq Structure /\ S \subseteq Rowed /\ NamesOf(names) = Declared(objects)
      /\ \A k \in 1 .. n : names[k] \in Name
  <2>1. names \in Seq(Name) /\ NamesOf(names) = Declared(objects)
    BY ShapeFacts
  <2> HIDE DEF names
  <2> QED
    BY <2>1, LenProperties DEF Rowed
<1>2. ASSUME NEW k \in 1 .. n, NEW x \in S
      PROVE  LET y == LinkObject(objects, rows, x, names[k])
             IN y \in S /\ <<x, y>> \in ColumnGrowth /\ ParentKept(objects, rows, y, names[k])
  <2>1. PICK y : y = LinkObject(objects, rows, x, names[k])
    OBVIOUS
  <2>2. x \in Rowed /\ (\A r \in NamesOf(rows) : x.kind[r] = "Row") /\ names[k] \in Name
    BY <1>1
  <2>3. /\ y \in Rowed /\ Extends(x, y) /\ SameRows(x, y) /\ ParentKept(objects, rows, y, names[k])
    BY <2>1, <2>2, ObjectIsLinked
  <2>4. \A r \in NamesOf(rows) : y.kind[r] = "Row"
    BY <2>2, <2>3, NamesOfList DEF Extends
  <2> QED
    BY <2>1, <2>2, <2>3, <2>4 DEF ColumnGrowth, Rowed
<1>3. /\ \A x \in S : <<x, x>> \in ColumnGrowth
      /\ \A x, y, z \in S : <<x, y>> \in ColumnGrowth /\ <<y, z>> \in ColumnGrowth
                              => <<x, z>> \in ColumnGrowth
  BY <1>1, GrowthOrders
<1> HIDE DEF S, names
<1>4. \E f : ObjectSteps(f, objects, rows, s, names)
  <2>1. \A k \in 1 .. n : \A x \in S : g[k][x] = LinkObject(objects, rows, x, names[k])
    OBVIOUS
  <2> HIDE DEF g
  <2>2. \A k \in 1 .. n : \A x \in S : g[k][x] \in S /\ <<x, g[k][x]>> \in ColumnGrowth
    BY <1>2, <2>1
  <2>3. PICK f : Through(f, s, n, g, S)
    BY <1>1, <1>3, <2>2, GoesThrough
  <2>4. \A k \in 0 .. n : f[k] = IF k = 0 THEN s ELSE LinkObject(objects, rows, f[k - 1], names[k])
    <3>1. \A k \in 0 .. n : k # 0 => k \in 1 .. n
      BY <1>1
    <3> QED
      BY <2>1, <2>3, <3>1 DEF Through, Iterating
  <2>5. f = [k \in 0 .. n |-> IF k = 0 THEN s ELSE LinkObject(objects, rows, f[k - 1], names[k])]
    BY <2>3, <2>4 DEF Through, Iterating
  <2> QED
    BY <2>5 DEF ObjectSteps
<1> HIDE DEF g
<1> DEFINE h == CHOOSE f : ObjectSteps(f, objects, rows, s, names)
<1>5. ObjectSteps(h, objects, rows, s, names)
  BY <1>4
<1>6. LinkObjects(objects, rows, s) = h[n]
  BY DEF LinkObjects, ObjectSteps, names
<1> HIDE DEF h
<1>7. h[0] = s /\ \A k \in 1 .. n : h[k] = LinkObject(objects, rows, h[k - 1], names[k])
  <2>1. h = [k \in 0 .. n |-> IF k = 0 THEN s ELSE LinkObject(objects, rows, h[k - 1], names[k])]
    BY <1>5 DEF ObjectSteps
  <2>2. 0 \in 0 .. n /\ \A k \in 1 .. n : k \in 0 .. n /\ k # 0
    BY <1>1
  <2> HIDE DEF n
  <2>3. h[0] = s
    BY <2>1, <2>2
  <2>4. ASSUME NEW k \in 1 .. n
        PROVE  h[k] = LinkObject(objects, rows, h[k - 1], names[k])
    BY <2>1, <2>2
  <2> QED
    BY <2>3, <2>4
<1>8. Steps(h, n, S, ColumnGrowth)
  BY <1>1, <1>2, <1>7 DEF Steps
<1>9. \A k \in 0 .. n : h[k] \in S /\ <<h[k], h[n]>> \in ColumnGrowth
  BY <1>1, <1>3, <1>8, StepsKeep
<1>10. \A k \in 0 .. n : Extends(h[k], h[n])
  BY <1>9 DEF ColumnGrowth
<1>11. 0 \in 0 .. n /\ n \in 0 .. n
  BY <1>1
<1>12. ASSUME NEW o \in Declared(objects) PROVE ParentKept(objects, rows, h[n], o)
  <2>1. PICK k \in 1 .. n : names[k] = o
    BY <1>1 DEF NamesOf
  <2>2. k \in 0 .. n /\ k - 1 \in 0 .. n
    BY <1>1
  <2>3. ParentKept(objects, rows, h[k], o)
    BY <1>2, <1>7, <1>9, <2>1, <2>2
  <2> QED
    BY <1>10, <2>2, <2>3, ParentStays
<1> QED
  BY <1>1, <1>6, <1>7, <1>9, <1>11, <1>12

------------------------------------------------------------------------------
(* What a module declares is whole. *)

Unmarked(objects, s, k) == {n \in Declared(objects) \ s.errors : s.kind[n] = k}

\* What DeclaredWhole says of the structure of one module.
Whole(objects, sequences, s) ==
  /\ \A t, r \in Name : s.rowOf[t] = r <=> s.tableOf[r] = t
  /\ \A r, c \in Name : s.rowOfColumn[c] = r <=> c \in NamesOf(s.columnsOf[r])
  /\ \A c \in Name : s.rowOfColumn[c] # NoName =>
       s.kind[c] = "Column" /\ s.kind[s.rowOfColumn[c]] = "Row"
  /\ \A t \in Unmarked(objects, s, "Table") :
       LET r == s.rowOf[t]
       IN /\ r # NoName /\ s.kind[r] = "Row"
          /\ \A q \in Declared(objects) \ {r} :
               ShapeOf(objects, q).under = t
                 => ShapeOf(objects, q).syntax # ShapeOf(objects, t).syntax
          /\ r \notin s.errors =>
               NamesOf(sequences[ShapeOf(objects, t).syntax]) \subseteq NamesOf(s.columnsOf[r])
  /\ \A r \in Unmarked(objects, s, "Row"), n \in Declared(objects) :
       ShapeOf(objects, n).under = r => n \in NamesOf(s.columnsOf[r])

LEMMA UnlinkedType ==
  ASSUME NEW objects, Shapely(objects)
  PROVE  /\ Unlinked(objects) \in TabledBy(objects)
         /\ \A n \in Declared(objects) : Unlinked(objects).kind[n] = "Table" => ShapeOf(objects, n).table
<1> DEFINE kinds == [n \in Name |-> IF n \notin Declared(objects) THEN "Unknown"
                                    ELSE IF ShapeOf(objects, n).table THEN "Table"
                                    ELSE IF ShapeOf(objects, n).indexed THEN "Row" ELSE "Scalar"]
           none == [n \in Name |-> NoName]
           s == Unlinked(objects)
<1>1. /\ s.kind = kinds /\ s.rowOf = none /\ s.tableOf = none /\ s.rowOfColumn = none
      /\ s.columnsOf = [n \in Name |-> <<>>] /\ s.errors = {}
  BY DEF Unlinked
<1>2. kinds \in [Name -> StructureKinds] /\ none \in [Name -> Name \cup {NoName}]
      /\ [n \in Name |-> <<>>] \in [Name -> Seq(Name)]
  BY EmptySeq DEF StructureKinds
<1>3. s \in Structure
  <2>1. s = [kind |-> kinds, rowOf |-> none, tableOf |-> none,
             columnsOf |-> [n \in Name |-> <<>>], rowOfColumn |-> none, errors |-> {}]
    BY DEF Unlinked
  <2> HIDE DEF s, kinds, none
  <2> QED
    BY <1>2, <2>1 DEF Structure
<1>4. \A n \in Name : s.rowOf[n] = NoName /\ s.tableOf[n] = NoName /\ s.rowOfColumn[n] = NoName
                      /\ s.columnsOf[n] = <<>>
  BY <1>1
<1>5. Paired(s) /\ Uncolumned(s) /\ RowsTyped(objects, s)
  <2>1. NoName \notin Name
    BY SemanticsAssumption
  <2> HIDE DEF s
  <2> QED
    BY <1>4, <2>1 DEF Paired, Uncolumned, RowsTyped
<1>6. \A n \in Declared(objects) : s.kind[n] = "Table" => ShapeOf(objects, n).table
  BY <1>1, ShapeFacts
<1> QED
  BY <1>3, <1>5, <1>6 DEF TabledBy, Tabled

\* The structure of a module is whole, whatever its objects are.
LEMMA StructureIsWhole ==
  ASSUME NEW objects, Shapely(objects), NEW sequences \in [Name -> Seq(Name)]
  PROVE  Whole(objects, sequences, collect_module_object_structure(objects, sequences))
<1> DEFINE unlinked == Unlinked(objects)
           tables   == Filtered(Names(objects), OfKind(unlinked, "Table"))
           paired   == LinkTables(objects, unlinked, tables)
           linked   == MarkRows(objects, paired)
           rows     == Filtered(Names(objects), OfKind(linked, "Row"))
           fielded  == LinkAllFields(objects, sequences, linked, tables)
           s        == LinkObjects(objects, rows, fielded)
<1>1. collect_module_object_structure(objects, sequences) = s
  BY DEF collect_module_object_structure
<1>2. Names(objects) \in Seq(Name) /\ NamesOf(Names(objects)) = Declared(objects)
      /\ Declared(objects) \subseteq Name /\ NoName \notin Name
  BY ShapeFacts, SemanticsAssumption
<1>3. unlinked \in TabledBy(objects)
      /\ \A n \in Declared(objects) : unlinked.kind[n] = "Table" => ShapeOf(objects, n).table
  BY UnlinkedType
<1> HIDE DEF unlinked
<1>4. tables \in Seq(Name)
      /\ \A t : t \in NamesOf(tables) <=> t \in Declared(objects) /\ unlinked.kind[t] = "Table"
  BY <1>2, FilteredNames DEF OfKind
<1> HIDE DEF tables
<1>5. paired \in TabledBy(objects) /\ Extends(unlinked, paired)
      /\ \A t \in NamesOf(tables) : RowFound(objects, paired, t)
  BY <1>3, <1>4, TablesAreLinked
<1> HIDE DEF paired
<1>6. linked \in RowedBy(objects) /\ Extends(paired, linked)
  BY <1>5, RowsAreMarked
<1> HIDE DEF linked
<1>7. rows \in Seq(Name) /\ \A r : r \in NamesOf(rows) <=> r \in Declared(objects) /\ linked.kind[r] = "Row"
  BY <1>2, FilteredNames DEF OfKind
<1> HIDE DEF rows
<1>8. /\ fielded \in RowedBy(objects) /\ <<linked, fielded>> \in ColumnGrowth
      /\ \A t \in NamesOf(tables) : FieldsGiven(objects, sequences, fielded, t)
  BY <1>4, <1>6, AllFieldsAreLinked
<1> HIDE DEF fielded
<1>9. Extends(linked, fielded) /\ SameRows(linked, fielded) /\ linked \in Structure
      /\ fielded \in Structure /\ fielded \in Rowed /\ unlinked \in Structure /\ paired \in Structure
  BY <1>3, <1>5, <1>6, <1>8 DEF ColumnGrowth, RowedBy, Rowed, TabledBy, Tabled
<1>10. \A r \in NamesOf(rows) : fielded.kind[r] = "Row"
  BY <1>2, <1>7, <1>9 DEF Extends
<1>11. /\ s \in Rowed /\ <<fielded, s>> \in ColumnGrowth
       /\ \A n \in Declared(objects) : ParentKept(objects, rows, s, n)
  BY <1>7, <1>9, <1>10, ObjectsAreLinked
<1> HIDE DEF s
<1>12. Extends(fielded, s) /\ SameRows(fielded, s) /\ s \in Structure /\ Paired(s) /\ Columned(s)
  BY <1>11 DEF ColumnGrowth, Rowed
<1>13. ASSUME NEW t \in Unmarked(objects, s, "Table")
       PROVE  LET r == s.rowOf[t]
              IN /\ r # NoName /\ s.kind[r] = "Row"
                 /\ \A q \in Declared(objects) \ {r} :
                      ShapeOf(objects, q).under = t
                        => ShapeOf(objects, q).syntax # ShapeOf(objects, t).syntax
                 /\ r \notin s.errors =>
                      NamesOf(sequences[ShapeOf(objects, t).syntax]) \subseteq NamesOf(s.columnsOf[r])
  <2>1. t \in Declared(objects) /\ t \in Name /\ t \notin s.errors /\ s.kind[t] = "Table"
    BY <1>2 DEF Unmarked
  <2>2. t \in NamesOf(tables)
    BY <1>4, <1>5, <1>6, <1>9, <1>12, <2>1 DEF Extends
  <2>3. RowFound(objects, s, t)
    <3>1. RowFound(objects, paired, t)
      BY <1>5, <2>2
    <3>2. RowFound(objects, linked, t)
      BY <1>6, <1>9, <2>1, <3>1, RowStays
    <3>3. RowFound(objects, fielded, t)
      BY <1>9, <2>1, <3>2, RowStays
    <3> QED
      BY <1>9, <1>12, <2>1, <3>3, RowStays
  <2>4. FieldsGiven(objects, sequences, s, t)
    BY <1>8, <1>12, <2>1, <2>2, FieldsStay
  <2> DEFINE r == s.rowOf[t]
  <2>5. /\ r \in Declared(objects) /\ r \in Name
        /\ ShapeOf(objects, r).syntax = ShapeOf(objects, t).syntax
        /\ \A q \in Declared(objects) \ {r} :
             ShapeOf(objects, q).under = t => ShapeOf(objects, q).syntax # ShapeOf(objects, t).syntax
    BY <1>2, <2>1, <2>3 DEF RowFound
  <2>6. r # NoName /\ s.kind[r] = "Row"
    BY <1>2, <1>12, <2>1, <2>5 DEF Paired
  <2>7. r \notin s.errors =>
          NamesOf(sequences[ShapeOf(objects, t).syntax]) \subseteq NamesOf(s.columnsOf[r])
    BY <2>1, <2>4, <2>5, <2>6 DEF FieldsGiven, FieldGiven
  <2> QED
    BY <2>5, <2>6, <2>7
<1>14. ASSUME NEW r \in Unmarked(objects, s, "Row"), NEW n \in Declared(objects),
              ShapeOf(objects, n).under = r
       PROVE  n \in NamesOf(s.columnsOf[r])
  <2>1. r \in Declared(objects) /\ r \in Name /\ r \notin s.errors /\ s.kind[r] = "Row"
    BY <1>2 DEF Unmarked
  <2>2. r \in NamesOf(rows)
    BY <1>7, <1>9, <1>12, <2>1 DEF SameRows
  <2> QED
    BY <1>11, <1>14, <2>1, <2>2 DEF ParentKept
<1>15. Whole(objects, sequences, s)
  BY <1>12, <1>13, <1>14 DEF Whole, Paired, Columned
<1> QED
  BY <1>1, <1>15

\* The objects of a module are parsed: the parser reads no SEQUENCE OF without a name.
LEMMA ParentType ==
  ASSUME world \in Worlds, NEW d \in Defs
  PROVE  declared_local_parent(d) \in Name \cup {NoName}
<1> DEFINE objects == {Def(e).name : e \in {o \in Defs : Def(o).module = Def(d).module
                                                         /\ Def(o).sort = "Object"}}
           path == Def(d).path
           found == {k \in DOMAIN path : /\ path[k].module \in {NoModule, Def(d).module}
                                         /\ path[k].name \in objects}
<1>1. declared_local_parent(d)
        = IF found = {} THEN NoName ELSE path[CHOOSE k \in found : \A j \in found : j <= k].name
  BY DEF declared_local_parent
<1>2. path \in Seq(Component)
  BY WorldType DEF Definition
<1>3. DOMAIN path = 1 .. Len(path) /\ Len(path) \in Nat
  BY <1>2, LenProperties
<1>4. objects \subseteq Name
  BY DefFacts
<1> HIDE DEF objects, path
<1>5. CASE found # {}
  <2>1. found \in SUBSET (1 .. Len(path))
    BY <1>3
  <2>2. \E k \in found : \A j \in found : j <= k
    BY <1>3, <1>5, <2>1, LargestMember
  <2>3. PICK k : k = CHOOSE i \in found : \A j \in found : j <= i
    OBVIOUS
  <2>4. k \in found
    BY <2>2, <2>3
  <2> QED
    BY <1>1, <1>4, <1>5, <2>3, <2>4
<1> QED
  BY <1>1, <1>5

LEMMA ShapesAreShapely ==
  ASSUME world \in Worlds, NEW m \in Module
  PROVE  Shapely(Shapes(m)) /\ world.sequences[m] \in [Name -> Seq(Name)]
<1> DEFINE own == {d \in Defs : Def(d).module = m /\ Def(d).sort = "Object"}
           all == [d \in Defs |-> d]
           ds == Filtered(all, own)
<1>1. Defs = 1 .. Len(world.defs) /\ Len(world.defs) \in Nat
  BY WorldType
<1>2. all \in Seq(Defs)
  <2>1. all \in [1 .. Len(world.defs) -> Defs]
    BY <1>1
  <2> HIDE DEF all
  <2> QED
    BY <1>1, <2>1
<1>3. Shapes(m) = [k \in DOMAIN ds |-> ShapeOfDef(ds[k])]
  BY DEF Shapes
<1> HIDE DEF all, own
<1>4. ds \in Seq(Defs)
  BY <1>2, FilteredNames
<1> HIDE DEF ds
<1>5. DOMAIN ds = 1 .. Len(ds) /\ Len(ds) \in Nat /\ \A k \in DOMAIN ds : ds[k] \in Defs
  BY <1>4, LenProperties
<1>6. ASSUME NEW d \in Defs
      PROVE  ShapeOfDef(d) \in Shape /\ (ShapeOfDef(d).table => ShapeOfDef(d).syntax # NoName)
  <2>1. Def(d) \in Definition /\ AsParsed(Def(d))
    BY WorldType, DefLists
  <2>2. /\ Def(d).name \in Name /\ Def(d).table \in BOOLEAN /\ Def(d).syntax \in Name \cup {NoName}
        /\ Indexed(d) \in BOOLEAN
    BY <2>1 DEF Definition, Indexed
  <2>3. declared_local_parent(d) \in Name \cup {NoName} /\ NodeOf(d) \in Node \cup {NoNode}
    BY ParentType, DefFacts
  <2>4. Def(d).table => Def(d).syntax # NoName
    BY <2>1 DEF AsParsed
  <2> QED
    BY <2>2, <2>3, <2>4 DEF ShapeOfDef, Shape
<1>7. \A k \in DOMAIN Shapes(m) : Shapes(m)[k] \in Shape
        /\ (Shapes(m)[k].table => Shapes(m)[k].syntax # NoName)
  BY <1>3, <1>5, <1>6
<1>8. Shapes(m) \in Seq(Shape)
  <2>1. Shapes(m) \in [1 .. Len(ds) -> Shape]
    BY <1>3, <1>5, <1>6
  <2> QED
    BY <1>5, <2>1
<1>9. world.sequences[m] \in [Name -> Seq(Name)]
  <2>1. world \in World
    BY SemanticsAssumption
  <2> QED
    BY <2>1 DEF World
<1> QED
  BY <1>7, <1>8, <1>9 DEF Shapely

\* From the first pass on, each module has the structure that its objects declare.
Collected ==
  pass # "structures" =>
    structures = [m \in Module |-> collect_module_object_structure(Shapes(m), world.sequences[m])]

LEMMA CollectedStep == Collected /\ [Next]_vars => Collected'
<1> SUFFICES ASSUME Collected, [Next]_vars PROVE Collected'
  OBVIOUS
<1>1. ASSUME world' = world
      PROVE  [m \in Module |-> collect_module_object_structure(Shapes(m), world.sequences[m])]'
               = [m \in Module |-> collect_module_object_structure(Shapes(m), world.sequences[m])]
  <2>1. \A d : Def(d)' = Def(d)
    BY <1>1 DEF Def
  <2>2. \A m : Shapes(m)' = Shapes(m)
    BY <1>1 DEF Shapes, ShapeOfDef, Indexed, declared_local_parent, NodeOf, Def, Defs, Filtered
  <2> QED
    BY <1>1, <2>2
<1>2. CASE CollectStructures
  <2>1. world' = world /\ structures' = [m \in Module |->
          collect_module_object_structure(Shapes(m), world.sequences[m])]
    BY <1>2 DEF CollectStructures
  <2> QED
    BY <1>1, <2>1 DEF Collected
<1>3. ASSUME UNCHANGED <<world, structures>>, pass # "structures" \/ pass' = pass
      PROVE  Collected'
  BY <1>1, <1>3 DEF Collected
<1>4. CASE UNCHANGED vars
  BY <1>3, <1>4 DEF vars
<1>5. CASE NextPass \/ ReclassifyColumns
  BY <1>3, <1>5 DEF NextPass, ReclassifyColumns
<1>6. ASSUME NEW d \in Defs,
             \/ InferKind(d) \/ CreateObject(d)
             \/ ValidateTable(d) \/ LinkIndexes(d) \/ CheckNesting(d)
      PROVE  Collected'
  BY <1>3, <1>6 DEF InferKind, CreateObject, ValidateTable, LinkIndexes, CheckNesting, Comes
<1>7. ASSUME NEW d \in Defs,
             CreateNotification(d) \/ CreateGroup(d) \/ CreateCompliance(d) \/ CreateCapability(d)
      PROVE  Collected'
  BY <1>3, <1>7 DEF CreateNotification, CreateGroup, CreateCompliance, CreateCapability, Comes
<1> QED
  BY <1>2, <1>4, <1>5, <1>6, <1>7 DEF Next

\* What each module declares is whole: tables and rows, and rows and columns, name each
\* other, an unmarked table has the one row its type and its children allow, with the
\* fields of its SEQUENCE, and what names an unmarked row as its parent is a column of it.
THEOREM DeclaredWholeHolds == Spec => []DeclaredWhole
<1>1. Init => Collected
  BY DEF Init, Collected
<1>2. Typed /\ Collected => DeclaredWhole
  <2> SUFFICES ASSUME Typed, Collected, pass # "structures" PROVE DeclaredWhole
    BY DEF DeclaredWhole
  <2>1. ASSUME NEW m \in Module PROVE Whole(Shapes(m), world.sequences[m], structures[m])
    <3>1. structures[m] = collect_module_object_structure(Shapes(m), world.sequences[m])
      BY DEF Collected
    <3> QED
      BY <3>1, ShapesAreShapely, StructureIsWhole DEF Typed
  <2> QED
    BY <2>1 DEF DeclaredWhole, Whole, Unmarked
<1>3. Spec => []Collected
  BY <1>1, CollectedStep, PTL DEF Spec
<1>4. Spec => []Typed
  BY AlwaysExplained, PTL
<1> QED
  BY <1>2, <1>3, <1>4, PTL

==============================================================================
