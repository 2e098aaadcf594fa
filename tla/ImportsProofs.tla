----------------------------- MODULE ImportsProofs -----------------------------
(***************************************************************************)
(* What import resolution keeps for all modules, symbols and worlds: its   *)
(* types, that every import leads to a definition, and that the recorded   *)
(* path of an import is a chain of import clauses.  The argument is that   *)
(* the stack of the traversal always holds such a chain.                   *)
(***************************************************************************)
EXTENDS Imports, SequenceTheorems, WellFoundedInduction, TLAPS

(* The inputs. *)

\* A module is one of a non-empty list, with a name, clauses and definitions.
LEMMA WorldType ==
  ASSUME world \in Worlds
  PROVE  /\ Len(world.modules) \in Nat /\ Len(world.modules) > 0
         /\ Mods = 1 .. Len(world.modules)
         /\ \A m \in Mods : /\ world.modules[m].name \in ModName
                            /\ Clauses(m) \in Seq(Clause)
                            /\ Defs(m) \in SUBSET Symbol
                            /\ world.modules[m].updated \in Timestamps
<1> DEFINE R == [name : ModName, imports : Seq(Clause), defs : SUBSET Symbol,
                 updated : Timestamps]
<1>1. world.modules \in Seq(R) /\ world.modules # <<>>
  BY ImportsAssumption
<1>2. Len(world.modules) \in Nat /\ Mods = 1 .. Len(world.modules)
      /\ Len(world.modules) > 0 /\ \A m \in Mods : world.modules[m] \in R
  <2> HIDE DEF R
  <2> QED
    BY <1>1, ElementOfSeq, LenProperties, EmptySeq DEF Mods
<1> QED
  BY <1>2 DEF Clauses, Defs

\* A clause has a symbol and a module.
LEMMA ClauseType ==
  ASSUME world \in Worlds, NEW m \in Mods, NEW i \in DOMAIN Clauses(m)
  PROVE  Clauses(m)[i].symbol \in Symbol /\ Clauses(m)[i].module \in ModName
<1>1. Clauses(m) \in Seq(Clause)
  BY WorldType
<1>2. Clauses(m)[i] \in Clause
  BY <1>1, ElementOfSeq
<1> QED
  BY <1>2 DEF Clause

\* A non-empty set of numbers has a smallest one.
LEMMA SmallestMember ==
  ASSUME NEW S \in SUBSET Nat, S # {}
  PROVE  \E x \in S : \A y \in S : x <= y
<1>1. \A x, y \in Nat : y < x => <<y, x>> \in OpToRel(<, Nat)
  BY DEF OpToRel
<1>2. PICK x \in S : \A y \in S : ~ (<<y, x>> \in OpToRel(<, Nat))
  BY WFMin, NatLessThanWellFounded
<1>3. \A y \in S : ~ (y < x)
  BY <1>1, <1>2
<1> QED
  BY <1>3

\* The minimum of some numbers is one of them.
LEMMA MinIn ==
  ASSUME NEW S \in SUBSET Nat, S # {}
  PROVE  Min(S) \in S /\ \A y \in S : Min(S) <= y
BY SmallestMember DEF Min

\* Of the clauses of a module for one symbol, one is the first.
LEMMA FirstIsUnique ==
  ASSUME world \in Worlds, NEW m \in Mods, NEW i \in Firsts(m), NEW j \in Firsts(m),
         Clauses(m)[i].symbol = Clauses(m)[j].symbol
  PROVE  i = j
<1>1. Clauses(m) \in Seq(Clause)
  BY WorldType
<1>2. i \in Nat /\ j \in Nat /\ i >= 1 /\ j >= 1
  BY <1>1 DEF Firsts
<1>3. ~ (i < j) /\ ~ (j < i)
  BY <1>2 DEF Firsts, IsFirst
<1> QED
  BY <1>2, <1>3

\* A forwarder's clause for a symbol is its first one.
LEMMA SourceOfFirst ==
  ASSUME world \in Worlds, NEW m \in Mods, NEW i \in Firsts(m)
  PROVE  Source(m, Clauses(m)[i].symbol) = Clauses(m)[i].module
BY FirstIsUnique DEF Source

\* Of two timestamps one is later, or they are the same.
LEMMA StampOrder ==
  ASSUME world \in Worlds
  PROVE  /\ \A m \in Mods : Stamp(m) \in [date : Nat, time : Nat]
         /\ \A m, n \in Mods :
              Stamp(m) = Stamp(n) \/ Later(Stamp(m), Stamp(n)) \/ Later(Stamp(n), Stamp(m))
         /\ \A l, m, n \in Mods :
              Later(Stamp(l), Stamp(m)) /\ Later(Stamp(m), Stamp(n))
                => Later(Stamp(l), Stamp(n))
<1>1. ASSUME NEW ts \in Timestamps
      PROVE  normalize_timestamp(ts) \in [date : Nat, time : Nat]
  <2>1. FullYear(ts) \in Nat
    BY DEF Timestamps, FullYear
  <2> QED
    BY <2>1, SMT DEF Timestamps, normalize_timestamp
<1>2. \A m \in Mods : Stamp(m) \in [date : Nat, time : Nat]
  BY <1>1, WorldType DEF Stamp
<1>3. ASSUME NEW x \in [date : Nat, time : Nat], NEW y \in [date : Nat, time : Nat]
      PROVE  x = y \/ Later(x, y) \/ Later(y, x)
  <2>1. x.date = y.date /\ x.time = y.time => x = y
    OBVIOUS
  <2> QED
    BY <2>1 DEF Later
<1>4. ASSUME NEW x \in [date : Nat, time : Nat], NEW y \in [date : Nat, time : Nat],
             NEW z \in [date : Nat, time : Nat], Later(x, y), Later(y, z)
      PROVE  Later(x, z)
  BY <1>4 DEF Later
<1> QED
  BY <1>2, <1>3, <1>4

Before(m, n) == Later(Stamp(m), Stamp(n)) \/ (Stamp(m) = Stamp(n) /\ m < n)

Best(ms, m) == m \in ms /\ \A n \in ms \ {m} : Before(m, n)

\* Before is a total order on the modules.
LEMMA BeforeIsTotal ==
  ASSUME world \in Worlds
  PROVE  /\ \A m, n \in Mods : m # n => Before(m, n) \/ Before(n, m)
         /\ \A l, m, n \in Mods : Before(l, m) /\ Before(m, n) => Before(l, n)
<1>1. Mods \subseteq Nat
  BY WorldType
<1>2. ASSUME NEW m \in Mods, NEW n \in Mods, m # n
      PROVE  Before(m, n) \/ Before(n, m)
  <2>1. m < n \/ n < m
    BY <1>1, <1>2
  <2> QED
    BY <2>1, StampOrder DEF Before
<1>3. ASSUME NEW l \in Mods, NEW m \in Mods, NEW n \in Mods, Before(l, m), Before(m, n)
      PROVE  Before(l, n)
  <2>1. l < m /\ m < n => l < n
    BY <1>1
  <2>2. Later(Stamp(l), Stamp(m)) /\ Later(Stamp(m), Stamp(n)) => Later(Stamp(l), Stamp(n))
    BY StampOrder
  <2> QED
    BY <1>3, <2>1, <2>2 DEF Before
<1> QED
  BY <1>2, <1>3

Upto(ms, k) == {m \in ms : m <= k}

NoBest(ms) == {k \in 0 .. Len(world.modules) :
                 Upto(ms, k) # {} /\ ~ \E m \in Mods : Best(Upto(ms, k), m)}

\* Of some modules one is the newest: else the shortest prefix of the list of
\* modules without one would lose it by leaving out its last module.
LEMMA NewestIn ==
  ASSUME world \in Worlds, NEW ms \in SUBSET Mods, ms # {}
  PROVE  Newest(ms) \in ms
<1>1. Mods = 1 .. Len(world.modules) /\ Len(world.modules) \in Nat
  BY WorldType
<1>a. \A m \in ms : m \in Nat /\ 1 <= m /\ m <= Len(world.modules)
  BY <1>1
<1>2. NoBest(ms) = {}
  <2>1. SUFFICES ASSUME NoBest(ms) # {} PROVE FALSE
    OBVIOUS
  <2>2. NoBest(ms) \in SUBSET Nat
    BY <1>1 DEF NoBest
  <2>3. PICK i \in NoBest(ms) : \A j \in NoBest(ms) : i <= j
    BY <2>1, <2>2, SmallestMember
  <2>4. i \in 1 .. Len(world.modules) /\ ~ \E m \in Mods : Best(Upto(ms, i), m)
    <3>1. i \in 0 .. Len(world.modules) /\ Upto(ms, i) # {}
          /\ ~ \E m \in Mods : Best(Upto(ms, i), m)
      BY <2>3 DEF NoBest
    <3>2. i # 0
      BY <1>a, <3>1 DEF Upto
    <3> QED
      BY <1>1, <3>1, <3>2
  <2>5. i - 1 \in 0 .. Len(world.modules) /\ i - 1 \notin NoBest(ms)
    BY <1>1, <2>2, <2>3, <2>4
  <2>6. Upto(ms, i) = Upto(ms, i - 1) \cup (ms \cap {i})
    <3>1. \A m \in ms : m <= i <=> m <= i - 1 \/ m = i
      BY <1>1, <1>a, <2>4
    <3> QED
      BY <3>1, Zenon DEF Upto
  <2>7. Upto(ms, i - 1) # {} => \E m \in Mods : Best(Upto(ms, i - 1), m)
    BY <2>5 DEF NoBest
  <2>8. CASE i \notin ms
    <3>1. Upto(ms, i) = Upto(ms, i - 1)
      BY <2>6, <2>8
    <3> QED
      BY <2>3, <2>4, <2>7, <3>1 DEF NoBest
  <2>9. CASE i \in ms /\ Upto(ms, i - 1) = {}
    <3>1. Upto(ms, i) = {i}
      BY <2>6, <2>9
    <3>2. Best(Upto(ms, i), i)
      BY <3>1 DEF Best
    <3> QED
      BY <1>1, <2>4, <3>2
  <2>10. CASE i \in ms /\ Upto(ms, i - 1) # {}
    <3>1. PICK m \in Mods : Best(Upto(ms, i - 1), m)
      BY <2>7, <2>10
    <3>2. m \in ms /\ m # i /\ i \in Mods
      BY <1>1, <2>4, <3>1 DEF Best, Upto
    <3>3. CASE Before(m, i)
      <4>1. Best(Upto(ms, i), m)
        BY <2>6, <3>1, <3>3 DEF Best
      <4> QED
        BY <2>4, <4>1
    <3>4. CASE Before(i, m)
      <4>1. \A n \in Upto(ms, i - 1) : n \in Mods /\ (n = m \/ Before(m, n))
        BY <3>1 DEF Best, Upto
      <4>2. \A n \in Upto(ms, i - 1) : Before(i, n)
        BY <3>2, <3>4, <4>1, BeforeIsTotal
      <4>3. Best(Upto(ms, i), i)
        BY <2>6, <2>10, <4>2 DEF Best
      <4> QED
        BY <2>4, <3>2, <4>3
    <3> QED
      BY <3>2, <3>3, <3>4, BeforeIsTotal
  <2> QED
    BY <2>8, <2>9, <2>10
<1>3. Upto(ms, Len(world.modules)) = ms
  BY <1>1, <1>a DEF Upto
<1>4. PICK m \in Mods : Best(ms, m)
  BY <1>1, <1>2, <1>3 DEF NoBest
<1> QED
  BY <1>4 DEF Best, Before, Newest

------------------------------------------------------------------------------
(* The invariant. *)

\* A path that may be recorded for a symbol of the importing module.
Leads(s, p) == p \in Seq(Mods) /\ SoundPath(mod, s, p) /\ s \in Defs(p[Len(p)])

\* The frames are a chain of clauses for the symbol through modules that do not
\* define it, each with candidates that its clause names.
StackOK ==
  /\ stack[1].rest \subseteq Versions(FromModule)
  /\ \A k \in 2 .. Len(stack) :
       /\ stack[k].at \in Mods /\ Sought \notin Defs(stack[k].at)
       /\ stack[k].rest \subseteq Versions(Source(stack[k].at, Sought))
       /\ world.modules[stack[k].at].name =
            IF k = 2 THEN FromModule ELSE Source(stack[k - 1].at, Sought)
  /\ \A j, k \in 2 .. Len(stack) : stack[j].at = stack[k].at => j = k

SearchOK ==
  /\ stage = "direct" => cands = {} /\ syms = {} /\ found = <<>> /\ stack = <<>>
  /\ stage # "direct" => todo # {} /\ cands \subseteq Versions(FromModule)
  /\ stage = "alias" => world.constrained /\ found = <<>> /\ stack = <<>>
  /\ \A s \in DOMAIN found : s \in Symbols(NonMacro) /\ Leads(s, found[s])
  /\ stack # <<>> => stage \in {"forwarding", "partial"} /\ syms # {} /\ StackOK

IInv == TypeOK /\ SearchOK /\ AtDefiner /\ PathSound

\* Modules and numbers are what they are: a version of a name is a module.
LEMMA VersionsAreMods ==
  ASSUME NEW name
  PROVE  Versions(name) \subseteq Mods
BY DEF Versions

\* The group at hand: its clauses are for symbols that the named module is asked for.
LEMMA GroupFacts ==
  ASSUME TypeOK, todo # {}
  PROVE  /\ mod \in Mods /\ FromModule \in ModName
         /\ NonMacro \subseteq Firsts(mod) /\ NonMacro \subseteq Nat
         /\ \A i \in NonMacro : /\ SymbolAt(i) \in Symbols(NonMacro)
                                /\ Source(mod, SymbolAt(i)) = FromModule
         /\ \A s \in Symbols(NonMacro) : s \in Symbol /\ Source(mod, s) = FromModule
<1>1. world \in Worlds /\ mod \in Nat /\ mod # 0 /\ todo \subseteq Firsts(mod)
  BY DEF TypeOK
<1>2. mod \in Mods
  BY <1>1, WorldType DEF TypeOK
<1>3. Clauses(mod) \in Seq(Clause)
  BY <1>1, <1>2, WorldType
<1>4. Firsts(mod) \subseteq Nat
  BY <1>3 DEF Firsts
<1>5. Min(todo) \in Firsts(mod)
  BY <1>1, <1>4, MinIn
<1>6. FromModule \in ModName
  BY <1>1, <1>2, <1>5, ClauseType DEF FromModule, Firsts
<1>7. NonMacro \subseteq Firsts(mod)
  BY <1>1 DEF NonMacro, Group
<1>8. ASSUME NEW i \in NonMacro
      PROVE  SymbolAt(i) \in Symbol /\ Source(mod, SymbolAt(i)) = FromModule
  <2>1. i \in Firsts(mod) /\ Clauses(mod)[i].module = FromModule
    BY <1>1 DEF NonMacro, Group
  <2>2. SymbolAt(i) \in Symbol
    BY <1>1, <1>2, <2>1, ClauseType DEF SymbolAt, Firsts
  <2> QED
    BY <1>1, <1>2, <2>1, <2>2, SourceOfFirst DEF SymbolAt
<1> QED
  BY <1>2, <1>4, <1>6, <1>7, <1>8 DEF Symbols

\* The symbol the traversal is for is one of the group's.
LEMMA SoughtIn ==
  ASSUME TypeOK, syms # {}
  PROVE  /\ todo # {} /\ Min(syms) \in NonMacro
         /\ Sought \in Symbols(NonMacro) /\ Sought \in Symbol
         /\ Source(mod, Sought) = FromModule
<1>1. todo # {} /\ syms \subseteq NonMacro
  BY DEF TypeOK
<1>2. Min(syms) \in NonMacro
  BY <1>1, GroupFacts, MinIn
<1> QED
  BY <1>1, <1>2, GroupFacts DEF Sought

\* The candidate at hand is a module that the innermost frame leads to.
LEMMA PickIn ==
  ASSUME TypeOK, SearchOK, Exploring
  PROVE  /\ Pick \in Top.rest /\ Pick \in Mods
         /\ Len(stack) \in Nat /\ Len(stack) >= 1
         /\ world.modules[Pick].name =
              IF Len(stack) = 1 THEN FromModule ELSE Source(Top.at, Sought)
<1>1. stack \in Seq([at : Mods \cup {NoMod}, rest : SUBSET Mods]) /\ stack # <<>>
  BY DEF TypeOK, Exploring
<1>2. Len(stack) \in Nat /\ Len(stack) >= 1 /\ Top \in [at : Mods \cup {NoMod}, rest : SUBSET Mods]
  <2> DEFINE F == [at : Mods \cup {NoMod}, rest : SUBSET Mods]
  <2>1. stack \in Seq(F) /\ stack # <<>>
    BY <1>1
  <2> HIDE DEF F
  <2>2. Len(stack) \in Nat /\ Len(stack) >= 1
    BY <2>1, EmptySeq, LenProperties
  <2>3. Top \in F
    BY <2>1, <2>2, ElementOfSeq DEF Top
  <2> QED
    BY <2>2, <2>3 DEF F
<1>3. Top.rest \in SUBSET Mods /\ Top.rest # {} /\ world \in Worlds
  BY <1>2 DEF Exploring, TypeOK
<1>4. Top.rest \in SUBSET Nat
  BY <1>3, WorldType
<1>5. Pick \in Top.rest
  BY <1>3, <1>4, MinIn, NewestIn DEF Pick
<1>6. world.modules[Pick].name =
        IF Len(stack) = 1 THEN FromModule ELSE Source(Top.at, Sought)
  <2>1. StackOK
    BY DEF SearchOK, Exploring
  <2>2. Len(stack) = 1 => Pick \in Versions(FromModule)
    BY <1>5, <2>1 DEF StackOK, Top
  <2>3. Len(stack) # 1 => Pick \in Versions(Source(Top.at, Sought))
    <3>a. \A l \in Nat : l >= 1 /\ l # 1 => l \in 2 .. l
      OBVIOUS
    <3>1. Len(stack) # 1 => Len(stack) \in 2 .. Len(stack)
      BY <1>2, <3>a, Zenon
    <3>2. Len(stack) # 1 => Top.rest \subseteq Versions(Source(Top.at, Sought))
      BY <2>1, <3>1 DEF StackOK, Top
    <3> QED
      BY <1>5, <3>2
  <2> QED
    BY <2>2, <2>3 DEF Versions
<1> QED
  BY <1>2, <1>3, <1>5, <1>6

\* A candidate that defines the symbol completes a path to record.
LEMMA PathLeads ==
  ASSUME TypeOK, SearchOK, Exploring, Sought \in Defs(Pick)
  PROVE  Leads(Sought, Path)
<1>1. PICK n \in Nat : n = Len(stack) /\ n >= 1 /\ Pick \in Mods
  BY PickIn
<1>2. StackOK /\ syms # {}
  BY DEF SearchOK, Exploring
<1>3. \A k \in 1 .. n - 1 : Path[k] = stack[k + 1].at /\ Path[k] \in Mods
  BY <1>1, <1>2 DEF Path, StackOK
<1>4. Path[n] = Pick
  BY <1>1 DEF Path
<1>5. Path \in [1 .. n -> Mods]
  <2>1. \A k \in 1 .. n : Path[k] \in Mods
    BY <1>1, <1>3, <1>4
  <2> QED
    BY <1>1, <2>1 DEF Path
<1>6. Path \in Seq(Mods) /\ Len(Path) = n /\ Path # <<>>
  BY <1>1, <1>5, SeqDef, LenProperties, EmptySeq
<1>7. LeadsTo(Source(mod, Sought), Path[1])
  <2>1. world.modules[Path[1]].name = FromModule
    <3>1. CASE n = 1
      BY <1>1, <1>4, <3>1, PickIn
    <3>2. CASE n # 1
      <4>1. 2 \in 2 .. n /\ 1 \in 1 .. n - 1
        BY <1>1, <3>2
      <4> QED
        BY <1>1, <1>2, <1>3, <4>1 DEF StackOK
    <3> QED
      BY <3>1, <3>2
  <2> QED
    BY <1>2, <2>1, SoughtIn DEF LeadsTo
<1>8. ASSUME NEW k \in 1 .. n - 1
      PROVE  /\ world.modules[Path[k + 1]].name = Source(Path[k], Sought)
             /\ Sought \notin Defs(Path[k])
  <2>1. Path[k] = stack[k + 1].at /\ k + 1 \in 2 .. n
    BY <1>1, <1>3
  <2>2. Sought \notin Defs(Path[k])
    BY <1>1, <1>2, <2>1 DEF StackOK
  <2>3. CASE k = n - 1
    <3>1. n # 1 /\ k + 1 = n
      BY <1>1, <2>3
    <3>2. world.modules[Pick].name = Source(Top.at, Sought)
      BY <1>1, <3>1, PickIn
    <3> QED
      BY <1>1, <1>4, <2>1, <2>2, <3>1, <3>2 DEF Top
  <2>4. CASE k # n - 1
    <3>1. k + 2 \in 2 .. n /\ k + 2 # 2 /\ Path[k + 1] = stack[k + 2].at
      BY <1>1, <1>3, <2>4
    <3>2. world.modules[stack[k + 2].at].name = Source(stack[(k + 2) - 1].at, Sought)
      BY <1>1, <1>2, <3>1 DEF StackOK
    <3>3. (k + 2) - 1 = k + 1
      BY <1>1
    <3> QED
      BY <2>1, <2>2, <3>1, <3>2, <3>3
  <2> QED
    BY <2>2, <2>3, <2>4
<1>9. ASSUME NEW j \in 1 .. n, NEW k \in 1 .. n, Path[j] = Path[k]
      PROVE  j = k
  <2>1. CASE j # n /\ k # n
    <3>1. j + 1 \in 2 .. n /\ k + 1 \in 2 .. n /\ stack[j + 1].at = stack[k + 1].at
      BY <1>1, <1>3, <1>9, <2>1
    <3>2. j + 1 = k + 1
      BY <1>1, <1>2, <3>1 DEF StackOK
    <3> QED
      BY <1>1, <3>2
  <2>2. \A i \in 1 .. n - 1 : Path[i] # Pick
    BY <1>8
  <2> QED
    BY <1>1, <1>4, <1>9, <2>1, <2>2
<1> QED
  BY <1>4, <1>6, <1>7, <1>8, <1>9 DEF Leads, SoundPath

------------------------------------------------------------------------------
(* The tables. *)

AttemptType == [stage : Stages, path : Seq(Mods), missing : ModName \cup {NoName},
                outcome : Outcomes, selected : BOOLEAN]

AttemptsOK(t) ==
  /\ DOMAIN t = Mods
  /\ \A m \in Mods : DOMAIN t[m] = Symbol /\ \A s \in Symbol :
       \A a \in t[m][s] : a \in AttemptType

\* New attempts of the right type keep the table of attempts right.
LEMMA WithKeeps ==
  ASSUME AttemptsOK(attempts), mod \in Mods, NEW new, DOMAIN new \subseteq Symbol,
         \A s \in DOMAIN new : \A a \in new[s] : a \in AttemptType
  PROVE  AttemptsOK(With(new))
<1> DEFINE f == [s \in DOMAIN new |-> attempts[mod][s] \cup new[s]]
<1>1. DOMAIN attempts = Mods
  BY DEF AttemptsOK
<1>2. \A s \in DOMAIN f : \A a \in f[s] : a \in AttemptType
  BY DEF AttemptsOK
<1>3. DOMAIN f \subseteq Symbol
  OBVIOUS
<1> HIDE DEF f
<1>4. AttemptsOK(Put(attempts, f))
  <2>1. /\ DOMAIN Put(attempts, f) = Mods
        /\ \A m \in Mods : m # mod => Put(attempts, f)[m] = attempts[m]
        /\ Put(attempts, f)[mod] =
             [s \in Symbol |-> IF s \in DOMAIN f THEN f[s] ELSE attempts[mod][s]]
    BY <1>1 DEF Put
  <2>2. \A s \in Symbol : \A a \in Put(attempts, f)[mod][s] : a \in AttemptType
    <3>1. \A s \in Symbol : \A a \in attempts[mod][s] : a \in AttemptType
      BY DEF AttemptsOK
    <3> QED
      BY <1>2, <2>1, <3>1
  <2> QED
    BY <2>1, <2>2 DEF AttemptsOK
<1> QED
  BY <1>4 DEF With, f

\* So does marking the selected ones.
LEMMA SelectKeeps ==
  ASSUME NEW S, NEW p, \A a \in S : a \in AttemptType
  PROVE  \A a \in Select(S, p) : a \in AttemptType
BY DEF Select, AttemptType

\* What is a sound path depends on the input alone.
LEMMA SameWorld ==
  ASSUME world' = world
  PROVE  /\ Mods' = Mods
         /\ \A m : Clauses(m)' = Clauses(m) /\ Defs(m)' = Defs(m)
         /\ \A m, s, p : SoundPath(m, s, p)' = SoundPath(m, s, p)
<1>1. Mods' = Mods /\ \A m : Clauses(m)' = Clauses(m) /\ Defs(m)' = Defs(m)
  BY DEF Clauses, Defs, Mods
<1>2. \A m, s : Source(m, s)' = Source(m, s)
  BY DEF Source, Firsts, IsFirst, Clauses
<1> QED
  BY <1>1, <1>2 DEF SoundPath, LeadsTo

\* What records attempts alone keeps the records.
LEMMA SameImports ==
  ASSUME IInv, AttemptsOK(attempts'),
         UNCHANGED <<world, imports, modes, paths, unresolved, duplicates, provenance>>
  PROVE  Tables' /\ AtDefiner' /\ PathSound'
<1>1. Tables'
  BY SameWorld DEF IInv, TypeOK, Tables, AttemptsOK, AttemptType
<1>2. AtDefiner'
  BY SameWorld DEF IInv, AtDefiner
<1>3. PathSound'
  BY SameWorld DEF IInv, PathSound
<1> QED
  BY <1>1, <1>2, <1>3

\* What records nothing keeps the records.
LEMMA SameResults ==
  ASSUME IInv, UNCHANGED <<world, result, duplicates, provenance>>
  PROVE  Tables' /\ AtDefiner' /\ PathSound'
<1>1. AttemptsOK(attempts')
  BY DEF IInv, TypeOK, Tables, AttemptsOK, AttemptType, result
<1> QED
  BY <1>1, SameImports DEF result

\* Imports recorded along paths that may be recorded keep the records sound.
LEMMA TakeKeeps ==
  ASSUME IInv, mod \in Mods, NEW route, DOMAIN route \subseteq Symbol,
         \A s \in DOMAIN route : Leads(s, route[s]),
         NEW mode \in Modes, NEW tried, AttemptsOK(tried), Take(route, mode, tried),
         UNCHANGED <<world, unresolved, duplicates, provenance>>
  PROVE  Tables' /\ AtDefiner' /\ PathSound'
<1>1. \A s \in DOMAIN route :
        /\ route[s] \in Seq(Mods) /\ Target(route[s]) \in Mods
        /\ s \in Defs(Target(route[s])) /\ SoundPath(mod, s, route[s])
  <2>1. \A s \in DOMAIN route : /\ route[s] \in Seq(Mods) /\ route[s] # <<>>
                                /\ s \in Defs(route[s][Len(route[s])])
                                /\ SoundPath(mod, s, route[s])
    BY DEF Leads, SoundPath
  <2>2. ASSUME NEW p \in Seq(Mods), p # <<>>
        PROVE  p[Len(p)] \in Mods
    <3>1. Len(p) \in Nat /\ Len(p) >= 1
      BY <2>2, EmptySeq, LenProperties
    <3> QED
      BY <3>1, ElementOfSeq
  <2> QED
    BY <2>1, <2>2 DEF Target
<1>2. imports \in [Mods -> [Symbol -> Mods \cup {NoMod}]]
      /\ modes \in [Mods -> [Symbol -> Modes]] /\ paths \in [Mods -> [Symbol -> Seq(Mods)]]
  BY DEF IInv, TypeOK, Tables
<1>3. /\ imports' \in [Mods -> [Symbol -> Mods \cup {NoMod}]]
      /\ \A m \in Mods : m # mod => imports'[m] = imports[m]
      /\ \A s \in Symbol : imports'[mod][s] =
           IF s \in DOMAIN route THEN Target(route[s]) ELSE imports[mod][s]
  BY <1>1, <1>2 DEF Take, Put
<1>4. modes' \in [Mods -> [Symbol -> Modes]]
  BY <1>2 DEF Take, Put
<1>5. /\ paths' \in [Mods -> [Symbol -> Seq(Mods)]]
      /\ \A m \in Mods : m # mod => paths'[m] = paths[m]
      /\ \A s \in Symbol : paths'[mod][s] =
           IF s \in DOMAIN route THEN route[s] ELSE paths[mod][s]
  BY <1>1, <1>2 DEF Take, Put
<1>6. AttemptsOK(attempts')
  <2>1. attempts' = [tried EXCEPT ![mod] =
          [s \in Symbol |-> IF s \in DOMAIN route THEN Select(tried[mod][s], route[s])
                                                  ELSE tried[mod][s]]]
    BY DEF Take
  <2>2. \A s \in Symbol : \A a \in Select(tried[mod][s], route[s]) : a \in AttemptType
    BY SelectKeeps DEF AttemptsOK
  <2> QED
    BY <2>1, <2>2 DEF AttemptsOK
<1>7. /\ Mods' = Mods /\ \A m : Defs(m)' = Defs(m)
      /\ \A m, s, p : SoundPath(m, s, p)' = SoundPath(m, s, p)
  BY SameWorld
<1>8. Tables'
  BY <1>3, <1>4, <1>5, <1>6, <1>7
     DEF IInv, TypeOK, Tables, AttemptsOK, AttemptType, Clauses
<1>9. AtDefiner'
  BY <1>1, <1>3, <1>7 DEF IInv, AtDefiner
<1>10. PathSound'
  <2>1. ASSUME NEW m \in Mods, NEW s \in Symbol, imports'[m][s] # NoMod
        PROVE  SoundPath(m, s, paths'[m][s])
               /\ paths'[m][s][Len(paths'[m][s])] = imports'[m][s]
    <3>1. CASE m = mod /\ s \in DOMAIN route
      BY <1>1, <1>3, <1>5, <3>1 DEF Target
    <3>2. CASE ~ (m = mod /\ s \in DOMAIN route)
      <4>1. imports'[m][s] = imports[m][s] /\ paths'[m][s] = paths[m][s]
        BY <1>3, <1>5, <3>2
      <4> QED
        BY <2>1, <4>1 DEF IInv, PathSound
    <3> QED
      BY <3>1, <3>2
  <2> QED
    BY <1>7, <2>1 DEF PathSound
<1> QED
  BY <1>8, <1>9, <1>10

------------------------------------------------------------------------------
(* The search. *)

\* What the group is depends on the input, the module and its clauses left.
LEMMA SameGroup ==
  ASSUME UNCHANGED <<world, mod, todo>>
  PROVE  /\ NonMacro' = NonMacro /\ FromModule' = FromModule
         /\ Symbols(NonMacro)' = Symbols(NonMacro)
         /\ \A m : Firsts(m)' = Firsts(m)
         /\ \A name : Versions(name)' = Versions(name)
         /\ \A m, s : Source(m, s)' = Source(m, s)
         /\ \A s, p : Leads(s, p)' = Leads(s, p)
<1>1. \A m : Clauses(m)' = Clauses(m)
  BY SameWorld
<1>2. NonMacro' = NonMacro /\ FromModule' = FromModule
  BY DEF NonMacro, Group, FromModule, SymbolAt, Clauses
<1>3. Symbols(NonMacro)' = Symbols(NonMacro)
  BY <1>2 DEF Symbols, SymbolAt, Clauses
<1>4. \A m : Firsts(m)' = Firsts(m)
  BY DEF Firsts, IsFirst, Clauses
<1>5. \A name : Versions(name)' = Versions(name)
  BY DEF Versions, Mods
<1>6. \A m, s : Source(m, s)' = Source(m, s)
  BY DEF Source, Firsts, IsFirst, Clauses
<1>7. \A s, p : SoundPath(mod, s, p)' = SoundPath(mod, s, p)
  BY <1>6 DEF SoundPath, LeadsTo, Defs
<1>8. \A s, p : Leads(s, p)' = Leads(s, p)
  BY <1>7 DEF Leads, Mods, Defs
<1> QED
  BY <1>2, <1>3, <1>4, <1>5, <1>6, <1>8

\* A step that ends the group leaves nothing of the search.
LEMMA EndGroupKeeps ==
  ASSUME IInv, todo # {}, EndGroup, UNCHANGED <<world, phase, mod>>,
         Tables', AtDefiner', PathSound'
  PROVE  IInv'
<1>1. mod # 0 /\ todo' \subseteq Firsts(mod)'
  <2>1. Firsts(mod)' = Firsts(mod)
    BY DEF Firsts, IsFirst, Clauses
  <2> QED
    BY <2>1 DEF IInv, TypeOK, EndGroup
<1>2. TypeOK'
  <2>1. Mods' = Mods
    BY SameWorld
  <2> QED
    BY <1>1, <2>1 DEF IInv, TypeOK, EndGroup
<1>3. SearchOK'
  BY DEF SearchOK, EndGroup
<1> QED
  BY <1>2, <1>3 DEF IInv

\* An attempt of the stage at hand has the type of one.
LEMMA AttemptIn ==
  ASSUME IInv, NEW p \in Seq(Mods), NEW missing \in ModName \cup {NoName},
         NEW outcome \in Outcomes
  PROVE  Attempt(p, missing, outcome) \in AttemptType
BY DEF IInv, TypeOK, Attempt, AttemptType, Stages

\* Scoring the candidates for the whole group keeps the attempts right.
LEMMA ScoredKeeps ==
  ASSUME IInv, InProgress, NEW cs \in SUBSET Mods
  PROVE  AttemptsOK(Scored(cs))
<1> DEFINE new == [s \in Symbols(NonMacro) |->
      {Attempt(<<c>>, NoName, IF s \in Defs(c) THEN "Resolved" ELSE "SymbolNotDefined") :
         c \in cs}]
<1>1. AttemptsOK(attempts) /\ mod \in Mods /\ Symbols(NonMacro) \subseteq Symbol
  BY GroupFacts DEF IInv, TypeOK, Tables, AttemptsOK, AttemptType, InProgress
<1>2. \A s \in DOMAIN new : \A a \in new[s] : a \in AttemptType
  <2>1. \A c \in cs : <<c>> \in Seq(Mods)
    OBVIOUS
  <2>2. \A c \in cs, o \in Outcomes : Attempt(<<c>>, NoName, o) \in AttemptType
    BY <2>1, AttemptIn
  <2> QED
    BY <2>2 DEF Outcomes
<1>3. DOMAIN new \subseteq Symbol
  BY <1>1
<1> HIDE DEF new
<1>4. AttemptsOK(With(new))
  BY <1>1, <1>2, <1>3, WithKeeps
<1> QED
  BY <1>4 DEF Scored, new

\* One module with the whole group: the module named, or the alias.
LEMMA FoundWholeKeeps ==
  ASSUME IInv, InProgress, NEW cs \in SUBSET Mods, NEW mode \in Modes,
         \A c \in cs : LeadsTo(FromModule, c), FoundWhole(cs, mode)
  PROVE  IInv'
<1> DEFINE c == Newest(Complete(cs))
           route == [s \in Symbols(NonMacro) |-> <<c>>]
<1>1. c \in cs /\ Symbols(NonMacro) \subseteq Defs(c) /\ c \in Mods
  <2>1. Complete(cs) \in SUBSET Mods /\ Complete(cs) # {}
    BY DEF Complete, FoundWhole
  <2>2. c \in Complete(cs)
    BY <2>1, NewestIn DEF IInv, TypeOK
  <2> QED
    BY <2>2 DEF Complete
<1> HIDE DEF c
<1>2. mod \in Mods /\ Symbols(NonMacro) \subseteq Symbol
      /\ \A s \in Symbols(NonMacro) : Source(mod, s) = FromModule
  BY GroupFacts DEF IInv, InProgress
<1>3. \A s \in DOMAIN route : Leads(s, route[s])
  <2>1. <<c>> \in Seq(Mods) /\ <<c>> # <<>> /\ Len(<<c>>) = 1 /\ <<c>>[1] = c
    BY <1>1
  <2>2. ASSUME NEW s \in Symbols(NonMacro)
        PROVE  SoundPath(mod, s, <<c>>)
    BY <1>1, <1>2, <2>1 DEF SoundPath
  <2> QED
    BY <1>1, <2>1, <2>2 DEF Leads
<1>4. AttemptsOK(Scored(cs))
  BY ScoredKeeps
<1>5. DOMAIN route \subseteq Symbol
  BY <1>2
<1>6. Take(route, mode, Scored(cs)) /\ UNCHANGED <<world, unresolved, duplicates, provenance>>
  BY DEF FoundWhole, c
<1> HIDE DEF route
<1>7. Tables' /\ AtDefiner' /\ PathSound'
  BY <1>2, <1>3, <1>4, <1>5, <1>6, TakeKeeps
<1> QED
  BY <1>7, EndGroupKeeps DEF FoundWhole, InProgress

------------------------------------------------------------------------------
(* The steps. *)

LEMMA NextModuleKeeps == ASSUME IInv, NextModule PROVE IInv'
<1>1. /\ world \in Worlds /\ mod \in Nat /\ mod + 1 \in Mods /\ mod' = mod + 1
      /\ stage = "direct" /\ syms = {} /\ stack = <<>> /\ found = <<>> /\ cands = {}
  <2>1. mod \in 0 .. Len(world.modules) /\ world \in Worlds /\ stage = "direct"
    BY DEF IInv, TypeOK, SearchOK, NextModule
  <2>2. mod \in Nat /\ mod + 1 \in Mods
    BY <2>1, WorldType DEF NextModule
  <2> QED
    BY <2>1, <2>2 DEF IInv, SearchOK, NextModule
<1>2. \A m \in Mods : DOMAIN Clauses(m) = DOMAIN Clauses(m)'
  BY SameWorld DEF NextModule
<1>3. duplicates' \subseteq UNION {{m} \X DOMAIN Clauses(m) : m \in Mods}
  <2>1. duplicates \subseteq UNION {{m} \X DOMAIN Clauses(m) : m \in Mods}
    BY DEF IInv, TypeOK, Tables
  <2>2. \A i \in DOMAIN Clauses(mod + 1) :
          <<mod + 1, i>> \in UNION {{m} \X DOMAIN Clauses(m) : m \in Mods}
    BY <1>1
  <2> QED
    BY <2>1, <2>2 DEF NextModule
<1>4. Mods' = Mods /\ (\A m : Clauses(m)' = Clauses(m))
      /\ AttemptsOK(attempts')
  BY SameWorld DEF NextModule, IInv, TypeOK, Tables, AttemptsOK, AttemptType, result
<1>5. UNCHANGED <<world, imports, modes, paths, attempts, unresolved, provenance>>
  BY DEF NextModule, result
<1>5a. Tables'
  <2>1. duplicates' \subseteq UNION {{m} \X DOMAIN Clauses(m)' : m \in Mods'}
    BY <1>2, <1>3, <1>4
  <2> QED
    BY <1>4, <1>5, <2>1 DEF IInv, TypeOK, Tables, AttemptsOK, AttemptType
<1>6. AtDefiner' /\ PathSound'
  BY <1>5, SameWorld DEF IInv, AtDefiner, PathSound
<1>7. todo' = Firsts(mod)' /\ mod' # 0
  BY <1>1 DEF NextModule, Firsts, IsFirst, Clauses
<1>8. TypeOK'
  BY <1>1, <1>4, <1>5a, <1>7 DEF NextModule, IInv, TypeOK, search, Mods
<1>9. SearchOK'
  BY <1>1 DEF NextModule, SearchOK, search
<1> QED
  BY <1>6, <1>8, <1>9 DEF IInv

LEMMA MacrosOnlyKeeps == ASSUME IInv, MacrosOnly PROVE IInv'
<1>1. Tables' /\ AtDefiner' /\ PathSound'
  BY SameResults DEF MacrosOnly
<1> QED
  BY <1>1, EndGroupKeeps DEF MacrosOnly, InProgress

LEMMA DirectKeeps == ASSUME IInv, Direct PROVE IInv'
<1>1. \A c \in Versions(FromModule) : LeadsTo(FromModule, c)
  BY DEF Versions, LeadsTo
<1> QED
  BY <1>1, VersionsAreMods, FoundWholeKeeps DEF Direct, Modes

LEMMA AliasKeeps == ASSUME IInv, Alias PROVE IInv'
<1>1. \A c \in Versions(AliasOf[FromModule]) : LeadsTo(FromModule, c)
  BY DEF Versions, LeadsTo, Alias, IInv, SearchOK
<1> QED
  BY <1>1, VersionsAreMods, FoundWholeKeeps DEF Alias, Modes

\* A step that leaves the group and what is found of it.
LEMMA SearchKeeps ==
  ASSUME IInv, UNCHANGED <<world, phase, mod, todo>>,
         Tables', AtDefiner', PathSound',
         stage' \in {"direct", "alias", "forwarding", "partial"},
         cands' \subseteq Mods, syms' \subseteq (IF todo = {} THEN {} ELSE NonMacro),
         stack' \in Seq([at : Mods \cup {NoMod}, rest : SUBSET Mods]),
         found' = found \/ found' = <<>>, SearchOK'
  PROVE  IInv'
<1>1. Mods' = Mods /\ NonMacro' = NonMacro /\ Firsts(mod)' = Firsts(mod)
  BY SameGroup, SameWorld
<1>2. TypeOK'
  BY <1>1 DEF IInv, TypeOK
<1> QED
  BY <1>2 DEF IInv

LEMMA DirectFailsKeeps == ASSUME IInv, DirectFails PROVE IInv'
<1>1. AttemptsOK(attempts')
  BY ScoredKeeps, VersionsAreMods DEF DirectFails
<1>2. Tables' /\ AtDefiner' /\ PathSound'
  BY <1>1, SameImports DEF DirectFails
<1>3. found = <<>> /\ stack = <<>> /\ world.constrained \in BOOLEAN
  BY ImportsAssumption DEF DirectFails, IInv, SearchOK, TypeOK
<1>4. SearchOK'
  BY <1>3, SameGroup DEF DirectFails, SearchOK, InProgress
<1>5. syms' \subseteq (IF todo = {} THEN {} ELSE NonMacro)
  BY DEF DirectFails, InProgress
<1> QED
  BY <1>2, <1>3, <1>4, <1>5, VersionsAreMods, SearchKeeps DEF DirectFails, IInv, TypeOK

LEMMA AliasFailsKeeps == ASSUME IInv, AliasFails PROVE IInv'
<1>1. AttemptsOK(attempts')
  BY ScoredKeeps, VersionsAreMods DEF AliasFails
<1>2. Tables' /\ AtDefiner' /\ PathSound'
  BY <1>1, SameImports DEF AliasFails
<1>3. found = <<>> /\ stack = <<>> /\ cands \subseteq Versions(FromModule)
  BY DEF AliasFails, IInv, SearchOK
<1>4. SearchOK'
  BY <1>3, SameGroup DEF AliasFails, SearchOK, InProgress, search
<1> QED
  BY <1>2, <1>3, <1>4, SearchKeeps DEF AliasFails, search, IInv, TypeOK

LEMMA TraverseKeeps == ASSUME IInv, Traverse PROVE IInv'
<1> DEFINE c == IF stage = "forwarding" THEN {Min(cands)} ELSE cands
<1>1. c \subseteq cands /\ cands \subseteq Versions(FromModule) /\ cands \subseteq Mods
  <2>1. cands \subseteq Mods /\ cands \subseteq Versions(FromModule) /\ cands # {}
    BY DEF Traverse, IInv, TypeOK, SearchOK
  <2>2. Min(cands) \in cands
    BY <2>1, WorldType, MinIn DEF IInv, TypeOK
  <2> QED
    BY <2>1, <2>2
<1> HIDE DEF c
<1>2. Tables' /\ AtDefiner' /\ PathSound'
  BY SameResults DEF Traverse
<1>3. stack' = <<[at |-> NoMod, rest |-> c]>>
  BY DEF Traverse, c
<1>4. stack' \in Seq([at : Mods \cup {NoMod}, rest : SUBSET Mods])
  BY <1>1, <1>3
<1>5. Len(stack') = 1 /\ stack'[1].rest = c
  BY <1>3
<1>6. StackOK'
  BY <1>1, <1>5, SameGroup DEF Traverse, StackOK
<1>7. SearchOK'
  BY <1>1, <1>6, SameGroup DEF Traverse, IInv, SearchOK, InProgress
<1> QED
  BY <1>2, <1>4, <1>7, SearchKeeps DEF Traverse, IInv, TypeOK

\* The path at hand is a sequence of modules.
LEMMA PathIsSeq ==
  ASSUME TypeOK, SearchOK, Exploring
  PROVE  Path \in Seq(Mods)
<1>1. PICK n \in Nat : n = Len(stack) /\ n >= 1 /\ Pick \in Mods
  BY PickIn
<1>2. StackOK
  BY DEF SearchOK, Exploring
<1>3. \A k \in 1 .. n - 1 : stack[k + 1].at \in Mods
  BY <1>1, <1>2 DEF StackOK
<1>4. Path \in [1 .. n -> Mods]
  BY <1>1, <1>3 DEF Path
<1> QED
  BY <1>1, <1>4, SeqDef

\* So an attempt along it keeps the attempts right.
LEMMA TriedKeeps ==
  ASSUME IInv, Exploring, NEW missing \in ModName \cup {NoName}, NEW outcome \in Outcomes
  PROVE  AttemptsOK(Tried(missing, outcome))
<1> DEFINE new == [s \in {Sought} |-> {Attempt(Path, missing, outcome)}]
<1>1. AttemptsOK(attempts) /\ mod \in Mods /\ Sought \in Symbol
  BY GroupFacts, SoughtIn
     DEF IInv, TypeOK, SearchOK, Tables, AttemptsOK, AttemptType, Exploring, InProgress
<1>2. Attempt(Path, missing, outcome) \in AttemptType
  BY PathIsSeq, AttemptIn DEF IInv
<1>3. DOMAIN new \subseteq Symbol /\ \A s \in DOMAIN new : \A a \in new[s] : a \in AttemptType
  BY <1>1, <1>2
<1> HIDE DEF new
<1>4. AttemptsOK(With(new))
  BY <1>1, <1>3, WithKeeps
<1> QED
  BY <1>4 DEF Tried, new

\* The stack, frame by frame.
LEMMA Frames ==
  ASSUME TypeOK, stack # <<>>
  PROVE  /\ Len(stack) \in Nat /\ Len(stack) >= 1
         /\ DOMAIN stack = 1 .. Len(stack)
         /\ \A k \in 1 .. Len(stack) :
              stack[k] \in [at : Mods \cup {NoMod}, rest : SUBSET Mods]
<1> DEFINE F == [at : Mods \cup {NoMod}, rest : SUBSET Mods]
<1>1. stack \in Seq(F)
  BY DEF TypeOK
<1> HIDE DEF F
<1>3. Len(stack) \in Nat /\ Len(stack) >= 1 /\ DOMAIN stack = 1 .. Len(stack)
  BY <1>1, EmptySeq, LenProperties
<1>4. \A k \in 1 .. Len(stack) : stack[k] \in F
  BY <1>1, ElementOfSeq
<1> QED
  BY <1>3, <1>4 DEF F

\* A step of the traversal with the attempts it adds.
LEMMA StackStepKeeps ==
  ASSUME IInv, InProgress, stack # <<>>,
         UNCHANGED <<world, phase, mod, todo, stage, cands, syms, found>>,
         stack' \in Seq([at : Mods \cup {NoMod}, rest : SUBSET Mods]), StackOK',
         Tables', AtDefiner', PathSound'
  PROVE  IInv'
<1>1. SearchOK'
  BY SameGroup DEF IInv, SearchOK
<1> QED
  BY <1>1, SearchKeeps DEF IInv, TypeOK

\* The innermost frame without the candidate.
LEMMA FrameLess ==
  ASSUME IInv, Exploring
  PROVE  LET st == [stack EXCEPT ![Len(stack)].rest = @ \ {Pick}] IN
         /\ st \in Seq([at : Mods \cup {NoMod}, rest : SUBSET Mods])
         /\ Len(st) = Len(stack)
         /\ \A k \in 1 .. Len(stack) : /\ st[k].at = stack[k].at
                                       /\ st[k].rest \subseteq stack[k].rest
                                       /\ stack[k].rest \ {Pick} \subseteq st[k].rest
<1> DEFINE F == [at : Mods \cup {NoMod}, rest : SUBSET Mods]
           g == [Top EXCEPT !.rest = @ \ {Pick}]
           st == [stack EXCEPT ![Len(stack)] = g]
<1>1. stack \in Seq(F) /\ Len(stack) \in 1 .. Len(stack) /\ Top \in F
  <2>1. PICK n \in Nat : n = Len(stack) /\ n >= 1
    BY Frames DEF IInv, Exploring
  <2>2. n \in 1 .. n
    BY <2>1
  <2> QED
    BY <2>1, <2>2, Frames DEF IInv, TypeOK, Exploring, Top
<1>2. /\ g \in F /\ g.at = Top.at /\ g.rest \subseteq Top.rest
      /\ Top.rest \ {Pick} \subseteq g.rest
  BY <1>1
<1>3. st = [stack EXCEPT ![Len(stack)].rest = @ \ {Pick}]
  BY DEF Top
<1> HIDE DEF F, g
<1>4. /\ st \in Seq(F) /\ Len(st) = Len(stack)
      /\ \A k \in 1 .. Len(stack) : st[k] = IF k = Len(stack) THEN g ELSE stack[k]
  BY <1>1, <1>2, ExceptSeq
<1>5. \A k \in 1 .. Len(stack) : /\ st[k].at = stack[k].at
                                 /\ st[k].rest \subseteq stack[k].rest
                                 /\ stack[k].rest \ {Pick} \subseteq st[k].rest
  BY <1>2, <1>4 DEF Top
<1> HIDE DEF st
<1> QED
  BY <1>3, <1>4, <1>5 DEF F

LEMMA DeadEndKeeps ==
  ASSUME IInv, Exploring, NEW missing \in ModName \cup {NoName}, NEW outcome \in Outcomes,
         DeadEnd(missing, outcome)
  PROVE  IInv'
<1>1. Tables' /\ AtDefiner' /\ PathSound'
  BY TriedKeeps, SameImports DEF DeadEnd
<1>2. /\ stack' \in Seq([at : Mods \cup {NoMod}, rest : SUBSET Mods])
      /\ Len(stack') = Len(stack)
      /\ \A k \in 1 .. Len(stack) : /\ stack'[k].at = stack[k].at
                                    /\ stack'[k].rest \subseteq stack[k].rest
  BY FrameLess DEF DeadEnd
<1>3. PICK n \in Nat : n = Len(stack) /\ n >= 1
  BY Frames DEF IInv, Exploring
<1>4. StackOK
  BY DEF IInv, SearchOK, Exploring
<1>5. StackOK'
  <2>1. Sought' = Sought /\ FromModule' = FromModule
    BY SameGroup DEF DeadEnd, Sought, SymbolAt, Clauses
  <2>2. /\ \A name : Versions(name)' = Versions(name)
        /\ \A m, s : Source(m, s)' = Source(m, s)
        /\ Mods' = Mods /\ \A m : Defs(m)' = Defs(m)
    BY SameGroup, SameWorld DEF DeadEnd
  <2>3. stack'[1].rest \subseteq Versions(FromModule)
    BY <1>2, <1>3, <1>4 DEF StackOK
  <2>4. \A k \in 2 .. n :
          /\ stack'[k].at \in Mods /\ Sought \notin Defs(stack'[k].at)
          /\ stack'[k].rest \subseteq Versions(Source(stack'[k].at, Sought))
          /\ world.modules[stack'[k].at].name =
               IF k = 2 THEN FromModule ELSE Source(stack'[k - 1].at, Sought)
    <3>1. \A k \in 2 .. n : k \in 1 .. n /\ k - 1 \in 1 .. n
      BY <1>3
    <3>2. \A k \in 2 .. n : /\ stack'[k].at = stack[k].at /\ stack'[k - 1].at = stack[k - 1].at
                            /\ stack'[k].rest \subseteq stack[k].rest
      BY <1>2, <1>3, <3>1
    <3>3. \A k \in 2 .. n :
            /\ stack[k].at \in Mods /\ Sought \notin Defs(stack[k].at)
            /\ stack[k].rest \subseteq Versions(Source(stack[k].at, Sought))
            /\ world.modules[stack[k].at].name =
                 IF k = 2 THEN FromModule ELSE Source(stack[k - 1].at, Sought)
      BY <1>3, <1>4 DEF StackOK
    <3> QED
      BY <3>2, <3>3, Zenon
  <2>5. \A j, k \in 2 .. n : stack'[j].at = stack'[k].at => j = k
    BY <1>2, <1>3, <1>4 DEF StackOK
  <2>6. world' = world
    BY DEF DeadEnd
  <2> QED
    BY <1>2, <1>3, <2>1, <2>2, <2>3, <2>4, <2>5, <2>6 DEF StackOK
<1> QED
  BY <1>1, <1>2, <1>5, StackStepKeeps DEF DeadEnd, Exploring

LEMMA CycleKeeps == ASSUME IInv, Cycle PROVE IInv'
BY DeadEndKeeps DEF Cycle, Outcomes

LEMMA NotImportedKeeps == ASSUME IInv, NotImported PROVE IInv'
BY DeadEndKeeps DEF NotImported, Outcomes

\* A module's source for a symbol is a name.
LEMMA SourceIn ==
  ASSUME IInv, NEW m \in Mods, NEW s
  PROVE  Source(m, s) \in ModName \cup {NoName}
BY ClauseType DEF IInv, TypeOK, Source, Firsts

LEMMA SourceMissingKeeps == ASSUME IInv, SourceMissing PROVE IInv'
<1>1. Source(Pick, Sought) \in ModName \cup {NoName}
  BY SourceIn, PickIn DEF IInv, SourceMissing
<1> QED
  BY <1>1, DeadEndKeeps DEF SourceMissing, Outcomes

\* The module descended from joins the chain: it is not on it yet, does not define
\* the symbol, and its clause names the new candidates.
LEMMA DescendKeeps == ASSUME IInv, Descend PROVE IInv'
<1> DEFINE F == [at : Mods \cup {NoMod}, rest : SUBSET Mods]
           st == [stack EXCEPT ![Len(stack)].rest = @ \ {Pick}]
           top == [at |-> Pick, rest |-> Versions(Source(Pick, Sought))]
<1>1. PICK n \in Nat : n = Len(stack) /\ n >= 1
  BY Frames DEF IInv, Exploring, Descend
<1>2. /\ st \in Seq(F) /\ Len(st) = n
      /\ \A k \in 1 .. n : st[k].at = stack[k].at /\ st[k].rest \subseteq stack[k].rest
  BY <1>1, FrameLess DEF Descend
<1>3. Pick \in Mods /\ world.modules[Pick].name =
                         IF n = 1 THEN FromModule ELSE Source(stack[n].at, Sought)
  BY <1>1, PickIn DEF IInv, Descend, Top
<1>4. top \in F /\ top.at = Pick /\ top.rest = Versions(Source(Pick, Sought))
  BY <1>3, VersionsAreMods
<1>5. stack' = Append(st, top)
  BY DEF Descend, Onward
<1> HIDE DEF F, st, top
<1>6. /\ stack' \in Seq(F) /\ Len(stack') = n + 1 /\ stack'[n + 1] = top
      /\ \A k \in 1 .. n : stack'[k] = st[k]
  <2>1. /\ Append(st, top) \in Seq(F) /\ Len(Append(st, top)) = n + 1
        /\ Append(st, top)[n + 1] = top
        /\ \A k \in 1 .. n : Append(st, top)[k] = st[k]
    BY <1>2, <1>4, AppendProperties
  <2> QED
    BY <1>5, <2>1
<1>7. StackOK /\ Sought \notin Defs(Pick) /\ \A k \in 2 .. n : stack[k].at # Pick
  BY <1>1 DEF Descend, Exploring, IInv, SearchOK, Active
<1>8. StackOK'
  <2>1. Sought' = Sought /\ FromModule' = FromModule /\ world' = world
    BY SameGroup DEF Descend, Sought, SymbolAt, Clauses
  <2>2. /\ \A name : Versions(name)' = Versions(name)
        /\ \A m, s : Source(m, s)' = Source(m, s)
        /\ Mods' = Mods /\ \A m : Defs(m)' = Defs(m)
    BY SameGroup, SameWorld DEF Descend
  <2>3. stack'[1].rest \subseteq Versions(FromModule)
    BY <1>1, <1>2, <1>6, <1>7 DEF StackOK
  <2>4. ASSUME NEW k \in 2 .. n + 1
        PROVE  /\ stack'[k].at \in Mods /\ Sought \notin Defs(stack'[k].at)
               /\ stack'[k].rest \subseteq Versions(Source(stack'[k].at, Sought))
               /\ world.modules[stack'[k].at].name =
                    IF k = 2 THEN FromModule ELSE Source(stack'[k - 1].at, Sought)
    <3>1. k \in Nat /\ k - 1 \in 1 .. n /\ stack'[k - 1].at = stack[k - 1].at
      BY <1>1, <1>2, <1>6
    <3>2. CASE k = n + 1
      <4>1. k - 1 = n /\ (k = 2 <=> n = 1)
        BY <1>1, <3>2
      <4>2. stack'[k] = top /\ stack'[k - 1].at = stack[n].at
        BY <1>6, <3>1, <3>2, <4>1
      <4> QED
        BY <1>3, <1>4, <1>7, <4>1, <4>2
    <3>3. CASE k # n + 1
      <4>1. k \in 2 .. n /\ k \in 1 .. n
        BY <1>1, <3>3
      <4>2. stack'[k].at = stack[k].at /\ stack'[k].rest \subseteq stack[k].rest
        BY <1>2, <1>6, <4>1
      <4>3. /\ stack[k].at \in Mods /\ Sought \notin Defs(stack[k].at)
            /\ stack[k].rest \subseteq Versions(Source(stack[k].at, Sought))
            /\ world.modules[stack[k].at].name =
                 IF k = 2 THEN FromModule ELSE Source(stack[k - 1].at, Sought)
        BY <1>1, <1>7, <4>1 DEF StackOK
      <4> QED
        BY <3>1, <4>2, <4>3, Zenon
    <3> QED
      BY <3>2, <3>3
  <2>5. ASSUME NEW j \in 2 .. n + 1, NEW k \in 2 .. n + 1, stack'[j].at = stack'[k].at
        PROVE  j = k
    <3>1. \A i \in 2 .. n : i \in 1 .. n /\ stack'[i].at = stack[i].at
      BY <1>1, <1>2, <1>6
    <3>2. stack'[n + 1].at = Pick
      BY <1>4, <1>6
    <3>3. (j \in 2 .. n \/ j = n + 1) /\ (k \in 2 .. n \/ k = n + 1)
      BY <1>1
    <3>4. \A i \in 2 .. n : stack'[i].at # Pick
      BY <1>7, <3>1
    <3>5. \A x, y \in 2 .. n : stack[x].at = stack[y].at => x = y
      BY <1>1, <1>7 DEF StackOK
    <3> QED
      BY <2>5, <3>1, <3>2, <3>3, <3>4, <3>5, Zenon
  <2> QED
    BY <1>6, <2>1, <2>2, <2>3, <2>4, <2>5 DEF StackOK
<1>9. Tables' /\ AtDefiner' /\ PathSound'
  BY SameResults DEF Descend
<1>10. stack' \in Seq([at : Mods \cup {NoMod}, rest : SUBSET Mods])
  BY <1>6 DEF F
<1> QED
  BY <1>8, <1>9, <1>10, StackStepKeeps DEF Descend, Exploring

LEMMA BacktrackKeeps == ASSUME IInv, Backtrack PROVE IInv'
<1> DEFINE F == [at : Mods \cup {NoMod}, rest : SUBSET Mods]
<1>1. PICK n \in Nat : n = Len(stack) /\ n > 1
  <2>1. stack # <<>>
    BY DEF Backtrack
  <2> QED
    BY <2>1, Frames DEF IInv, Backtrack
<1>2. \A k \in 1 .. n - 1 : stack[k] \in F
  <2>1. stack # <<>>
    BY DEF Backtrack
  <2>2. \A k \in 1 .. n : stack[k] \in F
    BY <1>1, <2>1, Frames DEF IInv
  <2> QED
    BY <1>1, <2>2
<1>3. stack' = SubSeq(stack, 1, n - 1)
  BY <1>1 DEF Backtrack
<1> HIDE DEF F
<1>4. stack' \in Seq(F) /\ Len(stack') = n - 1 /\ \A k \in 1 .. n - 1 : stack'[k] = stack[k]
  <2>1. /\ SubSeq(stack, 1, n - 1) \in Seq(F)
        /\ Len(SubSeq(stack, 1, n - 1)) =
             IF 1 <= n - 1 THEN (n - 1) - 1 + 1 ELSE 0
        /\ \A i \in 1 .. (n - 1) - 1 + 1 : SubSeq(stack, 1, n - 1)[i] = stack[1 + i - 1]
    BY <1>1, <1>2, SubSeqProperties
  <2>2. Len(SubSeq(stack, 1, n - 1)) = n - 1
    BY <1>1, <2>1
  <2>3. \A i \in 1 .. n - 1 : SubSeq(stack, 1, n - 1)[i] = stack[i]
    BY <1>1, <2>1
  <2> QED
    BY <1>3, <2>1, <2>2, <2>3
<1>5. StackOK
  <2>1. stack # <<>>
    BY DEF Backtrack
  <2> QED
    BY <2>1 DEF Backtrack, IInv, SearchOK
<1>6. StackOK'
  <2>1. Sought' = Sought /\ FromModule' = FromModule /\ world' = world
    BY SameGroup DEF Backtrack, Sought, SymbolAt, Clauses
  <2>2. /\ \A name : Versions(name)' = Versions(name)
        /\ \A m, s : Source(m, s)' = Source(m, s)
        /\ Mods' = Mods /\ \A m : Defs(m)' = Defs(m)
    BY SameGroup, SameWorld DEF Backtrack
  <2>3. stack'[1].rest \subseteq Versions(FromModule)
    BY <1>1, <1>4, <1>5 DEF StackOK
  <2>4. ASSUME NEW k \in 2 .. n - 1
        PROVE  /\ stack'[k].at \in Mods /\ Sought \notin Defs(stack'[k].at)
               /\ stack'[k].rest \subseteq Versions(Source(stack'[k].at, Sought))
               /\ world.modules[stack'[k].at].name =
                    IF k = 2 THEN FromModule ELSE Source(stack'[k - 1].at, Sought)
    <3>1. k \in 2 .. n /\ k \in 1 .. n - 1 /\ k - 1 \in 1 .. n - 1
      BY <1>1
    <3>2. stack'[k] = stack[k] /\ stack'[k - 1] = stack[k - 1]
      BY <1>4, <3>1
    <3> QED
      BY <1>1, <1>5, <3>1, <3>2 DEF StackOK
  <2>5. \A j, k \in 2 .. n - 1 : stack'[j].at = stack'[k].at => j = k
    <3>1. \A k \in 2 .. n - 1 : k \in 2 .. n /\ stack'[k] = stack[k]
      BY <1>1, <1>4
    <3> QED
      BY <1>1, <1>5, <3>1 DEF StackOK
  <2> QED
    BY <1>4, <2>1, <2>2, <2>3, <2>4, <2>5 DEF StackOK
<1>7. Tables' /\ AtDefiner' /\ PathSound'
  BY SameResults DEF Backtrack
<1>8. stack' \in Seq([at : Mods \cup {NoMod}, rest : SUBSET Mods]) /\ stack # <<>>
  BY <1>4 DEF F, Backtrack
<1> QED
  BY <1>6, <1>7, <1>8, StackStepKeeps DEF Backtrack

\* A step that leaves the traversal for the next symbol, or the next forwarder.
LEMMA LeaveKeeps ==
  ASSUME IInv, InProgress, UNCHANGED <<world, phase, mod, todo, stage>>,
         stage \in {"forwarding", "partial"}, stack' = <<>>,
         cands' \subseteq cands, syms' \subseteq NonMacro,
         DOMAIN found' \subseteq Symbols(NonMacro),
         \A s \in DOMAIN found' : Leads(s, found'[s]),
         Tables', AtDefiner', PathSound'
  PROVE  IInv'
<1>1. /\ NonMacro' = NonMacro /\ Symbols(NonMacro)' = Symbols(NonMacro)
      /\ Firsts(mod)' = Firsts(mod) /\ FromModule' = FromModule /\ Mods' = Mods
      /\ \A name : Versions(name)' = Versions(name)
      /\ \A s, p : Leads(s, p)' = Leads(s, p)
  BY SameGroup, SameWorld
<1>2. SearchOK'
  <2>1. todo # {} /\ cands \subseteq Versions(FromModule)
    BY DEF IInv, SearchOK, InProgress
  <2>2. \A s \in DOMAIN found' : s \in Symbols(NonMacro) /\ Leads(s, found[s])'
    BY <1>1
  <2> QED
    BY <1>1, <2>1, <2>2 DEF SearchOK
<1>3. TypeOK'
  <2>1. \A s \in Symbols(NonMacro) : s \in Symbol
    BY GroupFacts DEF IInv, InProgress
  <2>2. \A s \in DOMAIN found' : found'[s] \in Seq(Mods)
    BY DEF Leads
  <2> QED
    BY <1>1, <2>1, <2>2 DEF IInv, TypeOK, InProgress
<1> QED
  BY <1>2, <1>3 DEF IInv

LEMMA ForwardFoundKeeps == ASSUME IInv, ForwardFound PROVE IInv'
<1>1. Leads(Sought, Path) /\ syms # {}
  BY PathLeads DEF ForwardFound, IInv, SearchOK, Exploring
<1>2. Sought \in Symbols(NonMacro) /\ syms \subseteq NonMacro
  BY <1>1, SoughtIn DEF IInv, TypeOK
<1>3. Tables' /\ AtDefiner' /\ PathSound'
  BY TriedKeeps, SameImports DEF ForwardFound, Outcomes
<1>4. \A s \in DOMAIN found : s \in Symbols(NonMacro) /\ Leads(s, found[s])
  BY DEF IInv, SearchOK
<1>5. DOMAIN found' = DOMAIN found \cup {Sought}
      /\ \A s \in DOMAIN found' : found'[s] = IF s = Sought THEN Path ELSE found[s]
  BY DEF ForwardFound
<1>6. DOMAIN found' \subseteq Symbols(NonMacro) /\ \A s \in DOMAIN found' : Leads(s, found'[s])
  BY <1>1, <1>2, <1>4, <1>5
<1> QED
  BY <1>2, <1>3, <1>6, LeaveKeeps DEF ForwardFound, Exploring

LEMMA ForwarderFailsKeeps == ASSUME IInv, ForwarderFails PROVE IInv'
<1>1. Tables' /\ AtDefiner' /\ PathSound'
  BY SameResults DEF ForwarderFails
<1>2. DOMAIN found' = {}
  BY DEF ForwarderFails
<1> QED
  BY <1>1, <1>2, LeaveKeeps DEF ForwarderFails, TraversalFails

LEMMA ForwardKeeps == ASSUME IInv, Forward PROVE IInv'
<1>1. AttemptsOK(attempts) /\ mod \in Mods
  BY GroupFacts DEF Forward, InProgress, IInv, TypeOK, Tables, AttemptsOK, AttemptType
<1>2. DOMAIN found \subseteq Symbol /\ \A s \in DOMAIN found : Leads(s, found[s])
  BY DEF IInv, TypeOK, SearchOK
<1>3. "Forwarded" \in Modes
  BY DEF Modes
<1>4. Take(found, "Forwarded", attempts) /\ UNCHANGED <<world, unresolved, duplicates, provenance>>
  BY DEF Forward
<1>5. Tables' /\ AtDefiner' /\ PathSound'
  BY <1>1, <1>2, <1>3, <1>4, TakeKeeps
<1> QED
  BY <1>5, EndGroupKeeps DEF Forward, InProgress

LEMMA PartialKeeps == ASSUME IInv, Partial PROVE IInv'
<1>1. Tables' /\ AtDefiner' /\ PathSound'
  BY SameResults DEF Partial
<1>2. SearchOK'
  <2>1. stack' = stack /\ stack # <<>> => Sought' = Sought /\ StackOK'
    <3>1. Sought' = Sought
      BY DEF Partial, Sought, SymbolAt, Clauses
    <3> QED
      BY <3>1, SameGroup, SameWorld DEF Partial, StackOK, IInv, SearchOK
  <2> QED
    BY <2>1, SameGroup DEF Partial, NoForwarder, InProgress, IInv, SearchOK
<1> QED
  BY <1>1, <1>2, VersionsAreMods, SearchKeeps DEF Partial, IInv, TypeOK

LEMMA PartialFoundKeeps == ASSUME IInv, PartialFound PROVE IInv'
<1> DEFINE route == [s \in {Sought} |-> Path]
<1>1. Leads(Sought, Path) /\ syms # {}
  BY PathLeads DEF PartialFound, IInv, SearchOK, Exploring
<1>2. Sought \in Symbol /\ syms \subseteq NonMacro /\ mod \in Mods
  BY <1>1, SoughtIn, GroupFacts DEF IInv, TypeOK
<1>3. DOMAIN route \subseteq Symbol /\ \A s \in DOMAIN route : Leads(s, route[s])
  BY <1>1, <1>2
<1>4. AttemptsOK(Tried(NoName, "Resolved"))
  BY TriedKeeps DEF PartialFound, Outcomes
<1>5. "Partial" \in Modes
  BY DEF Modes
<1>6. /\ Take(route, "Partial", Tried(NoName, "Resolved"))
      /\ UNCHANGED <<world, unresolved, duplicates, provenance>>
  BY DEF PartialFound
<1> HIDE DEF route
<1>7. Tables' /\ AtDefiner' /\ PathSound'
  BY <1>2, <1>3, <1>4, <1>5, <1>6, TakeKeeps
<1>8. \A s \in DOMAIN found : s \in Symbols(NonMacro) /\ Leads(s, found[s])
  BY DEF IInv, SearchOK
<1> QED
  BY <1>2, <1>7, <1>8, LeaveKeeps DEF PartialFound, Exploring

\* Reporting symbols of the group as lost keeps the records.
LEMMA LostKeeps ==
  ASSUME IInv, mod \in Mods, NEW ss \in SUBSET Symbol,
         NEW reason \in {"ModuleNotFound", "SymbolNotExported"}, NEW mode \in Modes,
         modes' = Put(modes, [s \in ss |-> mode]), Lost(ss, reason), AttemptsOK(attempts'),
         UNCHANGED <<world, imports, paths, duplicates, provenance>>
  PROVE  Tables' /\ AtDefiner' /\ PathSound'
<1>1. Mods' = Mods /\ \A m : Clauses(m)' = Clauses(m)
  BY SameWorld
<1>2. modes' \in [Mods -> [Symbol -> Modes]]
  BY DEF IInv, TypeOK, Tables, Put
<1>3. \A u \in unresolved' :
        u \in [module : Mods, symbol : Symbol, reason : {"ModuleNotFound", "SymbolNotExported"}]
  BY DEF IInv, TypeOK, Tables, Lost
<1>4. Tables'
  <2>1. imports' = imports /\ paths' = paths /\ duplicates' = duplicates /\ provenance' = provenance
    OBVIOUS
  <2>2. duplicates' \subseteq UNION {{m} \X DOMAIN Clauses(m)' : m \in Mods'}
    BY <1>1 DEF IInv, TypeOK, Tables
  <2>3. Tables
    BY DEF IInv, TypeOK
  <2> QED
    BY <1>1, <1>2, <1>3, <2>1, <2>2, <2>3 DEF Tables, AttemptsOK, AttemptType
<1>5. AtDefiner' /\ PathSound'
  BY SameWorld DEF IInv, AtDefiner, PathSound
<1> QED
  BY <1>4, <1>5

LEMMA NotExportedKeeps == ASSUME IInv, NotExported PROVE IInv'
<1>1. syms # {} /\ InProgress
  BY DEF NotExported, TraversalFails, IInv, SearchOK
<1>2. Sought \in Symbol /\ syms \subseteq NonMacro /\ mod \in Mods
  BY <1>1, SoughtIn, GroupFacts DEF IInv, TypeOK
<1>3. AttemptsOK(attempts')
  BY DEF NotExported, IInv, TypeOK, Tables, AttemptsOK, AttemptType
<1>4. "Partial" \in Modes
  BY DEF Modes
<1>5. Tables' /\ AtDefiner' /\ PathSound'
  BY <1>2, <1>3, <1>4, LostKeeps DEF NotExported
<1>6. \A s \in DOMAIN found : s \in Symbols(NonMacro) /\ Leads(s, found[s])
  BY DEF IInv, SearchOK
<1> QED
  BY <1>1, <1>2, <1>5, <1>6, LeaveKeeps DEF NotExported

LEMMA PartialDoneKeeps == ASSUME IInv, PartialDone PROVE IInv'
<1>1. Tables' /\ AtDefiner' /\ PathSound'
  BY SameResults DEF PartialDone
<1> QED
  BY <1>1, EndGroupKeeps DEF PartialDone, InProgress

LEMMA ModuleNotFoundKeeps == ASSUME IInv, ModuleNotFound PROVE IInv'
<1> DEFINE new == [s \in Symbols(NonMacro) |->
                    {[Attempt(<<>>, FromModule, "ModuleNotFound") EXCEPT !.stage = "unresolved"]}]
<1>1. mod \in Mods /\ FromModule \in ModName /\ Symbols(NonMacro) \subseteq Symbol
      /\ AttemptsOK(attempts)
  BY GroupFacts DEF ModuleNotFound, NoForwarder, InProgress, IInv, TypeOK, Tables,
     AttemptsOK, AttemptType
<1>2. [Attempt(<<>>, FromModule, "ModuleNotFound") EXCEPT !.stage = "unresolved"] \in AttemptType
  <2>1. Attempt(<<>>, FromModule, "ModuleNotFound") \in AttemptType
    <3>1. <<>> \in Seq(Mods) /\ "ModuleNotFound" \in Outcomes
          /\ FromModule \in ModName \cup {NoName}
      BY <1>1 DEF Outcomes
    <3> QED
      BY <3>1, AttemptIn
  <2>2. \A a \in AttemptType : [a EXCEPT !.stage = "unresolved"] \in AttemptType
    BY DEF AttemptType, Stages
  <2> QED
    BY <2>1, <2>2
<1>3. DOMAIN new \subseteq Symbol /\ \A s \in DOMAIN new : \A a \in new[s] : a \in AttemptType
  BY <1>1, <1>2
<1> HIDE DEF new
<1>4. AttemptsOK(With(new))
  BY <1>1, <1>3, WithKeeps
<1>5. AttemptsOK(attempts')
  BY <1>4 DEF ModuleNotFound, new
<1>6. "Unresolved" \in Modes
  BY DEF Modes
<1>7. Tables' /\ AtDefiner' /\ PathSound'
  BY <1>1, <1>5, <1>6, LostKeeps DEF ModuleNotFound
<1> QED
  BY <1>7, EndGroupKeeps DEF ModuleNotFound, NoForwarder, InProgress

\* A step after the last module has nothing of the search left to disturb.
LEMMA LaterKeeps ==
  ASSUME IInv, UNCHANGED <<world, mod, todo, stage, search>>,
         phase' \in {"imports", "recorded", "collapsed", "copied"},
         Tables', AtDefiner', PathSound'
  PROVE  IInv'
<1>1. /\ NonMacro' = NonMacro /\ Symbols(NonMacro)' = Symbols(NonMacro)
      /\ Firsts(mod)' = Firsts(mod) /\ FromModule' = FromModule /\ Mods' = Mods
      /\ \A name : Versions(name)' = Versions(name)
      /\ \A m, s : Source(m, s)' = Source(m, s)
      /\ \A s, p : Leads(s, p)' = Leads(s, p)
      /\ \A m : Defs(m)' = Defs(m)
  BY SameGroup, SameWorld
<1>2. Sought' = Sought
  BY DEF Sought, SymbolAt, Clauses, search
<1>3. StackOK' <=> StackOK
  BY <1>1, <1>2 DEF StackOK, search
<1>4. SearchOK'
  BY <1>1, <1>3 DEF IInv, SearchOK, search
<1>5. TypeOK'
  BY <1>1 DEF IInv, TypeOK, search
<1> QED
  BY <1>4, <1>5 DEF IInv

LEMMA RecordKeeps == ASSUME IInv, Record PROVE IInv'
<1>1. Mods' = Mods /\ \A m : Clauses(m)' = Clauses(m)
  BY SameWorld DEF Record
<1>2. provenance' \in [Mods -> [Symbol -> [mode : Modes, target : Mods \cup {NoMod}]]]
  <2>1. ASSUME NEW m \in Mods, NEW s \in Symbol
        PROVE  /\ NoRecord \in [mode : Modes, target : Mods \cup {NoMod}]
               /\ [mode |-> PublicMode(m, s), target |-> imports[m][s]] \in
                    [mode : Modes, target : Mods \cup {NoMod}]
    BY DEF IInv, TypeOK, Tables, NoRecord, PublicMode, Modes
  <2> QED
    BY <2>1 DEF Record
<1>3. Tables'
  <2>1. UNCHANGED <<imports, modes, paths, attempts, unresolved, duplicates>>
    BY DEF Record, result
  <2>2. duplicates' \subseteq UNION {{m} \X DOMAIN Clauses(m)' : m \in Mods'}
    BY <1>1, <2>1 DEF IInv, TypeOK, Tables
  <2> QED
    BY <1>1, <1>2, <2>1, <2>2 DEF IInv, TypeOK, Tables
<1>4. AtDefiner' /\ PathSound'
  BY SameWorld DEF Record, result, IInv, AtDefiner, PathSound
<1> QED
  BY <1>3, <1>4, LaterKeeps DEF Record

\* The definer of an import is where it leads already.
LEMMA DefinerIsTarget ==
  ASSUME IInv, NEW m \in Mods, NEW s \in Symbol, imports[m][s] # NoMod
  PROVE  Definer(m, s) = imports[m][s]
<1> DEFINE t == imports[m][s]
<1>1. t \in Mods /\ s \in Defs(t) /\ Len(world.modules) \in Nat /\ Len(world.modules) > 0
  BY WorldType, ImportsAssumption DEF IInv, TypeOK, Tables, AtDefiner
<1>2. ASSUME NEW c \in Chains(m, s)
      PROVE  c[Len(c)] = t
  <2>1. PICK n \in 1 .. Len(world.modules) : c \in [1 .. n -> Mods]
    BY DEF Chains
  <2>2. Len(c) = n /\ n \in Nat /\ n >= 1
    <3>1. n \in Nat /\ n >= 1
      BY <1>1, <2>1
    <3> QED
      BY <2>1, <3>1, SeqDef, LenProperties
  <2>3. c[1] = t /\ \A k \in 1 .. n - 1 : s \notin Defs(c[k])
    BY <2>2 DEF Chains
  <2>4. n = 1
    <3>1. n # 1 => 1 \in 1 .. n - 1
      BY <2>2
    <3> QED
      BY <1>1, <2>3, <3>1
  <2> QED
    BY <2>2, <2>3, <2>4
<1>3. Chains(m, s) # {}
  <2> DEFINE c == [k \in 1 .. 1 |-> t]
  <2>1. c \in [1 .. 1 -> Mods] /\ 1 \in 1 .. Len(world.modules)
    BY <1>1
  <2>2. Len(c) = 1 /\ c[1] = t
    BY <2>1, SeqDef, LenProperties
  <2> HIDE DEF c
  <2>3. c \in UNION {[1 .. n -> Mods] : n \in 1 .. Len(world.modules)}
    BY <2>1
  <2>4. \A k \in 1 .. Len(c) - 1 : FALSE
    BY <2>2
  <2>5. c \in Chains(m, s)
    BY <1>1, <2>2, <2>3, <2>4 DEF Chains
  <2> QED
    BY <2>5
<1> QED
  BY <1>2, <1>3 DEF Definer

\* So resolve_transitive_imports finds nothing to collapse and nothing to report.
LEMMA CollapseIsIdle ==
  ASSUME IInv, Collapse
  PROVE  UNCHANGED <<imports, unresolved>>
<1>1. imports \in [Mods -> [Symbol -> Mods \cup {NoMod}]] /\ NoMod \notin Mods
  BY WorldType, ImportsAssumption DEF IInv, TypeOK, Tables
<1>2. \A m \in Mods, s \in Symbol : imports[m][s] # NoMod => Definer(m, s) = imports[m][s]
  BY DefinerIsTarget
<1>3. imports' = imports
  <2>1. imports' = [m \in Mods |-> [s \in Symbol |-> imports[m][s]]]
    BY <1>2 DEF Collapse
  <2> QED
    BY <1>1, <2>1
<1>4. \A p \in Mods \X Symbol :
        ~ (imports[p[1]][p[2]] # NoMod /\ Definer(p[1], p[2]) = NoMod)
  BY <1>2
<1>5. unresolved' = unresolved
  BY <1>4 DEF Collapse
<1> QED
  BY <1>3, <1>5

LEMMA CollapseKeeps == ASSUME IInv, Collapse PROVE IInv'
<1>1. UNCHANGED <<world, result, duplicates, provenance>>
  BY CollapseIsIdle DEF Collapse, result
<1>2. Tables' /\ AtDefiner' /\ PathSound'
  BY <1>1, SameResults
<1> QED
  BY <1>2, LaterKeeps DEF Collapse

LEMMA CopyResolvedKeeps == ASSUME IInv, CopyResolved PROVE IInv'
<1>1. Mods' = Mods /\ \A m : Clauses(m)' = Clauses(m)
  BY SameWorld DEF CopyResolved
<1>2. provenance' \in [Mods -> [Symbol -> [mode : Modes, target : Mods \cup {NoMod}]]]
  <2>1. \A r \in [mode : Modes, target : Mods \cup {NoMod}], t \in Mods \cup {NoMod} :
          [r EXCEPT !.target = t] \in [mode : Modes, target : Mods \cup {NoMod}]
    OBVIOUS
  <2>2. \A m \in Mods, s \in Symbol :
          /\ provenance[m][s] \in [mode : Modes, target : Mods \cup {NoMod}]
          /\ imports[m][s] \in Mods \cup {NoMod}
    BY DEF IInv, TypeOK, Tables
  <2> QED
    BY <2>1, <2>2 DEF CopyResolved
<1>3. Tables'
  <2>1. UNCHANGED <<imports, modes, paths, attempts, unresolved, duplicates>>
    BY DEF CopyResolved, result
  <2>2. duplicates' \subseteq UNION {{m} \X DOMAIN Clauses(m)' : m \in Mods'}
    BY <1>1, <2>1 DEF IInv, TypeOK, Tables
  <2> QED
    BY <1>1, <1>2, <2>1, <2>2 DEF IInv, TypeOK, Tables
<1>4. AtDefiner' /\ PathSound'
  BY SameWorld DEF CopyResolved, result, IInv, AtDefiner, PathSound
<1> QED
  BY <1>3, <1>4, LaterKeeps DEF CopyResolved

------------------------------------------------------------------------------
(* The theorems. *)

LEMMA InitInv == Init => IInv
<1> SUFFICES ASSUME Init PROVE IInv
  OBVIOUS
<1>1. world \in Worlds /\ Len(world.modules) \in Nat
  BY WorldType DEF Init
<1>2. Tables
  BY DEF Init, PerSymbol, Tables, NoRecord, Modes
<1>3. TypeOK
  BY <1>1, <1>2 DEF Init, TypeOK
<1>4. SearchOK
  BY DEF Init, SearchOK
<1>5. AtDefiner /\ PathSound
  BY DEF Init, PerSymbol, AtDefiner, PathSound
<1> QED
  BY <1>3, <1>4, <1>5 DEF IInv

LEMMA NextInv == IInv /\ [Next]_vars => IInv'
<1> SUFFICES ASSUME IInv, [Next]_vars PROVE IInv'
  OBVIOUS
<1>1. CASE UNCHANGED vars
  <2>1. Tables' /\ AtDefiner' /\ PathSound'
    BY <1>1, SameResults DEF vars
  <2> QED
    BY <1>1, <2>1, LaterKeeps DEF vars, IInv, TypeOK
<1>2. CASE NextModule \/ MacrosOnly \/ Direct \/ DirectFails \/ Alias \/ AliasFails
  BY <1>2, NextModuleKeeps, MacrosOnlyKeeps, DirectKeeps, DirectFailsKeeps, AliasKeeps,
     AliasFailsKeeps
<1>3. CASE Traverse \/ Cycle \/ NotImported \/ SourceMissing \/ Descend \/ Backtrack
  BY <1>3, TraverseKeeps, CycleKeeps, NotImportedKeeps, SourceMissingKeeps, DescendKeeps,
     BacktrackKeeps
<1>4. CASE ForwardFound \/ ForwarderFails \/ Forward
  BY <1>4, ForwardFoundKeeps, ForwarderFailsKeeps, ForwardKeeps
<1>5. CASE Partial \/ PartialFound \/ NotExported \/ PartialDone \/ ModuleNotFound
  BY <1>5, PartialKeeps, PartialFoundKeeps, NotExportedKeeps, PartialDoneKeeps,
     ModuleNotFoundKeeps
<1>6. CASE Record \/ Collapse \/ CopyResolved
  BY <1>6, RecordKeeps, CollapseKeeps, CopyResolvedKeeps
<1> QED
  BY <1>1, <1>2, <1>3, <1>4, <1>5, <1>6 DEF Next

\* The invariant holds of every run of the phase.
THEOREM Inductive == Spec => []IInv
<1> QED
  BY InitInv, NextInv, PTL DEF Spec

\* The tables of the phase keep their types: resolve_imports records modules that
\* are loaded, for symbols that a group names.
THEOREM TypeCorrect == Spec => []TypeOK
<1>1. IInv => TypeOK
  BY DEF IInv
<1> QED
  BY <1>1, Inductive, PTL

\* However many modules forward a symbol, with cycles of imports or without, what
\* module_imports holds is the module that defines it.
THEOREM AtDefinerHolds == Spec => []AtDefiner
<1>1. IInv => AtDefiner
  BY DEF IInv
<1> QED
  BY <1>1, Inductive, PTL

\* The selected path of an import is a chain of clauses for the symbol from the
\* module the importer names to the target, through no module twice.
THEOREM PathSoundHolds == Spec => []PathSound
<1>1. IInv => PathSound
  BY DEF IInv
<1> QED
  BY <1>1, Inductive, PTL

\* resolve_transitive_imports never changes an import and never reports one: the
\* stages before it have recorded the definer already.
THEOREM NothingToCollapse == Spec => [][Collapse => UNCHANGED <<imports, unresolved>>]_vars
<1>1. IInv /\ [Next]_vars => [Collapse => UNCHANGED <<imports, unresolved>>]_vars
  BY CollapseIsIdle
<1> QED
  BY <1>1, Inductive, PTL DEF Spec

------------------------------------------------------------------------------
(* Cutting cycles loses nothing.  The traversal leaves a module for good when *)
(* it can find nothing through it except by way of the modules on the path,   *)
(* so that when the path is empty again the modules left hold every chain.    *)

\* The modules D are left for good: what their clauses name, and what the frames have
\* tried, is left for good too or on the path.
Covered(st, s, from, D) ==
  LET seen == D \cup {st[k].at : k \in 2 .. Len(st)} IN
    /\ \A n \in D : s \notin Defs(n) /\ Versions(Source(n, s)) \subseteq seen
    /\ Versions(from) \subseteq seen \cup st[1].rest
    /\ \A k \in 2 .. Len(st) : Versions(Source(st[k].at, s)) \subseteq seen \cup st[k].rest

Exhaustive ==
  stage = "partial" =>
    /\ cands = Versions(FromModule)
    /\ stack # <<>> => \E D \in SUBSET Mods : Covered(stack, Sought, FromModule, D)

\* A traversal is of the candidates at hand.
Underway == stack # <<>> => cands # {}

MInv == IInv /\ Underway /\ Exhaustive /\ NoFalseMissing

\* What covers a later stack is read in the same world.
LEMMA CoveredNext ==
  ASSUME UNCHANGED <<world, mod, todo, stage, cands, syms>>, Exhaustive,
         stage = "partial", NEW D \in SUBSET Mods, Covered(stack', Sought, FromModule, D)
  PROVE  Exhaustive'
<1>1. Sought' = Sought /\ FromModule' = FromModule /\ Mods' = Mods
  BY SameGroup, SameWorld DEF Sought, SymbolAt, Clauses
<1>2. /\ \A name : Versions(name)' = Versions(name)
      /\ \A m, s : Source(m, s)' = Source(m, s)
      /\ \A m : Defs(m)' = Defs(m)
  BY SameGroup, SameWorld
<1>3. Covered(stack, Sought, FromModule, D)'
  BY <1>1, <1>2 DEF Covered
<1>4. cands' = Versions(FromModule)'
  BY <1>1, <1>2 DEF Exhaustive
<1> QED
  BY <1>1, <1>3, <1>4 DEF Exhaustive

\* The traversal at hand is covered, and does not define the symbol on its path.
LEMMA CoveredNow ==
  ASSUME IInv, Exhaustive, stage = "partial", stack # <<>>
  PROVE  /\ \E D \in SUBSET Mods : Covered(stack, Sought, FromModule, D)
         /\ StackOK
BY DEF Exhaustive, IInv, SearchOK

\* A frame that has its candidates but one is covered once that one is.
LEMMA FramesCovered ==
  ASSUME IInv, Exploring, NEW D, NEW seen, NEW st, Covered(stack, Sought, FromModule, D),
         Active \cup D \cup {Pick} \subseteq seen,
         \A k \in 1 .. Len(stack) : /\ st[k].at = stack[k].at
                                    /\ stack[k].rest \ {Pick} \subseteq st[k].rest
  PROVE  /\ Versions(FromModule) \subseteq seen \cup st[1].rest
         /\ \A k \in 2 .. Len(stack) :
              Versions(Source(st[k].at, Sought)) \subseteq seen \cup st[k].rest
<1>1. PICK n \in Nat : n = Len(stack) /\ n >= 1
  BY Frames DEF IInv, Exploring
<1>2. /\ Versions(FromModule) \subseteq Active \cup D \cup stack[1].rest
      /\ \A k \in 2 .. n :
           Versions(Source(stack[k].at, Sought)) \subseteq Active \cup D \cup stack[k].rest
  BY <1>1, Zenon DEF Covered, Active
<1>3. 1 \in 1 .. n /\ \A k \in 2 .. n : k \in 1 .. n
  BY <1>1
<1>4. Versions(FromModule) \subseteq seen \cup st[1].rest
  BY <1>1, <1>2, <1>3
<1>5. ASSUME NEW k \in 2 .. n
      PROVE  Versions(Source(st[k].at, Sought)) \subseteq seen \cup st[k].rest
  <2>1. st[k].at = stack[k].at /\ stack[k].rest \ {Pick} \subseteq st[k].rest
    BY <1>1, <1>3
  <2>2. Versions(Source(stack[k].at, Sought)) \subseteq Active \cup D \cup stack[k].rest
    BY <1>2
  <2> QED
    BY <2>1, <2>2
<1> QED
  BY <1>1, <1>4, <1>5

\* A candidate that comes to nothing is on the path, or is left for good.
LEMMA DeadEndCovers ==
  ASSUME IInv, Exhaustive, Exploring, NEW missing, NEW outcome, DeadEnd(missing, outcome),
         Sought \notin Defs(Pick),
         Pick \in Active \/ Versions(Source(Pick, Sought)) = {}
  PROVE  Exhaustive'
<1>1. CASE stage # "partial"
  BY <1>1 DEF DeadEnd, Exhaustive
<1>2. CASE stage = "partial"
  <2>1. PICK D \in SUBSET Mods : Covered(stack, Sought, FromModule, D)
    BY <1>2, CoveredNow DEF Exploring
  <2> DEFINE E == IF Pick \in Active THEN D ELSE D \cup {Pick}
             seen == E \cup Active
  <2>2. /\ Len(stack') = Len(stack)
        /\ \A k \in 1 .. Len(stack) : /\ stack'[k].at = stack[k].at
                                      /\ stack[k].rest \ {Pick} \subseteq stack'[k].rest
    BY FrameLess DEF DeadEnd
  <2>3. E \in SUBSET Mods /\ Active \cup D \cup {Pick} \subseteq seen
    BY PickIn DEF IInv
  <2>4. PICK n \in Nat : n = Len(stack) /\ n >= 1
    BY Frames DEF IInv, Exploring
  <2>5. {stack'[k].at : k \in 2 .. Len(stack')} = Active
    <3>1. \A k \in 2 .. n : k \in 1 .. n
      BY <2>4
    <3> QED
      BY <2>2, <2>4, <3>1 DEF Active
  <2>6. /\ Versions(FromModule) \subseteq seen \cup stack'[1].rest
        /\ \A k \in 2 .. Len(stack) :
             Versions(Source(stack'[k].at, Sought)) \subseteq seen \cup stack'[k].rest
    <3> HIDE DEF seen
    <3> QED
      BY <2>1, <2>2, <2>3, FramesCovered
  <2>7. \A m \in D : Sought \notin Defs(m) /\ Versions(Source(m, Sought)) \subseteq D \cup Active
    BY <2>1 DEF Covered, Active
  <2>8. \A m \in E : Sought \notin Defs(m) /\ Versions(Source(m, Sought)) \subseteq seen
    BY <2>7
  <2>9. Covered(stack', Sought, FromModule, E)
    <3> HIDE DEF E
    <3> QED
      BY <2>2, <2>5, <2>6, <2>8 DEF Covered
  <2> HIDE DEF E
  <2> QED
    BY <1>2, <2>3, <2>9, CoveredNext DEF DeadEnd
<1> QED
  BY <1>1, <1>2

\* The module descended from joins the path, with every candidate still to try.
LEMMA DescendCovers == ASSUME IInv, Exhaustive, Descend PROVE Exhaustive'
<1>1. CASE stage # "partial"
  BY <1>1 DEF Descend, Exhaustive
<1>2. CASE stage = "partial"
  <2>1. PICK D \in SUBSET Mods : Covered(stack, Sought, FromModule, D)
    BY <1>2, CoveredNow DEF Descend, Exploring
  <2>2. PICK n \in Nat : n = Len(stack) /\ n >= 1
    BY Frames DEF IInv, Exploring, Descend
  <2> DEFINE F == [at : Mods \cup {NoMod}, rest : SUBSET Mods]
             st == [stack EXCEPT ![Len(stack)].rest = @ \ {Pick}]
             top == [at |-> Pick, rest |-> Versions(Source(Pick, Sought))]
             seen == D \cup Active \cup {Pick}
  <2>3. /\ st \in Seq(F) /\ Len(st) = n
        /\ \A k \in 1 .. n : /\ st[k].at = stack[k].at
                             /\ stack[k].rest \ {Pick} \subseteq st[k].rest
    BY <2>2, FrameLess DEF Descend
  <2>4. top \in F /\ top.at = Pick /\ top.rest = Versions(Source(Pick, Sought))
    BY PickIn, VersionsAreMods DEF IInv, Descend
  <2>5. stack' = Append(st, top)
    BY DEF Descend, Onward
  <2> HIDE DEF F, st, top
  <2>6. /\ Len(stack') = n + 1 /\ stack'[n + 1] = top
        /\ \A k \in 1 .. n : stack'[k] = st[k]
    <3>1. /\ Len(Append(st, top)) = n + 1 /\ Append(st, top)[n + 1] = top
          /\ \A k \in 1 .. n : Append(st, top)[k] = st[k]
      BY <2>3, <2>4, AppendProperties
    <3> QED
      BY <2>5, <3>1
  <2>7. {stack'[k].at : k \in 2 .. Len(stack')} = Active \cup {Pick}
    <3>1. \A k \in 2 .. n : k \in 1 .. n /\ k \in 2 .. n + 1
      BY <2>2
    <3>2. \A k \in 2 .. n + 1 : k \in 2 .. n \/ k = n + 1
      BY <2>2
    <3>3. n + 1 \in 2 .. n + 1
      BY <2>2
    <3>4. \A k \in 2 .. n : stack'[k].at = stack[k].at
      BY <2>3, <2>6, <3>1
    <3>5. stack'[n + 1].at = Pick
      BY <2>4, <2>6
    <3> QED
      BY <2>2, <2>6, <3>1, <3>2, <3>3, <3>4, <3>5 DEF Active
  <2>8. /\ Versions(FromModule) \subseteq seen \cup stack'[1].rest
        /\ \A k \in 2 .. Len(stack) :
             Versions(Source(stack'[k].at, Sought)) \subseteq seen \cup stack'[k].rest
    <3>1. Active \cup D \cup {Pick} \subseteq seen
      OBVIOUS
    <3> HIDE DEF seen
    <3>2. \A k \in 1 .. Len(stack) : /\ stack'[k].at = stack[k].at
                                     /\ stack[k].rest \ {Pick} \subseteq stack'[k].rest
      BY <2>2, <2>3, <2>6
    <3> QED
      BY <2>1, <3>1, <3>2, FramesCovered DEF Descend
  <2>9. \A k \in 2 .. n + 1 :
          Versions(Source(stack'[k].at, Sought)) \subseteq seen \cup stack'[k].rest
    <3>1. \A k \in 2 .. n + 1 : k \in 2 .. n \/ k = n + 1
      BY <2>2
    <3>2. Versions(Source(stack'[n + 1].at, Sought)) \subseteq seen \cup stack'[n + 1].rest
      BY <2>4, <2>6
    <3> QED
      BY <2>2, <2>8, <3>1, <3>2, Zenon
  <2>10. \A m \in D : Sought \notin Defs(m) /\ Versions(Source(m, Sought)) \subseteq seen
    BY <2>1 DEF Covered, Active
  <2>11. Covered(stack', Sought, FromModule, D)
    <3>1. D \cup (Active \cup {Pick}) = seen
      OBVIOUS
    <3> HIDE DEF seen
    <3> QED
      BY <2>6, <2>7, <2>8, <2>9, <2>10, <3>1, Zenon DEF Covered
  <2> QED
    BY <1>2, <2>11, CoveredNext DEF Descend
<1> QED
  BY <1>1, <1>2

\* The module at the end of the path has no candidate left, and is left for good.
LEMMA BacktrackCovers == ASSUME IInv, Exhaustive, Backtrack PROVE Exhaustive'
<1>1. CASE stage # "partial"
  BY <1>1 DEF Backtrack, Exhaustive
<1>2. CASE stage = "partial"
  <2>a. stack # <<>>
    BY DEF Backtrack
  <2>1. PICK D \in SUBSET Mods : Covered(stack, Sought, FromModule, D)
    BY <1>2, <2>a, CoveredNow
  <2>2. PICK n \in Nat : n = Len(stack) /\ n > 1
    BY <2>a, Frames DEF IInv, Backtrack
  <2>3. Len(stack') = n - 1 /\ \A k \in 1 .. n - 1 : stack'[k] = stack[k]
    <3> DEFINE F == [at : Mods \cup {NoMod}, rest : SUBSET Mods]
    <3>1. \A k \in 1 .. n - 1 : stack[k] \in F
      <4>1. \A k \in 1 .. n : stack[k] \in F
        BY <2>2, <2>a, Frames DEF IInv
      <4> QED
        BY <2>2, <4>1
    <3> HIDE DEF F
    <3>2. /\ Len(SubSeq(stack, 1, n - 1)) =
               IF 1 <= n - 1 THEN (n - 1) - 1 + 1 ELSE 0
          /\ \A i \in 1 .. (n - 1) - 1 + 1 : SubSeq(stack, 1, n - 1)[i] = stack[1 + i - 1]
      BY <2>2, <3>1, SubSeqProperties
    <3>3. stack' = SubSeq(stack, 1, n - 1)
      BY <2>2 DEF Backtrack
    <3>4. Len(SubSeq(stack, 1, n - 1)) = n - 1
      BY <2>2, <3>2
    <3>5. \A i \in 1 .. n - 1 : SubSeq(stack, 1, n - 1)[i] = stack[i]
      BY <2>2, <3>2
    <3> QED
      BY <3>3, <3>4, <3>5
  <2> DEFINE E == D \cup {Top.at}
             seen == D \cup Active
  <2>4. /\ Top.at \in Mods /\ Sought \notin Defs(Top.at) /\ Top.at \in Active
        /\ Versions(Source(Top.at, Sought)) \subseteq seen
    <3>1. n \in 2 .. n /\ Top = stack[n] /\ Top.rest = {}
      BY <2>2 DEF Top, Backtrack
    <3>2. StackOK
      BY <1>2, <2>a, CoveredNow
    <3>3. stack[n].at \in Mods /\ Sought \notin Defs(stack[n].at)
      BY <2>2, <3>1, <3>2 DEF StackOK
    <3>4. stack[n].at \in Active
      BY <2>2, <3>1 DEF Active
    <3>5. Versions(Source(stack[n].at, Sought)) \subseteq D \cup Active \cup stack[n].rest
      BY <2>1, <2>2, <3>1, Zenon DEF Covered, Active
    <3> QED
      BY <3>1, <3>3, <3>4, <3>5
  <2>5. E \cup {stack'[k].at : k \in 2 .. Len(stack')} = seen
    <3>1. \A k \in 2 .. n - 1 : k \in 1 .. n - 1 /\ k \in 2 .. n
      BY <2>2
    <3>2. \A k \in 2 .. n : k \in 2 .. n - 1 \/ k = n
      BY <2>2
    <3>3. {stack'[k].at : k \in 2 .. n - 1} = {stack[k].at : k \in 2 .. n - 1}
      BY <2>3, <3>1
    <3>4. Active = {stack[k].at : k \in 2 .. n - 1} \cup {stack[n].at}
      <4>1. n \in 2 .. n
        BY <2>2
      <4> QED
        BY <2>2, <3>1, <3>2, <4>1 DEF Active
    <3> QED
      BY <2>2, <2>3, <3>3, <3>4 DEF Top
  <2>6. /\ Versions(FromModule) \subseteq seen \cup stack'[1].rest
        /\ \A k \in 2 .. n - 1 :
             Versions(Source(stack'[k].at, Sought)) \subseteq seen \cup stack'[k].rest
    <3>1. 1 \in 1 .. n - 1 /\ \A k \in 2 .. n - 1 : k \in 1 .. n - 1 /\ k \in 2 .. n
      BY <2>2
    <3>2. /\ Versions(FromModule) \subseteq seen \cup stack[1].rest
          /\ \A k \in 2 .. n :
               Versions(Source(stack[k].at, Sought)) \subseteq seen \cup stack[k].rest
      BY <2>1, <2>2, Zenon DEF Covered, Active
    <3> QED
      BY <2>3, <3>1, <3>2, Zenon
  <2>7. \A m \in E : Sought \notin Defs(m) /\ Versions(Source(m, Sought)) \subseteq seen
    <3>1. \A m \in D : Sought \notin Defs(m) /\ Versions(Source(m, Sought)) \subseteq seen
      BY <2>1 DEF Covered, Active
    <3> HIDE DEF seen
    <3> QED
      BY <2>4, <3>1
  <2>8. E \in SUBSET Mods
    BY <2>4
  <2> HIDE DEF E, seen
  <2>9. Covered(stack', Sought, FromModule, E)
    BY <2>3, <2>5, <2>6, <2>7, Zenon DEF Covered
  <2> QED
    BY <1>2, <2>8, <2>9, CoveredNext DEF Backtrack
<1> QED
  BY <1>1, <1>2

\* Set in the same world, a closed set of modules is closed.
LEMMA SameClosed ==
  ASSUME world' = world
  PROVE  /\ \A ms, m, s : ClosedUnderImports(ms, m, s)' = ClosedUnderImports(ms, m, s)
         /\ Mods' = Mods /\ \A m : Defs(m)' = Defs(m)
<1>1. /\ Mods' = Mods /\ \A m : Defs(m)' = Defs(m)
      /\ \A name : Versions(name)' = Versions(name)
      /\ \A m, s : Source(m, s)' = Source(m, s)
  BY SameWorld DEF Versions, Mods, Source, Firsts, IsFirst, Clauses
<1> QED
  BY <1>1 DEF ClosedUnderImports

\* No module that a chain of imports leads to defines the symbol.
Missing(m, s) ==
  \E ms \in SUBSET Mods : ClosedUnderImports(ms, m, s) /\ \A n \in ms : s \notin Defs(n)

\* A report is true as long as the ones that a step adds are.
LEMMA ReportsKept ==
  ASSUME NoFalseMissing, world' = world,
         \A u \in unresolved' : \/ u \in unresolved \/ u.reason # "SymbolNotExported"
                                \/ Missing(u.module, u.symbol)
  PROVE  NoFalseMissing'
<1>1. \A m, s : Missing(m, s)' <=> Missing(m, s)
  BY SameClosed DEF Missing
<1>2. NoFalseMissing <=>
        \A u \in unresolved : u.reason = "SymbolNotExported" => Missing(u.module, u.symbol)
  BY DEF NoFalseMissing, Missing
<1>3. NoFalseMissing' <=>
        \A u \in unresolved' : u.reason = "SymbolNotExported" => Missing(u.module, u.symbol)'
  BY DEF NoFalseMissing, Missing
<1> QED
  BY <1>1, <1>2, <1>3

\* With nothing left to try the modules left for good are all that imports lead to.
LEMMA ExhaustedIsMissing ==
  ASSUME IInv, Exhaustive, TraversalFails, stage = "partial"
  PROVE  Missing(mod, Sought)
<1>1. stack # <<>> /\ syms # {}
  BY DEF TraversalFails, IInv, SearchOK
<1>2. PICK D \in SUBSET Mods : Covered(stack, Sought, FromModule, D)
  BY <1>1, CoveredNow
<1>3. \A k \in 2 .. Len(stack) : FALSE
  BY DEF TraversalFails
<1>4. stack[1].rest = {}
  BY DEF TraversalFails, Top
<1>5. D \cup {stack[k].at : k \in 2 .. Len(stack)} = D
  BY <1>3
<1>6. /\ Versions(FromModule) \subseteq D
      /\ \A n \in D : Sought \notin Defs(n) /\ Versions(Source(n, Sought)) \subseteq D
  BY <1>2, <1>4, <1>5, Zenon DEF Covered
<1>7. Source(mod, Sought) = FromModule
  BY <1>1, SoughtIn DEF IInv
<1>8. ClosedUnderImports(D, mod, Sought)
  BY <1>6, <1>7 DEF ClosedUnderImports
<1> QED
  BY <1>6, <1>8 DEF Missing

\* Leaving a traversal, or the group, leaves nothing to be covered.
LEMMA LeaveCovers ==
  ASSUME Exhaustive, UNCHANGED <<world, mod, todo, stage, cands>>, stack' = <<>>
  PROVE  Exhaustive'
BY SameGroup DEF Exhaustive

LEMMA TraverseCovers == ASSUME IInv, Exhaustive, Traverse PROVE Exhaustive'
<1>1. CASE stage # "partial"
  BY <1>1 DEF Traverse, Exhaustive
<1>2. CASE stage = "partial"
  <2>1. stack' = <<[at |-> NoMod, rest |-> cands]>>
    BY <1>2 DEF Traverse
  <2>2. Len(stack') = 1 /\ stack'[1].rest = cands /\ cands = Versions(FromModule)
    BY <1>2, <2>1 DEF Exhaustive
  <2>3. \A k \in 2 .. Len(stack') : FALSE
    BY <2>2
  <2>4. Covered(stack', Sought, FromModule, {})
    BY <2>2, <2>3, Zenon DEF Covered
  <2> QED
    BY <1>2, <2>4, CoveredNext DEF Traverse
<1> QED
  BY <1>1, <1>2

LEMMA UnderwayNext == ASSUME IInv, Underway, [Next]_vars PROVE Underway'
<1>1. CASE \/ UNCHANGED vars \/ NextModule \/ AliasFails \/ Record \/ Collapse
           \/ CopyResolved \/ Cycle \/ NotImported \/ SourceMissing \/ Descend \/ Backtrack
  <2>1. cands' = cands
    BY <1>1 DEF vars, search, NextModule, AliasFails, Record, Collapse, CopyResolved, Cycle,
       NotImported, SourceMissing, DeadEnd, Descend, Backtrack
  <2>2. stack' = stack \/ stack # <<>>
    BY <1>1 DEF vars, search, NextModule, AliasFails, Record, Collapse, CopyResolved, Cycle,
       NotImported, SourceMissing, Descend, Backtrack, Exploring
  <2> QED
    BY <2>1, <2>2 DEF Underway
<1>2. CASE Traverse
  BY <1>2 DEF Traverse, Underway
<1>3. CASE \/ MacrosOnly \/ Direct \/ Alias \/ ForwardFound \/ ForwarderFails \/ Forward
           \/ PartialFound \/ NotExported \/ PartialDone \/ ModuleNotFound
  <2>1. stack' = <<>>
    BY <1>3 DEF MacrosOnly, Direct, Alias, FoundWhole, ForwardFound, ForwarderFails, Forward,
       PartialFound, NotExported, PartialDone, ModuleNotFound, EndGroup
  <2> QED
    BY <2>1 DEF Underway
<1>4. CASE DirectFails
  BY <1>4 DEF DirectFails, IInv, SearchOK, Underway
<1>5. CASE Partial
  BY <1>5 DEF Partial, NoForwarder, Underway
<1> QED
  BY <1>1, <1>2, <1>3, <1>4, <1>5 DEF Next

LEMMA MInvNext == MInv /\ [Next]_vars => MInv'
<1> SUFFICES ASSUME IInv, Underway, Exhaustive, NoFalseMissing, [Next]_vars
             PROVE  Exhaustive' /\ NoFalseMissing'
  BY NextInv, UnderwayNext DEF MInv
<1>1. CASE \/ UNCHANGED vars \/ NextModule \/ MacrosOnly \/ Direct \/ DirectFails
           \/ Alias \/ AliasFails
  <2>1. world' = world /\ unresolved' = unresolved
    BY <1>1 DEF vars, result, NextModule, MacrosOnly, Direct, DirectFails, Alias, AliasFails,
       FoundWhole
  <2>2. Exhaustive'
    <3>1. CASE UNCHANGED vars
      <4>1. UNCHANGED <<world, mod, todo, stage, cands, syms, stack>>
        BY <3>1 DEF vars, search
      <4>2. CASE stack = <<>>
        BY <4>1, <4>2, LeaveCovers
      <4>3. CASE stack # <<>> /\ stage = "partial"
        <5>1. PICK D \in SUBSET Mods : Covered(stack, Sought, FromModule, D)
          BY <4>3, CoveredNow
        <5>2. Covered(stack', Sought, FromModule, D)
          BY <4>1, <5>1
        <5> QED
          BY <4>1, <4>3, <5>2, CoveredNext
      <4>4. CASE stage # "partial"
        BY <4>1, <4>4 DEF Exhaustive
      <4> QED
        BY <4>2, <4>3, <4>4
    <3>2. CASE NextModule
      <4>1. stage # "partial" /\ stage' = stage
        BY <3>2 DEF NextModule, IInv, SearchOK
      <4> QED
        BY <4>1 DEF Exhaustive
    <3>3. CASE MacrosOnly \/ Direct \/ DirectFails \/ Alias \/ AliasFails
      <4>1. stage' # "partial"
        BY <3>3 DEF MacrosOnly, Direct, DirectFails, Alias, AliasFails, FoundWhole, EndGroup
      <4> QED
        BY <4>1 DEF Exhaustive
    <3> QED
      BY <1>1, <3>1, <3>2, <3>3
  <2> QED
    BY <2>1, <2>2, ReportsKept
<1>2. CASE Traverse \/ Cycle \/ NotImported \/ SourceMissing \/ Descend \/ Backtrack
  <2>1. world' = world /\ unresolved' = unresolved
    BY <1>2 DEF Traverse, Cycle, NotImported, SourceMissing, Descend, Backtrack, DeadEnd,
       result
  <2>2. CASE Cycle
    BY <2>1, <2>2, DeadEndCovers, ReportsKept DEF Cycle
  <2>3. CASE NotImported
    <3>1. Versions(NoName) = {}
      BY WorldType, ImportsAssumption DEF Versions, IInv, TypeOK
    <3> QED
      BY <2>1, <2>3, <3>1, DeadEndCovers, ReportsKept DEF NotImported
  <2>4. CASE SourceMissing
    BY <2>1, <2>4, DeadEndCovers, ReportsKept DEF SourceMissing
  <2>5. CASE Traverse \/ Descend \/ Backtrack
    BY <2>1, <2>5, TraverseCovers, DescendCovers, BacktrackCovers, ReportsKept
  <2> QED
    BY <1>2, <2>2, <2>3, <2>4, <2>5
<1>3. CASE ForwardFound \/ ForwarderFails \/ Forward \/ PartialDone \/ ModuleNotFound
  <2>1. stage' # "partial"
    BY <1>3 DEF ForwardFound, ForwarderFails, Forward, PartialDone, ModuleNotFound,
       NoForwarder, EndGroup
  <2>2. world' = world
        /\ \A u \in unresolved' : u \in unresolved \/ u.reason # "SymbolNotExported"
    BY <1>3 DEF ForwardFound, ForwarderFails, Forward, PartialDone, ModuleNotFound, Lost,
       result
  <2> QED
    BY <2>1, <2>2, ReportsKept DEF Exhaustive
<1>4. CASE Partial \/ PartialFound \/ NotExported
  <2>1. Exhaustive'
    <3>1. CASE Partial
      <4>1. stack = <<>> /\ stack' = stack
        BY <3>1 DEF Partial, NoForwarder, Underway
      <4> QED
        BY <3>1, <4>1, SameGroup DEF Partial, Exhaustive
    <3>2. CASE PartialFound \/ NotExported
      BY <3>2, LeaveCovers DEF PartialFound, NotExported
    <3> QED
      BY <1>4, <3>1, <3>2
  <2>2. world' = world
    BY <1>4 DEF Partial, PartialFound, NotExported
  <2>3. CASE Partial \/ PartialFound
    <3>1. unresolved' = unresolved
      BY <2>3 DEF Partial, PartialFound, result
    <3> QED
      BY <2>1, <2>2, <3>1, ReportsKept
  <2>4. CASE NotExported
    <3>1. Missing(mod, Sought)
      BY <2>4, ExhaustedIsMissing DEF NotExported
    <3>2. \A u \in unresolved' : u \in unresolved \/ (u.module = mod /\ u.symbol = Sought)
      BY <2>4 DEF NotExported, Lost
    <3> QED
      BY <2>1, <2>2, <3>1, <3>2, ReportsKept
  <2> QED
    BY <1>4, <2>3, <2>4
<1>5. CASE Record \/ Collapse \/ CopyResolved
  <2>1. world' = world /\ unresolved' = unresolved
    BY <1>5, CollapseIsIdle DEF Record, Collapse, CopyResolved, result
  <2>2. UNCHANGED <<world, mod, todo, stage, cands, syms, stack>>
    BY <1>5 DEF Record, Collapse, CopyResolved, search
  <2>3. CASE stack = <<>>
    BY <2>1, <2>2, <2>3, LeaveCovers, ReportsKept
  <2>4. CASE stack # <<>>
    <3>1. stage = "partial" => \E D \in SUBSET Mods : Covered(stack', Sought, FromModule, D)
      BY <2>2, <2>4, CoveredNow
    <3>2. Exhaustive'
      BY <2>2, <3>1, CoveredNext DEF Exhaustive
    <3> QED
      BY <2>1, <3>2, ReportsKept
  <2> QED
    BY <2>3, <2>4
<1> QED
  BY <1>1, <1>2, <1>3, <1>4, <1>5 DEF Next

\* A symbol is reported as not exported only when no chain of imports leads to a
\* definition of it: cutting cycles and leaving modules for good loses none.
THEOREM NoFalseMissingHolds == Spec => []NoFalseMissing
<1>1. Init => MInv
  <2> SUFFICES ASSUME Init PROVE MInv
    OBVIOUS
  <2>1. Underway /\ Exhaustive /\ NoFalseMissing
    BY DEF Init, Underway, Exhaustive, NoFalseMissing
  <2> QED
    BY <2>1, InitInv DEF MInv
<1>2. MInv => NoFalseMissing
  BY DEF MInv
<1> QED
  BY <1>1, <1>2, MInvNext, PTL DEF Spec

------------------------------------------------------------------------------
(* Every import is accounted for.  The clauses of the module at hand are        *)
(* settled one group at a time, and a clause is settled once: what waits has    *)
(* left nothing in the tables, what no longer waits is imported or reported.    *)

Reports(us, m, s) == \E u \in us : u.module = m /\ u.symbol = s
Reported(m, s) == Reports(unresolved, m, s)

\* The records of a symbol agree: an import has the attempt that selected it.
Agree(m, s) ==
  /\ imports[m][s] # NoMod =>
       /\ modes[m][s] \in {"Direct", "Alias", "Forwarded", "Partial"} /\ ~ Reported(m, s)
       /\ \E a \in attempts[m][s] : a.selected /\ a.path = paths[m][s]
  /\ imports[m][s] = NoMod =>
       /\ modes[m][s] \in {NoMode, "Partial", "Unresolved"}
       /\ \A a \in attempts[m][s] : ~ a.selected

Untouched(m, s) == imports[m][s] = NoMod /\ ~ Reported(m, s)
Settled(m, s) == s \in MacroNames \/ imports[m][s] # NoMod \/ Reported(m, s)

Waits(i) == i \in todo /\ (stage = "partial" /\ i \in Group => i \in syms)

Progress ==
  /\ \A m \in Mods : m > mod => \A s \in Symbol : Untouched(m, s)
  /\ \A m \in Mods : m < mod => \A i \in Firsts(m) : Settled(m, Clauses(m)[i].symbol)
  /\ mod # 0 => \A i \in Firsts(mod) :
       IF Waits(i) THEN Untouched(mod, SymbolAt(i)) ELSE Settled(mod, SymbolAt(i))
  /\ phase # "imports" => mod = Len(world.modules) /\ todo = {}

\* A forwarder is given up for the next one with all it found, and one that forwards
\* the group has found a path for each of its symbols.
FoundSoFar ==
  /\ stage = "alias" => syms = NonMacro
  /\ stage = "forwarding" =>
       /\ \A i \in NonMacro : i \in syms \/ SymbolAt(i) \in DOMAIN found
       /\ cands = {} => syms = NonMacro
       /\ \A s \in DOMAIN found : \E a \in attempts[mod][s] :
            a.outcome = "Resolved" /\ a.path = found[s] /\ a.stage = "forwarding"

RecordAgrees ==
  phase # "imports" => \A m \in Mods, s \in Symbol :
    LET r == provenance[m][s] IN
      /\ r.target = imports[m][s]
      /\ r.target = NoMod => r.mode \notin {"Direct", "Alias", "Forwarded"}
      /\ r.target # NoMod => r.mode \notin {"Unresolved", "Cycle"}

AllAgree == \A m \in Mods, s \in Symbol : Agree(m, s)

AInv == IInv /\ Underway /\ AllAgree /\ Progress /\ FoundSoFar /\ RecordAgrees

\* A table with the attempts of a step: none is lost, and none is selected yet.
Adds(tried) ==
  \A m \in Mods, s \in Symbol :
    /\ attempts[m][s] \subseteq tried[m][s]
    /\ \A a \in tried[m][s] : a \in attempts[m][s] \/ ~ a.selected

LEMMA NothingAdded == ASSUME attempts' = attempts PROVE Adds(attempts')
BY DEF Adds

\* Attempts recorded by symbol are such a table.
LEMMA WithAdds ==
  ASSUME IInv, mod \in Mods, NEW new, DOMAIN new \subseteq Symbol,
         \A s \in DOMAIN new : \A a \in new[s] : ~ a.selected
  PROVE  /\ Adds(With(new))
         /\ \A s \in DOMAIN new : new[s] \subseteq With(new)[mod][s]
<1> DEFINE f == [s \in DOMAIN new |-> attempts[mod][s] \cup new[s]]
           t == With(new)
<1>1. DOMAIN attempts = Mods
  BY DEF IInv, TypeOK, Tables
<1>2. /\ \A m \in Mods : m # mod => t[m] = attempts[m]
      /\ t[mod] = [s \in Symbol |-> IF s \in DOMAIN f THEN f[s] ELSE attempts[mod][s]]
  BY <1>1, Zenon DEF With, Put
<1>3. \A s \in Symbol : t[mod][s] = IF s \in DOMAIN new THEN attempts[mod][s] \cup new[s]
                                                     ELSE attempts[mod][s]
  BY <1>2
<1> HIDE DEF t
<1>4. Adds(t)
  <2> SUFFICES ASSUME NEW m \in Mods, NEW s \in Symbol
               PROVE  /\ attempts[m][s] \subseteq t[m][s]
                      /\ \A a \in t[m][s] : a \in attempts[m][s] \/ ~ a.selected
    BY Zenon DEF Adds
  <2>1. CASE m # mod
    BY <1>2, <2>1
  <2>2. CASE m = mod /\ s \in DOMAIN new
    <3>1. t[m][s] = attempts[m][s] \cup new[s]
      BY <1>3, <2>2
    <3> QED
      BY <2>2, <3>1, Zenon
  <2>3. CASE m = mod /\ s \notin DOMAIN new
    BY <1>3, <2>3
  <2> QED
    BY <2>1, <2>2, <2>3
<1>5. \A s \in DOMAIN new : new[s] \subseteq t[mod][s]
  BY <1>3
<1> QED
  BY <1>4, <1>5 DEF t

\* An attempt is recorded before it is selected.
LEMMA NotYetSelected ==
  ASSUME NEW path, NEW missing, NEW outcome
  PROVE  ~ Attempt(path, missing, outcome).selected
BY DEF Attempt

\* Steps that import nothing and lose nothing keep the records in agreement.
LEMMA AgreeWhenQuiet ==
  ASSUME AllAgree, UNCHANGED <<world, imports, modes, paths, unresolved>>, Adds(attempts')
  PROVE  AllAgree'
<1> SUFFICES ASSUME NEW m \in Mods, NEW s \in Symbol PROVE Agree(m, s)'
  BY SameWorld DEF AllAgree
<1>1. Agree(m, s)
  BY DEF AllAgree
<1>3. /\ attempts[m][s] \subseteq attempts'[m][s]
      /\ \A a \in attempts'[m][s] : a \in attempts[m][s] \/ ~ a.selected
  BY DEF Adds
<1>4. ASSUME imports[m][s] # NoMod
      PROVE  /\ modes[m][s] \in {"Direct", "Alias", "Forwarded", "Partial"} /\ ~ Reported(m, s)
             /\ \E a \in attempts'[m][s] : a.selected /\ a.path = paths[m][s]
  BY <1>1, <1>3, <1>4, Zenon DEF Agree
<1>5. ASSUME imports[m][s] = NoMod
      PROVE  /\ modes[m][s] \in {NoMode, "Partial", "Unresolved"}
             /\ \A a \in attempts'[m][s] : ~ a.selected
  BY <1>1, <1>3, <1>5, Zenon DEF Agree
<1> QED
  BY <1>4, <1>5 DEF Agree, Reported

\* A step that settles the clauses J of the module at hand, and no other.
LEMMA ProgressKept ==
  ASSUME IInv, Progress, InProgress, UNCHANGED <<world, phase, mod>>,
         NEW J \in SUBSET Firsts(mod),
         \A i \in Firsts(mod) : Waits(i)' => Waits(i) /\ i \notin J,
         \A i \in Firsts(mod) : Waits(i) /\ ~ Waits(i)' => i \in J \/ SymbolAt(i) \in MacroNames,
         \A s \in Symbols(J) : imports'[mod][s] # NoMod \/ Reports(unresolved', mod, s),
         \A m \in Mods, s \in Symbol :
           m # mod \/ s \notin Symbols(J) =>
             /\ imports'[m][s] = imports[m][s]
             /\ Reports(unresolved', m, s) <=> Reports(unresolved, m, s)
  PROVE  Progress'
<1>1. /\ Mods' = Mods /\ (\A m : Clauses(m)' = Clauses(m)) /\ \A m : Firsts(m)' = Firsts(m)
      /\ \A i : SymbolAt(i)' = SymbolAt(i)
  BY SameWorld DEF Firsts, IsFirst, Clauses, SymbolAt
<1>2. mod \in Mods /\ phase = "imports" /\ phase' = "imports" /\ world \in Worlds
      /\ mod \in Nat /\ mod # 0 /\ Mods \subseteq Nat
  BY GroupFacts, WorldType DEF IInv, TypeOK, InProgress
<1>3. \A m \in Mods : \A i \in Firsts(m) : Clauses(m)[i].symbol \in Symbol
  BY <1>2, ClauseType DEF Firsts
<1>4. ASSUME NEW m \in Mods, m > mod', NEW s \in Symbol
      PROVE  Untouched(m, s)'
  <2>1. m > mod /\ m # mod
    BY <1>2, <1>4
  <2> QED
    BY <2>1 DEF Progress, Untouched, Reported
<1>5. ASSUME NEW m \in Mods, m < mod', NEW i \in Firsts(m), NEW s \in Symbol,
             s = Clauses(m)[i].symbol
      PROVE  Settled(m, s)'
  <2>1. m < mod /\ m # mod
    BY <1>2, <1>5
  <2>2. Settled(m, s)
    BY <1>5, <2>1 DEF Progress
  <2> QED
    BY <2>1, <2>2 DEF Settled, Reported
<1>6. ASSUME NEW i \in Firsts(mod), NEW s \in Symbol, s = SymbolAt(i)
      PROVE  IF Waits(i)' THEN Untouched(mod, s)' ELSE Settled(mod, s)'
  <2>2. IF Waits(i) THEN Untouched(mod, s) ELSE Settled(mod, s)
    BY <1>2, <1>6 DEF Progress
  <2>3. i \notin J => s \notin Symbols(J)
    <3>1. ASSUME NEW j \in J, SymbolAt(j) = s
          PROVE  j = i
      <4>1. j \in Firsts(mod) /\ Clauses(mod)[j].symbol = Clauses(mod)[i].symbol
        BY <1>6, <3>1 DEF SymbolAt
      <4> QED
        BY <1>2, <4>1, FirstIsUnique
    <3> QED
      BY <3>1 DEF Symbols
  <2>4. i \notin J => /\ imports'[mod][s] = imports[mod][s]
                      /\ Reports(unresolved', mod, s) <=> Reports(unresolved, mod, s)
    BY <1>2, <2>3
  <2>5. CASE Waits(i)'
    <3>1. Waits(i) /\ i \notin J
      BY <2>5
    <3>2. Untouched(mod, s)
      BY <2>2, <3>1
    <3>3. Untouched(mod, s)'
      BY <2>4, <3>1, <3>2 DEF Untouched, Reported
    <3> QED
      BY <2>5, <3>3
  <2>6. CASE ~ Waits(i)' /\ i \in J
    <3>1. s \in Symbols(J)
      BY <1>6, <2>6 DEF Symbols
    <3> QED
      BY <2>6, <3>1 DEF Settled, Reported
  <2>7. CASE ~ Waits(i)' /\ i \notin J
    <3>1. Settled(mod, s)
      BY <1>6, <2>2, <2>7 DEF Settled
    <3> QED
      BY <2>4, <2>7, <3>1 DEF Settled, Reported
  <2> QED
    BY <2>5, <2>6, <2>7
<1>7. \A m \in Mods : m < mod' => \A i \in Firsts(m) : Settled(m, Clauses(m)[i].symbol)'
  <2> SUFFICES ASSUME NEW m \in Mods, m < mod', NEW i \in Firsts(m)
               PROVE  Settled(m, Clauses(m)[i].symbol)'
    OBVIOUS
  <2>1. PICK s \in Symbol : s = Clauses(m)[i].symbol
    BY <1>3
  <2>2. s = (Clauses(m)[i].symbol)'
    BY <1>1, <2>1
  <2>3. Settled(m, s)'
    BY <1>5, <2>1
  <2> QED
    BY <2>2, <2>3
<1>8. \A i \in Firsts(mod) :
        IF Waits(i)' THEN Untouched(mod, SymbolAt(i))' ELSE Settled(mod, SymbolAt(i))'
  <2> SUFFICES ASSUME NEW i \in Firsts(mod)
               PROVE  IF Waits(i)' THEN Untouched(mod, SymbolAt(i))'
                                   ELSE Settled(mod, SymbolAt(i))'
    OBVIOUS
  <2>1. PICK s \in Symbol : s = SymbolAt(i)
    BY <1>2, <1>3 DEF SymbolAt
  <2>2. s = SymbolAt(i)'
    BY <1>1, <2>1
  <2>3. IF Waits(i)' THEN Untouched(mod, s)' ELSE Settled(mod, s)'
    BY <1>6, <2>1
  <2> QED
    BY <2>2, <2>3
<1> QED
  BY <1>1, <1>2, <1>4, <1>7, <1>8 DEF Progress

\* The attempt that found the path is selected, and none other becomes so unless taken.
LEMMA SelectMarks ==
  ASSUME NEW S, \A a \in S : a \in AttemptType, NEW p
  PROVE  /\ \A a \in S : a.selected => \E b \in Select(S, p) : b.selected /\ b.path = a.path
         /\ \A a \in S : a.outcome = "Resolved" /\ a.path = p /\ a.stage = stage =>
              \E b \in Select(S, p) : b.selected /\ b.path = p
<1> DEFINE ok(a) == a.outcome = "Resolved" /\ a.path = p /\ a.stage = stage
           mark(a) == [a EXCEPT !.selected = a.selected \/ ok(a)]
<1>1. Select(S, p) = {mark(a) : a \in S}
  BY DEF Select
<1>2. ASSUME NEW a \in S
      PROVE  mark(a).path = a.path /\ (mark(a).selected <=> a.selected \/ ok(a))
  <2>1. a \in AttemptType
    OBVIOUS
  <2>2. /\ mark(a).path = a.path /\ mark(a).selected = (a.selected \/ ok(a))
    <3> HIDE DEF ok
    <3> QED
      BY <2>1 DEF AttemptType
  <2> QED
    BY <2>2, Zenon
<1> HIDE DEF mark
<1>3. ASSUME NEW a \in S, a.selected
      PROVE  \E b \in Select(S, p) : b.selected /\ b.path = a.path
  <2>1. mark(a) \in Select(S, p)
    BY <1>1
  <2>2. mark(a).selected /\ mark(a).path = a.path
    BY <1>2, <1>3
  <2> QED
    BY <2>1, <2>2
<1>4. ASSUME NEW a \in S, ok(a)
      PROVE  \E b \in Select(S, p) : b.selected /\ b.path = p
  <2>1. mark(a) \in Select(S, p)
    BY <1>1
  <2>2. mark(a).selected /\ mark(a).path = p
    BY <1>2, <1>4
  <2> QED
    BY <2>1, <2>2
<1> QED
  BY <1>3, <1>4, Zenon

\* Imports taken along paths that were found keep the records in agreement.
LEMMA TakeAgrees ==
  ASSUME IInv, AllAgree, mod \in Mods, NEW route, DOMAIN route \subseteq Symbol,
         \A s \in DOMAIN route : Leads(s, route[s]),
         NEW mode \in {"Direct", "Alias", "Forwarded", "Partial"},
         NEW tried, AttemptsOK(tried), Adds(tried), Take(route, mode, tried),
         UNCHANGED <<world, unresolved>>,
         \A s \in DOMAIN route :
           /\ ~ Reports(unresolved, mod, s)
           /\ \E a \in tried[mod][s] :
                a.outcome = "Resolved" /\ a.path = route[s] /\ a.stage = stage
  PROVE  /\ AllAgree'
         /\ \A s \in DOMAIN route : imports'[mod][s] # NoMod
         /\ \A m \in Mods, s \in Symbol :
              m # mod \/ s \notin DOMAIN route => imports'[m][s] = imports[m][s]
<1>1. \A s \in DOMAIN route : Target(route[s]) \in Mods /\ Target(route[s]) # NoMod
  <2>1. \A s \in DOMAIN route : route[s] \in Seq(Mods) /\ route[s] # <<>>
    BY DEF Leads, SoundPath
  <2>2. ASSUME NEW p \in Seq(Mods), p # <<>>
        PROVE  p[Len(p)] \in Mods
    <3>1. Len(p) \in Nat /\ Len(p) >= 1
      BY <2>2, EmptySeq, LenProperties
    <3> QED
      BY <3>1, ElementOfSeq
  <2>3. NoMod \notin Mods
    BY WorldType, ImportsAssumption DEF IInv, TypeOK
  <2> QED
    BY <2>1, <2>2, <2>3 DEF Target
<1>2. imports \in [Mods -> [Symbol -> Mods \cup {NoMod}]]
      /\ modes \in [Mods -> [Symbol -> Modes]] /\ paths \in [Mods -> [Symbol -> Seq(Mods)]]
      /\ DOMAIN tried = Mods
  BY DEF IInv, TypeOK, Tables, AttemptsOK
<1>3. /\ \A m \in Mods : m # mod => imports'[m] = imports[m] /\ modes'[m] = modes[m]
                                    /\ paths'[m] = paths[m] /\ attempts'[m] = tried[m]
      /\ \A s \in Symbol : s \notin DOMAIN route =>
           /\ imports'[mod][s] = imports[mod][s] /\ modes'[mod][s] = modes[mod][s]
           /\ paths'[mod][s] = paths[mod][s] /\ attempts'[mod][s] = tried[mod][s]
      /\ \A s \in DOMAIN route :
           /\ imports'[mod][s] = Target(route[s]) /\ modes'[mod][s] = mode
           /\ paths'[mod][s] = route[s] /\ attempts'[mod][s] = Select(tried[mod][s], route[s])
  <2>1. /\ \A m \in Mods : m # mod => imports'[m] = imports[m]
        /\ \A s \in Symbol : imports'[mod][s] =
             IF s \in DOMAIN route THEN Target(route[s]) ELSE imports[mod][s]
    BY <1>2 DEF Take, Put
  <2>2. /\ \A m \in Mods : m # mod => modes'[m] = modes[m]
        /\ \A s \in Symbol : modes'[mod][s] =
             IF s \in DOMAIN route THEN mode ELSE modes[mod][s]
    BY <1>2 DEF Take, Put
  <2>3. /\ \A m \in Mods : m # mod => paths'[m] = paths[m]
        /\ \A s \in Symbol : paths'[mod][s] =
             IF s \in DOMAIN route THEN route[s] ELSE paths[mod][s]
    BY <1>2 DEF Take, Put
  <2>4. attempts' = [tried EXCEPT ![mod] =
          [s \in Symbol |-> IF s \in DOMAIN route THEN Select(tried[mod][s], route[s])
                                                  ELSE tried[mod][s]]]
    BY DEF Take
  <2>5. /\ \A m \in Mods : m # mod => attempts'[m] = tried[m]
        /\ \A s \in Symbol : attempts'[mod][s] =
             IF s \in DOMAIN route THEN Select(tried[mod][s], route[s]) ELSE tried[mod][s]
    BY <1>2, <2>4
  <2> QED
    BY <2>1, <2>2, <2>3, <2>5
<1>4. ASSUME NEW m \in Mods, NEW s \in Symbol
      PROVE  Agree(m, s)'
  <2>1. Agree(m, s)
    BY DEF AllAgree
  <2>2. /\ attempts[m][s] \subseteq tried[m][s]
        /\ \A a \in tried[m][s] : a \in attempts[m][s] \/ ~ a.selected
    BY DEF Adds
  <2>3. CASE m # mod \/ s \notin DOMAIN route
    <3>1. /\ imports'[m][s] = imports[m][s] /\ modes'[m][s] = modes[m][s]
          /\ paths'[m][s] = paths[m][s] /\ attempts'[m][s] = tried[m][s]
      BY <1>3, <2>3
    <3>2. ASSUME imports[m][s] # NoMod
          PROVE  \E a \in tried[m][s] : a.selected /\ a.path = paths[m][s]
      BY <2>1, <2>2, <3>2, Zenon DEF Agree
    <3>3. ASSUME imports[m][s] = NoMod
          PROVE  \A a \in tried[m][s] : ~ a.selected
      BY <2>1, <2>2, <3>3, Zenon DEF Agree
    <3> QED
      BY <2>1, <3>1, <3>2, <3>3 DEF Agree, Reported
  <2>4. CASE m = mod /\ s \in DOMAIN route
    <3>1. /\ imports'[m][s] # NoMod /\ modes'[m][s] = mode /\ paths'[m][s] = route[s]
          /\ attempts'[m][s] = Select(tried[m][s], route[s])
      BY <1>1, <1>3, <2>4
    <3>2. \A a \in tried[m][s] : a \in AttemptType
      BY DEF AttemptsOK
    <3>3. \E a \in tried[m][s] :
            a.outcome = "Resolved" /\ a.path = route[s] /\ a.stage = stage
      BY <2>4
    <3>4. \E b \in Select(tried[m][s], route[s]) : b.selected /\ b.path = route[s]
      BY <3>2, <3>3, SelectMarks
    <3>5. ~ Reports(unresolved, m, s)
      BY <2>4
    <3> QED
      BY <3>1, <3>4, <3>5 DEF Agree, Reported
  <2> QED
    BY <2>3, <2>4
<1>5. AllAgree'
  BY <1>4, SameWorld DEF AllAgree
<1> QED
  BY <1>1, <1>3, <1>5

\* Symbols reported as lost that had not been imported keep the records in agreement.
LEMMA LostAgrees ==
  ASSUME IInv, AllAgree, mod \in Mods, NEW ss \in SUBSET Symbol, NEW reason,
         NEW mode \in {"Partial", "Unresolved"},
         modes' = Put(modes, [s \in ss |-> mode]), Lost(ss, reason), Adds(attempts'),
         UNCHANGED <<world, imports, paths>>, \A s \in ss : imports[mod][s] = NoMod
  PROVE  /\ AllAgree'
         /\ \A s \in ss : Reports(unresolved', mod, s)
         /\ \A m, s : m # mod \/ s \notin ss =>
              (Reports(unresolved', m, s) <=> Reports(unresolved, m, s))
<1>1. modes \in [Mods -> [Symbol -> Modes]]
  BY DEF IInv, TypeOK, Tables
<1>2. /\ \A m \in Mods : m # mod => modes'[m] = modes[m]
      /\ \A s \in Symbol : modes'[mod][s] = IF s \in ss THEN mode ELSE modes[mod][s]
  BY <1>1 DEF Put
<1>3. \A s \in ss : Reports(unresolved', mod, s)
  <2> SUFFICES ASSUME NEW s \in ss PROVE Reports(unresolved', mod, s)
    OBVIOUS
  <2>1. [module |-> mod, symbol |-> s, reason |-> reason] \in unresolved'
    BY DEF Lost
  <2> QED
    BY <2>1 DEF Reports
<1>4. ASSUME NEW m, NEW s, m # mod \/ s \notin ss
      PROVE  Reports(unresolved', m, s) <=> Reports(unresolved, m, s)
  <2>1. unresolved \subseteq unresolved' /\ \A u \in unresolved' :
          u \in unresolved \/ (u.module = mod /\ u.symbol \in ss)
    BY DEF Lost
  <2> QED
    BY <1>4, <2>1 DEF Reports
<1>5. ASSUME NEW m \in Mods, NEW s \in Symbol
      PROVE  Agree(m, s)'
  <2>1. Agree(m, s)
    BY DEF AllAgree
  <2>2. /\ attempts[m][s] \subseteq attempts'[m][s]
        /\ \A a \in attempts'[m][s] : a \in attempts[m][s] \/ ~ a.selected
    BY DEF Adds
  <2>3. ASSUME imports[m][s] # NoMod
        PROVE  /\ modes'[m][s] \in {"Direct", "Alias", "Forwarded", "Partial"}
               /\ ~ Reports(unresolved', m, s)
               /\ \E a \in attempts'[m][s] : a.selected /\ a.path = paths[m][s]
    <3>1. m # mod \/ s \notin ss
      BY <2>3
    <3>2. modes'[m][s] = modes[m][s] /\ ~ Reports(unresolved', m, s)
      BY <1>2, <1>4, <2>1, <2>3, <3>1 DEF Agree, Reported
    <3>3. \E a \in attempts'[m][s] : a.selected /\ a.path = paths[m][s]
      BY <2>1, <2>2, <2>3, Zenon DEF Agree
    <3> QED
      BY <2>1, <2>3, <3>2, <3>3 DEF Agree
  <2>4. ASSUME imports[m][s] = NoMod
        PROVE  /\ modes'[m][s] \in {NoMode, "Partial", "Unresolved"}
               /\ \A a \in attempts'[m][s] : ~ a.selected
    <3>1. \A a \in attempts'[m][s] : ~ a.selected
      BY <2>1, <2>2, <2>4, Zenon DEF Agree
    <3>2. modes'[m][s] = modes[m][s] \/ modes'[m][s] = mode
      BY <1>2
    <3> QED
      BY <2>1, <2>4, <3>1, <3>2 DEF Agree
  <2> QED
    BY <2>3, <2>4 DEF Agree, Reported
<1>6. AllAgree'
  BY <1>5, SameWorld DEF AllAgree
<1> QED
  BY <1>3, <1>4, <1>6

\* What the steps record of their attempts: the scores of the candidates, ...
LEMMA ScoredAdds ==
  ASSUME IInv, InProgress, NEW cs \in SUBSET Mods
  PROVE  /\ Adds(Scored(cs))
         /\ \A s \in Symbols(NonMacro), c \in cs : s \in Defs(c) =>
              Attempt(<<c>>, NoName, "Resolved") \in Scored(cs)[mod][s]
<1> DEFINE new == [s \in Symbols(NonMacro) |->
      {Attempt(<<c>>, NoName, IF s \in Defs(c) THEN "Resolved" ELSE "SymbolNotDefined") :
         c \in cs}]
<1>1. mod \in Mods /\ Symbols(NonMacro) \subseteq Symbol
  BY GroupFacts DEF IInv, InProgress
<1>2. \A s \in DOMAIN new : \A a \in new[s] : ~ a.selected
  <2> SUFFICES ASSUME NEW s \in Symbols(NonMacro), NEW c \in cs
               PROVE  ~ Attempt(<<c>>, NoName, IF s \in Defs(c) THEN "Resolved"
                                               ELSE "SymbolNotDefined").selected
    OBVIOUS
  <2> QED
    BY NotYetSelected
<1>3. \A s \in Symbols(NonMacro), c \in cs : s \in Defs(c) =>
        Attempt(<<c>>, NoName, "Resolved") \in new[s]
  OBVIOUS
<1>4. DOMAIN new = Symbols(NonMacro)
  OBVIOUS
<1> HIDE DEF new
<1>5. Adds(With(new)) /\ \A s \in DOMAIN new : new[s] \subseteq With(new)[mod][s]
  BY <1>1, <1>2, <1>4, WithAdds
<1>6. Scored(cs) = With(new)
  BY DEF Scored, new
<1> QED
  BY <1>3, <1>4, <1>5, <1>6

\* ... and the attempt along the path at hand.
LEMMA TriedAdds ==
  ASSUME IInv, Exploring, NEW missing, NEW outcome
  PROVE  /\ Adds(Tried(missing, outcome))
         /\ Attempt(Path, missing, outcome) \in Tried(missing, outcome)[mod][Sought]
<1> DEFINE new == [s \in {Sought} |-> {Attempt(Path, missing, outcome)}]
<1>1. mod \in Mods /\ Sought \in Symbol
  BY GroupFacts, SoughtIn DEF IInv, SearchOK, Exploring, InProgress
<1>2. \A s \in DOMAIN new : \A a \in new[s] : ~ a.selected
  BY NotYetSelected
<1>3. DOMAIN new = {Sought} /\ new[Sought] = {Attempt(Path, missing, outcome)}
  OBVIOUS
<1> HIDE DEF new
<1>4. Adds(With(new)) /\ \A s \in DOMAIN new : new[s] \subseteq With(new)[mod][s]
  BY <1>1, <1>2, <1>3, WithAdds
<1>5. Tried(missing, outcome) = With(new)
  BY DEF Tried, new
<1> QED
  BY <1>3, <1>4, <1>5

\* What waits changes with the stage, the group and its symbols alone.
LEMMA SameWaits ==
  ASSUME UNCHANGED <<world, mod, todo, stage>>, stage = "partial" => syms' = syms
  PROVE  \A i : Waits(i)' <=> Waits(i)
<1>1. Group' = Group
  BY DEF Group, FromModule, Clauses
<1> QED
  BY <1>1 DEF Waits

\* A step that settles nothing keeps the account.
LEMMA QuietKeeps ==
  ASSUME AInv, InProgress, Adds(attempts'),
         UNCHANGED <<world, phase, mod, imports, modes, paths, unresolved>>,
         \A i \in Firsts(mod) : Waits(i)' => Waits(i),
         \A i \in Firsts(mod) : Waits(i) /\ ~ Waits(i)' => SymbolAt(i) \in MacroNames
  PROVE  AllAgree' /\ Progress' /\ RecordAgrees'
<1>1. AllAgree'
  BY AgreeWhenQuiet DEF AInv
<1>2. Symbols({}) = {}
  BY DEF Symbols
<1>3. Progress'
  BY <1>2, ProgressKept DEF AInv
<1>4. RecordAgrees'
  BY DEF InProgress, RecordAgrees
<1> QED
  BY <1>1, <1>3, <1>4

\* The paths found stay found while the traversal goes on.
LEMMA FoundKept ==
  ASSUME AInv, InProgress, Adds(attempts'),
         UNCHANGED <<world, mod, todo, stage, cands, syms, found>>
  PROVE  FoundSoFar'
<1>1. NonMacro' = NonMacro /\ \A i : SymbolAt(i)' = SymbolAt(i)
  BY SameGroup DEF SymbolAt, Clauses
<1>2. mod \in Mods /\ \A s \in Symbols(NonMacro) : s \in Symbol
  BY GroupFacts DEF AInv, IInv, InProgress
<1>3. \A s \in DOMAIN found : s \in Symbol
  BY <1>2 DEF AInv, IInv, SearchOK
<1>4. \A s \in DOMAIN found : attempts[mod][s] \subseteq attempts'[mod][s]
  BY <1>2, <1>3 DEF Adds
<1> QED
  BY <1>1, <1>4 DEF AInv, FoundSoFar

LEMMA TraversalAccounted ==
  ASSUME AInv, Traverse \/ Cycle \/ NotImported \/ SourceMissing \/ Descend \/ Backtrack
  PROVE  AllAgree' /\ Progress' /\ RecordAgrees' /\ FoundSoFar'
<1>1. InProgress /\ UNCHANGED <<world, phase, mod, todo, stage, cands, syms, found, imports,
                               modes, paths, unresolved>>
  BY DEF Traverse, Cycle, NotImported, SourceMissing, DeadEnd, Descend, Backtrack, Exploring,
     result
<1>2. Adds(attempts')
  <2>1. CASE Traverse \/ Descend \/ Backtrack
    BY <2>1, NothingAdded DEF Traverse, Descend, Backtrack, result
  <2>2. CASE Cycle \/ NotImported \/ SourceMissing
    BY <2>2, TriedAdds DEF AInv, Cycle, NotImported, SourceMissing, DeadEnd
  <2> QED
    BY <2>1, <2>2
<1>3. \A i : Waits(i)' <=> Waits(i)
  BY <1>1, SameWaits
<1> QED
  BY <1>1, <1>2, <1>3, QuietKeeps, FoundKept

LEMMA FailsAccounted ==
  ASSUME AInv, DirectFails \/ AliasFails
  PROVE  AllAgree' /\ Progress' /\ RecordAgrees' /\ FoundSoFar'
<1>1. /\ InProgress /\ stage \in {"direct", "alias"} /\ stage' \in {"alias", "forwarding"}
      /\ UNCHANGED <<world, phase, mod, todo, found, imports, modes, paths, unresolved>>
      /\ syms' = NonMacro /\ found = <<>>
  BY DEF AInv, IInv, SearchOK, FoundSoFar, DirectFails, AliasFails, search
<1>2. Adds(attempts')
  <2>1. \A name : Versions(name) \in SUBSET Mods
    BY VersionsAreMods
  <2> QED
    BY <1>1, <2>1, ScoredAdds DEF AInv, DirectFails, AliasFails
<1>3. \A i : Waits(i)' <=> Waits(i)
  BY <1>1 DEF Waits
<1>4. NonMacro' = NonMacro
  BY <1>1, SameGroup
<1>5. FoundSoFar'
  BY <1>1, <1>4 DEF FoundSoFar
<1> QED
  BY <1>1, <1>2, <1>3, <1>5, QuietKeeps

LEMMA ForwarderFailsAccounted ==
  ASSUME AInv, ForwarderFails
  PROVE  AllAgree' /\ Progress' /\ RecordAgrees' /\ FoundSoFar'
<1>1. /\ InProgress /\ stage = "forwarding" /\ syms' = NonMacro /\ found' = <<>>
      /\ UNCHANGED <<world, phase, mod, todo, stage, imports, modes, paths, attempts, unresolved>>
  BY DEF ForwarderFails, TraversalFails, result
<1>2. Adds(attempts')
  BY <1>1, NothingAdded
<1>3. \A i : Waits(i)' <=> Waits(i)
  BY <1>1, SameWaits
<1>4. NonMacro' = NonMacro
  BY <1>1, SameGroup
<1>5. FoundSoFar'
  BY <1>1, <1>4 DEF FoundSoFar
<1> QED
  BY <1>1, <1>2, <1>3, <1>5, QuietKeeps

LEMMA ForwardFoundAccounted ==
  ASSUME AInv, ForwardFound
  PROVE  AllAgree' /\ Progress' /\ RecordAgrees' /\ FoundSoFar'
<1>1. /\ InProgress /\ Exploring /\ stage = "forwarding" /\ syms # {} /\ stack # <<>>
      /\ syms' = syms \ {Min(syms)} /\ attempts' = Tried(NoName, "Resolved")
      /\ UNCHANGED <<world, phase, mod, todo, stage, cands, imports, modes, paths, unresolved>>
  BY DEF ForwardFound, Exploring, AInv, IInv, SearchOK
<1>2. Adds(attempts') /\ Attempt(Path, NoName, "Resolved") \in attempts'[mod][Sought]
  BY <1>1, TriedAdds DEF AInv
<1>3. \A i : Waits(i)' <=> Waits(i)
  BY <1>1, SameWaits
<1>4. NonMacro' = NonMacro /\ \A i : SymbolAt(i)' = SymbolAt(i)
  BY <1>1, SameGroup DEF SymbolAt, Clauses
<1>5. /\ DOMAIN found' = DOMAIN found \cup {Sought} /\ found'[Sought] = Path
      /\ \A s \in DOMAIN found : s # Sought => found'[s] = found[s]
  BY DEF ForwardFound
<1>6. FoundSoFar'
  <2>1. cands # {}
    BY <1>1 DEF AInv, Underway
  <2>2. \A i \in NonMacro : i \in syms' \/ SymbolAt(i) \in DOMAIN found'
    BY <1>1, <1>5 DEF AInv, FoundSoFar, Sought
  <2>3. mod \in Mods /\ \A s \in DOMAIN found : s \in Symbol
    BY <1>1, GroupFacts DEF AInv, IInv, SearchOK
  <2>4. ASSUME NEW s \in DOMAIN found'
        PROVE  \E a \in attempts'[mod][s] :
                 a.outcome = "Resolved" /\ a.path = found'[s] /\ a.stage = "forwarding"
    <3>1. CASE s = Sought
      <4>1. LET a == Attempt(Path, NoName, "Resolved")
            IN a.outcome = "Resolved" /\ a.path = Path /\ a.stage = "forwarding"
        BY <1>1 DEF Attempt
      <4> QED
        BY <1>2, <1>5, <3>1, <4>1
    <3>2. CASE s # Sought
      <4>1. s \in DOMAIN found /\ found'[s] = found[s]
        BY <1>5, <3>2
      <4>2. attempts[mod][s] \subseteq attempts'[mod][s]
        BY <1>2, <2>3, <4>1 DEF Adds
      <4> QED
        BY <1>1, <4>1, <4>2 DEF AInv, FoundSoFar
    <3> QED
      BY <3>1, <3>2
  <2> QED
    BY <1>1, <1>4, <2>1, <2>2, <2>4 DEF FoundSoFar
<1> QED
  BY <1>1, <1>2, <1>3, <1>6, QuietKeeps

LEMMA PartialAccounted ==
  ASSUME AInv, Partial
  PROVE  AllAgree' /\ Progress' /\ RecordAgrees' /\ FoundSoFar'
<1>1. /\ InProgress /\ stage = "forwarding" /\ stage' = "partial" /\ syms = NonMacro
      /\ UNCHANGED <<world, phase, mod, todo, syms, imports, modes, paths, attempts, unresolved>>
  BY DEF Partial, NoForwarder, AInv, FoundSoFar, result
<1>2. Adds(attempts')
  BY <1>1, NothingAdded
<1>3. Group' = Group
  BY <1>1 DEF Group, FromModule, Clauses
<1>4. \A i : /\ Waits(i)' => Waits(i)
             /\ Waits(i) /\ ~ Waits(i)' => SymbolAt(i) \in MacroNames
  BY <1>1, <1>3 DEF Waits, NonMacro
<1>5. FoundSoFar'
  BY <1>1 DEF FoundSoFar
<1> QED
  BY <1>1, <1>2, <1>4, <1>5, QuietKeeps

\* The symbols of a group are not in the tables before the group is resolved, ...
LEMMA GroupUntouched ==
  ASSUME AInv, InProgress, stage # "partial", NEW s \in Symbols(NonMacro)
  PROVE  imports[mod][s] = NoMod /\ ~ Reports(unresolved, mod, s)
<1>1. PICK i \in NonMacro : s = SymbolAt(i)
  BY DEF Symbols
<1>2. i \in Firsts(mod) /\ i \in todo /\ mod # 0
  BY WorldType, GroupFacts DEF AInv, IInv, TypeOK, InProgress, NonMacro, Group
<1>3. Waits(i)
  BY <1>2 DEF Waits
<1> QED
  BY <1>1, <1>2, <1>3 DEF AInv, Progress, Untouched, Reported

\* ... and a symbol is not before it is traversed on its own.
LEMMA SoughtUntouched ==
  ASSUME AInv, InProgress, syms # {}
  PROVE  /\ imports[mod][Sought] = NoMod /\ ~ Reports(unresolved, mod, Sought)
         /\ Min(syms) \in Firsts(mod) /\ Min(syms) \in Group /\ Min(syms) \in syms
<1>1. Min(syms) \in NonMacro /\ Min(syms) \in Firsts(mod) /\ mod # 0
  BY SoughtIn, GroupFacts, WorldType DEF AInv, IInv, TypeOK, InProgress
<1>2. Min(syms) \in syms
  BY <1>1, GroupFacts, MinIn DEF AInv, IInv, TypeOK, InProgress
<1>3. Waits(Min(syms)) /\ Min(syms) \in Group
  BY <1>1, <1>2 DEF Waits, NonMacro, Group
<1> QED
  BY <1>1, <1>2, <1>3 DEF AInv, Progress, Untouched, Reported, Sought

\* A group that ends takes its clauses with it.
LEMMA EndGroupWaits ==
  ASSUME EndGroup, UNCHANGED <<world, mod>>
  PROVE  /\ \A i : Waits(i)' <=> i \in todo /\ i \notin Group
         /\ FoundSoFar'
BY DEF EndGroup, Waits, FoundSoFar

\* A group that ends with every symbol settled keeps the account.
LEMMA EndGroupSettles ==
  ASSUME AInv, InProgress, EndGroup, UNCHANGED <<world, phase, mod>>,
         \A s \in Symbols(NonMacro) : imports'[mod][s] # NoMod \/ Reports(unresolved', mod, s),
         \A m \in Mods, s \in Symbol : m # mod \/ s \notin Symbols(NonMacro) =>
           /\ imports'[m][s] = imports[m][s]
           /\ Reports(unresolved', m, s) <=> Reports(unresolved, m, s)
  PROVE  Progress' /\ RecordAgrees' /\ FoundSoFar'
<1>1. \A i : Waits(i)' <=> i \in todo /\ i \notin Group
  BY EndGroupWaits
<1>2. NonMacro \in SUBSET Firsts(mod) /\ NonMacro \subseteq Group
  BY GroupFacts DEF AInv, IInv, InProgress, NonMacro
<1>3. \A i \in Firsts(mod) : Waits(i)' => Waits(i) /\ i \notin NonMacro
  BY <1>1, <1>2 DEF Waits
<1>4. \A i \in Firsts(mod) : Waits(i) /\ ~ Waits(i)' =>
        i \in NonMacro \/ SymbolAt(i) \in MacroNames
  BY <1>1 DEF Waits, NonMacro
<1>5. Progress'
  BY <1>2, <1>3, <1>4, ProgressKept DEF AInv
<1> QED
  BY <1>5, EndGroupWaits DEF InProgress, RecordAgrees

LEMMA MacrosAccounted ==
  ASSUME AInv, MacrosOnly \/ PartialDone
  PROVE  AllAgree' /\ Progress' /\ RecordAgrees' /\ FoundSoFar'
<1>1. /\ InProgress /\ EndGroup
      /\ UNCHANGED <<world, phase, mod, imports, modes, paths, attempts, unresolved>>
  BY DEF MacrosOnly, PartialDone, result
<1>2. Adds(attempts')
  BY <1>1, NothingAdded
<1>3. \A i : Waits(i)' <=> i \in todo /\ i \notin Group
  BY <1>1, EndGroupWaits
<1>4. \A i : /\ Waits(i)' => Waits(i)
             /\ Waits(i) /\ ~ Waits(i)' => SymbolAt(i) \in MacroNames
  <2>1. CASE MacrosOnly
    BY <1>3, <2>1 DEF Waits, MacrosOnly, NonMacro
  <2>2. CASE PartialDone
    BY <1>3, <2>2 DEF Waits, PartialDone
  <2> QED
    BY <2>1, <2>2
<1> QED
  BY <1>1, <1>2, <1>4, QuietKeeps, EndGroupWaits

LEMMA FoundWholeAccounted ==
  ASSUME AInv, InProgress, stage # "partial", NEW cs \in SUBSET Mods,
         NEW mode \in {"Direct", "Alias"}, \A c \in cs : LeadsTo(FromModule, c),
         FoundWhole(cs, mode)
  PROVE  AllAgree' /\ Progress' /\ RecordAgrees' /\ FoundSoFar'
<1> DEFINE c == Newest(Complete(cs))
           route == [s \in Symbols(NonMacro) |-> <<c>>]
<1>1. c \in cs /\ Symbols(NonMacro) \subseteq Defs(c) /\ c \in Mods
  <2>1. Complete(cs) \in SUBSET Mods /\ Complete(cs) # {}
    BY DEF Complete, FoundWhole
  <2>2. c \in Complete(cs)
    BY <2>1, NewestIn DEF AInv, IInv, TypeOK
  <2> QED
    BY <2>2 DEF Complete
<1> HIDE DEF c
<1>2. mod \in Mods /\ Symbols(NonMacro) \subseteq Symbol
      /\ \A s \in Symbols(NonMacro) : Source(mod, s) = FromModule
  BY GroupFacts DEF AInv, IInv, InProgress
<1>3. \A s \in DOMAIN route : Leads(s, route[s])
  <2>1. <<c>> \in Seq(Mods) /\ <<c>> # <<>> /\ Len(<<c>>) = 1 /\ <<c>>[1] = c
    BY <1>1
  <2>2. ASSUME NEW s \in Symbols(NonMacro)
        PROVE  SoundPath(mod, s, <<c>>)
    BY <1>1, <1>2, <2>1 DEF SoundPath
  <2> QED
    BY <1>1, <2>1, <2>2 DEF Leads
<1>4. AttemptsOK(Scored(cs)) /\ Adds(Scored(cs))
  BY ScoredKeeps, ScoredAdds DEF AInv
<1>5. DOMAIN route = Symbols(NonMacro) /\ \A s \in Symbols(NonMacro) : route[s] = <<c>>
  OBVIOUS
<1>6. /\ Take(route, mode, Scored(cs)) /\ EndGroup
      /\ UNCHANGED <<world, phase, mod, unresolved>>
  BY DEF FoundWhole, c
<1> HIDE DEF route
<1>7. \A s \in DOMAIN route :
        /\ ~ Reports(unresolved, mod, s)
        /\ \E a \in Scored(cs)[mod][s] :
             a.outcome = "Resolved" /\ a.path = route[s] /\ a.stage = stage
  <2> SUFFICES ASSUME NEW s \in Symbols(NonMacro)
               PROVE  /\ ~ Reports(unresolved, mod, s)
                      /\ \E a \in Scored(cs)[mod][s] :
                           a.outcome = "Resolved" /\ a.path = <<c>> /\ a.stage = stage
    BY <1>5
  <2>1. Attempt(<<c>>, NoName, "Resolved") \in Scored(cs)[mod][s]
    BY <1>1, ScoredAdds DEF AInv
  <2>2. LET a == Attempt(<<c>>, NoName, "Resolved")
        IN a.outcome = "Resolved" /\ a.path = <<c>> /\ a.stage = stage
    BY DEF Attempt
  <2> QED
    BY <2>1, <2>2, GroupUntouched
<1>8. /\ AllAgree'
      /\ \A s \in DOMAIN route : imports'[mod][s] # NoMod
      /\ \A m \in Mods, s \in Symbol :
           m # mod \/ s \notin DOMAIN route => imports'[m][s] = imports[m][s]
  BY <1>2, <1>3, <1>4, <1>5, <1>6, <1>7, TakeAgrees DEF AInv
<1> QED
  BY <1>5, <1>6, <1>8, EndGroupSettles

LEMMA ForwardAccounted ==
  ASSUME AInv, Forward
  PROVE  AllAgree' /\ Progress' /\ RecordAgrees' /\ FoundSoFar'
<1>1. /\ InProgress /\ stage = "forwarding" /\ syms = {} /\ EndGroup
      /\ Take(found, "Forwarded", attempts) /\ UNCHANGED <<world, phase, mod, unresolved>>
  BY DEF Forward
<1>2. mod \in Mods /\ Symbols(NonMacro) \subseteq Symbol
  BY <1>1, GroupFacts DEF AInv, IInv, InProgress
<1>3. DOMAIN found = Symbols(NonMacro) /\ \A s \in DOMAIN found : Leads(s, found[s])
  BY <1>1 DEF AInv, IInv, SearchOK, FoundSoFar, Symbols
<1>4. AttemptsOK(attempts) /\ Adds(attempts)
  BY DEF AInv, IInv, TypeOK, Tables, AttemptsOK, AttemptType, Adds
<1>5. \A s \in DOMAIN found :
        /\ ~ Reports(unresolved, mod, s)
        /\ \E a \in attempts[mod][s] :
             a.outcome = "Resolved" /\ a.path = found[s] /\ a.stage = stage
  BY <1>1, <1>3, GroupUntouched DEF AInv, FoundSoFar
<1>6. /\ AllAgree'
      /\ \A s \in DOMAIN found : imports'[mod][s] # NoMod
      /\ \A m \in Mods, s \in Symbol :
           m # mod \/ s \notin DOMAIN found => imports'[m][s] = imports[m][s]
  BY <1>1, <1>2, <1>3, <1>4, <1>5, TakeAgrees DEF AInv
<1> QED
  BY <1>1, <1>3, <1>6, EndGroupSettles

LEMMA ModuleNotFoundAccounted ==
  ASSUME AInv, ModuleNotFound
  PROVE  AllAgree' /\ Progress' /\ RecordAgrees' /\ FoundSoFar'
<1> DEFINE a == [Attempt(<<>>, FromModule, "ModuleNotFound") EXCEPT !.stage = "unresolved"]
           new == [s \in Symbols(NonMacro) |-> {a}]
<1>1. /\ InProgress /\ stage = "forwarding" /\ EndGroup
      /\ modes' = Put(modes, [s \in Symbols(NonMacro) |-> "Unresolved"])
      /\ attempts' = With(new) /\ Lost(Symbols(NonMacro), "ModuleNotFound")
      /\ UNCHANGED <<world, phase, mod, imports, paths>>
  BY DEF ModuleNotFound, NoForwarder
<1>2. mod \in Mods /\ Symbols(NonMacro) \in SUBSET Symbol
  BY <1>1, GroupFacts DEF AInv, IInv, InProgress
<1>3. Adds(attempts')
  <2>1. ~ a.selected
    BY DEF Attempt
  <2> HIDE DEF a
  <2>2. DOMAIN new \subseteq Symbol /\ \A s \in DOMAIN new : \A b \in new[s] : ~ b.selected
    BY <1>2, <2>1
  <2> HIDE DEF new
  <2> QED
    BY <1>1, <1>2, <2>2, WithAdds DEF AInv
<1>4. \A s \in Symbols(NonMacro) : imports[mod][s] = NoMod
  BY <1>1, GroupUntouched
<1> HIDE DEF new
<1>5. /\ AllAgree'
      /\ \A s \in Symbols(NonMacro) : Reports(unresolved', mod, s)
      /\ \A m, s : m # mod \/ s \notin Symbols(NonMacro) =>
           (Reports(unresolved', m, s) <=> Reports(unresolved, m, s))
  BY <1>1, <1>2, <1>3, <1>4, LostAgrees DEF AInv
<1> QED
  BY <1>1, <1>5, EndGroupSettles

\* A symbol traversed on its own is settled on its own.
LEMMA SoughtSettles ==
  ASSUME AInv, InProgress, stage = "partial", syms # {}, syms' = syms \ {Min(syms)},
         UNCHANGED <<world, phase, mod, todo, stage>>,
         imports'[mod][Sought] # NoMod \/ Reports(unresolved', mod, Sought),
         \A m \in Mods, s \in Symbol : m # mod \/ s # Sought =>
           /\ imports'[m][s] = imports[m][s]
           /\ Reports(unresolved', m, s) <=> Reports(unresolved, m, s)
  PROVE  Progress' /\ RecordAgrees' /\ FoundSoFar'
<1>1. Min(syms) \in Firsts(mod) /\ Min(syms) \in Group
  BY SoughtUntouched
<1>2. Group' = Group
  BY DEF Group, FromModule, Clauses
<1>3. \A i : Waits(i)' <=> Waits(i) /\ i # Min(syms)
  BY <1>1, <1>2 DEF Waits
<1>4. Symbols({Min(syms)}) = {Sought}
  BY DEF Symbols, Sought
<1>5. Progress'
  <2>1. {Min(syms)} \in SUBSET Firsts(mod)
    BY <1>1
  <2>2. \A i \in Firsts(mod) : Waits(i)' => Waits(i) /\ i \notin {Min(syms)}
    BY <1>3
  <2>3. \A i \in Firsts(mod) : Waits(i) /\ ~ Waits(i)' =>
          i \in {Min(syms)} \/ SymbolAt(i) \in MacroNames
    BY <1>3
  <2>4. /\ \A s \in Symbols({Min(syms)}) :
             imports'[mod][s] # NoMod \/ Reports(unresolved', mod, s)
        /\ \A m \in Mods, s \in Symbol : m # mod \/ s \notin Symbols({Min(syms)}) =>
             /\ imports'[m][s] = imports[m][s]
             /\ Reports(unresolved', m, s) <=> Reports(unresolved, m, s)
    BY <1>4
  <2> QED
    BY <2>1, <2>2, <2>3, <2>4, ProgressKept DEF AInv
<1> QED
  BY <1>5 DEF InProgress, RecordAgrees, FoundSoFar

LEMMA PartialFoundAccounted ==
  ASSUME AInv, PartialFound
  PROVE  AllAgree' /\ Progress' /\ RecordAgrees' /\ FoundSoFar'
<1> DEFINE route == [s \in {Sought} |-> Path]
<1>1. /\ InProgress /\ Exploring /\ stage = "partial" /\ syms # {} /\ Sought \in Defs(Pick)
      /\ syms' = syms \ {Min(syms)} /\ Take(route, "Partial", Tried(NoName, "Resolved"))
      /\ UNCHANGED <<world, phase, mod, todo, stage, unresolved>>
  BY DEF PartialFound, Exploring, AInv, IInv, SearchOK
<1>2. mod \in Mods /\ Sought \in Symbol
  BY <1>1, GroupFacts, SoughtIn DEF AInv, IInv, InProgress
<1>3. Leads(Sought, Path)
  BY <1>1, PathLeads DEF AInv, IInv
<1>4. /\ AttemptsOK(Tried(NoName, "Resolved")) /\ Adds(Tried(NoName, "Resolved"))
      /\ Attempt(Path, NoName, "Resolved") \in Tried(NoName, "Resolved")[mod][Sought]
  BY <1>1, TriedKeeps, TriedAdds DEF AInv, Outcomes
<1>5. LET a == Attempt(Path, NoName, "Resolved")
      IN a.outcome = "Resolved" /\ a.path = Path /\ a.stage = stage
  BY DEF Attempt
<1>6. ~ Reports(unresolved, mod, Sought)
  BY <1>1, SoughtUntouched
<1>7. DOMAIN route = {Sought} /\ route[Sought] = Path
  OBVIOUS
<1> HIDE DEF route
<1>8. /\ AllAgree'
      /\ \A s \in DOMAIN route : imports'[mod][s] # NoMod
      /\ \A m \in Mods, s \in Symbol :
           m # mod \/ s \notin DOMAIN route => imports'[m][s] = imports[m][s]
  <2>1. DOMAIN route \subseteq Symbol /\ \A s \in DOMAIN route : Leads(s, route[s])
    BY <1>2, <1>3, <1>7
  <2>2. \A s \in DOMAIN route :
          /\ ~ Reports(unresolved, mod, s)
          /\ \E a \in Tried(NoName, "Resolved")[mod][s] :
               a.outcome = "Resolved" /\ a.path = route[s] /\ a.stage = stage
    BY <1>4, <1>5, <1>6, <1>7
  <2> QED
    BY <1>1, <1>2, <1>4, <2>1, <2>2, TakeAgrees DEF AInv
<1> QED
  BY <1>1, <1>7, <1>8, SoughtSettles

LEMMA NotExportedAccounted ==
  ASSUME AInv, NotExported
  PROVE  AllAgree' /\ Progress' /\ RecordAgrees' /\ FoundSoFar'
<1>1. /\ InProgress /\ stage = "partial" /\ syms # {} /\ syms' = syms \ {Min(syms)}
      /\ modes' = Put(modes, [s \in {Sought} |-> "Partial"])
      /\ Lost({Sought}, "SymbolNotExported")
      /\ UNCHANGED <<world, phase, mod, todo, stage, imports, paths, attempts>>
  BY DEF NotExported, TraversalFails, AInv, IInv, SearchOK
<1>2. mod \in Mods /\ {Sought} \in SUBSET Symbol
  BY <1>1, GroupFacts, SoughtIn DEF AInv, IInv, InProgress
<1>3. Adds(attempts')
  BY <1>1, NothingAdded
<1>4. imports[mod][Sought] = NoMod
  BY <1>1, SoughtUntouched
<1>5. /\ AllAgree'
      /\ \A s \in {Sought} : Reports(unresolved', mod, s)
      /\ \A m, s : m # mod \/ s \notin {Sought} =>
           (Reports(unresolved', m, s) <=> Reports(unresolved, m, s))
  BY <1>1, <1>2, <1>3, <1>4, LostAgrees DEF AInv
<1> QED
  BY <1>1, <1>5, SoughtSettles

LEMMA NextModuleAccounted ==
  ASSUME AInv, NextModule
  PROVE  AllAgree' /\ Progress' /\ RecordAgrees' /\ FoundSoFar'
<1>1. /\ phase = "imports" /\ phase' = phase /\ todo = {} /\ mod' = mod + 1 /\ world' = world
      /\ todo' = Firsts(mod + 1) /\ stage = "direct" /\ stage' = stage
      /\ UNCHANGED <<imports, modes, paths, attempts, unresolved>>
  BY DEF NextModule, result, AInv, IInv, SearchOK
<1>2. mod \in Nat /\ world \in Worlds /\ Mods \subseteq Nat /\ mod + 1 \in Mods
      /\ \A m \in Mods : m # 0
  <2>1. mod \in 0 .. Len(world.modules) /\ world \in Worlds
    BY DEF AInv, IInv, TypeOK
  <2> QED
    BY <2>1, WorldType DEF NextModule
<1>3. /\ Mods' = Mods /\ (\A m : Clauses(m)' = Clauses(m)) /\ \A m : Firsts(m)' = Firsts(m)
  BY <1>1, SameWorld DEF Firsts, IsFirst, Clauses
<1>4. \A m \in Mods : \A i \in Firsts(m) : Clauses(m)[i].symbol \in Symbol
  BY <1>2, ClauseType DEF Firsts
<1>5. AllAgree'
  BY <1>1, NothingAdded, AgreeWhenQuiet DEF AInv
<1>6. ASSUME NEW m \in Mods, NEW s \in Symbol
      PROVE  /\ Untouched(m, s)' <=> Untouched(m, s)
             /\ Settled(m, s)' <=> Settled(m, s)
  BY <1>1 DEF Untouched, Settled, Reported
<1>7. ASSUME NEW m \in Mods, m > mod', NEW s \in Symbol
      PROVE  Untouched(m, s)'
  <2>1. m > mod
    BY <1>1, <1>2, <1>7
  <2> QED
    BY <1>6, <2>1 DEF AInv, Progress
<1>8. ASSUME NEW m \in Mods, m < mod', NEW i \in Firsts(m)
      PROVE  Settled(m, Clauses(m)[i].symbol)'
  <2>1. PICK s \in Symbol : s = Clauses(m)[i].symbol
    BY <1>4
  <2>2. s = (Clauses(m)[i].symbol)'
    BY <1>3, <2>1
  <2>3. CASE m < mod
    <3>1. Settled(m, s)
      BY <2>1, <2>3 DEF AInv, Progress
    <3> QED
      BY <1>6, <2>2, <3>1
  <2>4. CASE m = mod
    <3>1. ~ Waits(i)
      BY <1>1 DEF Waits
    <3>2. Settled(mod, SymbolAt(i))
      BY <1>2, <2>4, <3>1 DEF AInv, Progress
    <3>3. Settled(m, s)
      BY <2>1, <2>4, <3>2 DEF SymbolAt
    <3> QED
      BY <1>6, <2>2, <3>3
  <2> QED
    BY <1>1, <1>2, <1>8, <2>3, <2>4
<1>9. ASSUME NEW i \in Firsts(mod + 1)
      PROVE  Waits(i)' /\ Untouched(mod + 1, Clauses(mod + 1)[i].symbol)
  <2>1. Waits(i)'
    BY <1>1 DEF Waits
  <2>2. mod + 1 > mod
    BY <1>2
  <2> QED
    BY <1>2, <1>4, <2>1, <2>2 DEF AInv, Progress
<1>10. ASSUME NEW i \in Firsts(mod + 1)
       PROVE  Waits(i)' /\ Untouched(mod, SymbolAt(i))'
  <2>1. PICK s \in Symbol, m \in Mods : m = mod + 1 /\ s = Clauses(m)[i].symbol
    BY <1>2, <1>4
  <2>2. s = SymbolAt(i)' /\ m = mod'
    BY <1>1, <1>3, <2>1 DEF SymbolAt
  <2>3. Untouched(m, s)'
    BY <1>6, <1>9, <2>1
  <2> QED
    BY <1>9, <2>2, <2>3
<1>11. Progress'
  <2>1. \A i \in Firsts(mod)' : Waits(i)' /\ Untouched(mod, SymbolAt(i))'
    <3>1. Firsts(mod)' = Firsts(mod + 1)
      BY <1>1, <1>3
    <3> QED
      BY <1>10, <3>1
  <2> QED
    BY <1>1, <1>3, <1>7, <1>8, <2>1 DEF Progress
<1> QED
  BY <1>1, <1>5, <1>11 DEF RecordAgrees, FoundSoFar

\* After the last module the account is closed.
LEMMA ClosedAccount ==
  ASSUME AInv, UNCHANGED <<world, mod, todo, stage, search, imports, modes, paths, attempts,
                           unresolved>>,
         phase' # "imports" => mod = Len(world.modules) /\ todo = {}
  PROVE  AllAgree' /\ Progress' /\ FoundSoFar'
<1>1. UNCHANGED <<cands, syms, found, stack>>
  BY DEF search
<1>2. AllAgree'
  BY NothingAdded, AgreeWhenQuiet DEF AInv
<1>3. /\ Mods' = Mods /\ (\A m : Clauses(m)' = Clauses(m)) /\ (\A m : Firsts(m)' = Firsts(m))
      /\ \A i : SymbolAt(i)' = SymbolAt(i)
  BY SameWorld DEF Firsts, IsFirst, Clauses, SymbolAt
<1>4. \A m, s : /\ Untouched(m, s)' <=> Untouched(m, s)
                /\ Settled(m, s)' <=> Settled(m, s)
  BY DEF Untouched, Settled, Reported
<1>5. \A i : Waits(i)' <=> Waits(i)
  BY <1>1, SameWaits
<1>6. Progress'
  BY <1>3, <1>4, <1>5 DEF AInv, Progress, Untouched, Settled, Reported
<1>7. NonMacro' = NonMacro
  BY SameGroup
<1>8. FoundSoFar'
  BY <1>1, <1>3, <1>7 DEF AInv, FoundSoFar
<1> QED
  BY <1>2, <1>6, <1>8

LEMMA RecordAccounted == ASSUME AInv, Record PROVE AllAgree' /\ Progress' /\ RecordAgrees' /\ FoundSoFar'
<1>1. AllAgree' /\ Progress' /\ FoundSoFar'
  BY ClosedAccount DEF Record, result
<1>2. ASSUME NEW m \in Mods, NEW s \in Symbol
      PROVE  LET r == provenance'[m][s] IN
               /\ r.target = imports[m][s]
               /\ r.target = NoMod => r.mode \notin {"Direct", "Alias", "Forwarded"}
               /\ r.target # NoMod => r.mode \notin {"Unresolved", "Cycle"}
  <2>1. Agree(m, s)
    BY DEF AInv, AllAgree
  <2>2. provenance'[m][s] = IF modes[m][s] = NoMode THEN NoRecord
                            ELSE [mode |-> PublicMode(m, s), target |-> imports[m][s]]
    BY DEF Record
  <2>3. CASE imports[m][s] = NoMod
    <3>1. modes[m][s] \in {NoMode, "Partial", "Unresolved"}
      BY <2>1, <2>3 DEF Agree
    <3>2. PublicMode(m, s) \in {"Cycle", NoMode, "Partial", "Unresolved"}
      BY <3>1 DEF PublicMode
    <3> QED
      BY <2>2, <2>3, <3>2 DEF NoRecord, NoMode
  <2>4. CASE imports[m][s] # NoMod
    <3>1. modes[m][s] \in {"Direct", "Alias", "Forwarded", "Partial"}
      BY <2>1, <2>4 DEF Agree
    <3>2. PublicMode(m, s) = modes[m][s]
      BY <2>4 DEF PublicMode
    <3> QED
      BY <2>2, <2>4, <3>1, <3>2 DEF NoMode
  <2> QED
    BY <2>3, <2>4
<1>3. imports' = imports /\ Mods' = Mods
  BY SameWorld DEF Record, result
<1> QED
  BY <1>1, <1>2, <1>3 DEF RecordAgrees

LEMMA LaterAccounted ==
  ASSUME AInv, Collapse \/ CopyResolved
  PROVE  AllAgree' /\ Progress' /\ RecordAgrees' /\ FoundSoFar'
<1>1. /\ UNCHANGED <<world, mod, todo, stage, search, imports, modes, paths, attempts,
                     unresolved>>
      /\ phase # "imports"
  BY CollapseIsIdle DEF AInv, Collapse, CopyResolved, result
<1>2. AllAgree' /\ Progress' /\ FoundSoFar'
  BY <1>1, ClosedAccount DEF AInv, Progress
<1>3. Mods' = Mods
  BY <1>1, SameWorld
<1>4. CASE Collapse
  <2>1. provenance' = provenance
    BY <1>4 DEF Collapse
  <2> QED
    BY <1>1, <1>2, <1>3, <2>1 DEF AInv, RecordAgrees
<1>5. CASE CopyResolved
  <2>1. ASSUME NEW m \in Mods, NEW s \in Symbol
        PROVE  provenance'[m][s] = provenance[m][s]
    <3>1. provenance[m][s] \in [mode : Modes, target : Mods \cup {NoMod}]
      BY DEF AInv, IInv, TypeOK, Tables
    <3>2. provenance[m][s].target = imports[m][s]
      BY <1>1 DEF AInv, RecordAgrees
    <3>3. provenance'[m][s] = [provenance[m][s] EXCEPT !.target = imports[m][s]]
      BY <1>5 DEF CopyResolved
    <3> QED
      BY <3>1, <3>2, <3>3
  <2> QED
    BY <1>1, <1>2, <1>3, <2>1 DEF AInv, RecordAgrees
<1> QED
  BY <1>4, <1>5

LEMMA AInvNext == AInv /\ [Next]_vars => AInv'
<1> SUFFICES ASSUME AInv, [Next]_vars
             PROVE  AllAgree' /\ Progress' /\ RecordAgrees' /\ FoundSoFar'
  BY NextInv, UnderwayNext DEF AInv
<1>1. CASE UNCHANGED vars
  <2>1. AllAgree' /\ Progress' /\ FoundSoFar'
    BY <1>1, ClosedAccount DEF vars, result, AInv, Progress
  <2> QED
    BY <1>1, <2>1, SameWorld DEF vars, result, AInv, RecordAgrees
<1>2. CASE Direct
  <2>1. Versions(FromModule) \in SUBSET Mods /\ \A c \in Versions(FromModule) : LeadsTo(FromModule, c)
    BY VersionsAreMods DEF Versions, LeadsTo
  <2> QED
    BY <1>2, <2>1, FoundWholeAccounted DEF Direct
<1>3. CASE Alias
  <2>1. world.constrained
    BY <1>3 DEF Alias, AInv, IInv, SearchOK
  <2>2. /\ Versions(AliasOf[FromModule]) \in SUBSET Mods
        /\ \A c \in Versions(AliasOf[FromModule]) : LeadsTo(FromModule, c)
    BY <2>1, VersionsAreMods DEF Versions, LeadsTo
  <2> QED
    BY <1>3, <2>2, FoundWholeAccounted DEF Alias
<1>4. CASE NextModule \/ MacrosOnly \/ DirectFails \/ AliasFails \/ PartialDone
  BY <1>4, NextModuleAccounted, MacrosAccounted, FailsAccounted
<1>5. CASE Traverse \/ Cycle \/ NotImported \/ SourceMissing \/ Descend \/ Backtrack
  BY <1>5, TraversalAccounted
<1>6. CASE ForwardFound \/ ForwarderFails \/ Forward
  BY <1>6, ForwardFoundAccounted, ForwarderFailsAccounted, ForwardAccounted
<1>7. CASE Partial \/ PartialFound \/ NotExported \/ ModuleNotFound
  BY <1>7, PartialAccounted, PartialFoundAccounted, NotExportedAccounted,
     ModuleNotFoundAccounted
<1>8. CASE Record \/ Collapse \/ CopyResolved
  BY <1>8, RecordAccounted, LaterAccounted
<1> QED
  BY <1>1, <1>2, <1>3, <1>4, <1>5, <1>6, <1>7, <1>8 DEF Next

LEMMA AInvInit == Init => AInv
<1> SUFFICES ASSUME Init PROVE AInv
  OBVIOUS
<1>1. IInv /\ Underway /\ RecordAgrees /\ FoundSoFar
  BY InitInv DEF Init, Underway, RecordAgrees, FoundSoFar
<1>2. \A m \in Mods, s \in Symbol : Agree(m, s) /\ Untouched(m, s)
  BY DEF Init, PerSymbol, Agree, Untouched, Reported, Reports
<1>3. Mods \subseteq Nat /\ mod = 0 /\ (\A m \in Mods : ~ (m < 0)) /\ phase = "imports"
  BY WorldType DEF Init
<1>4. Progress
  BY <1>2, <1>3 DEF Progress
<1> QED
  BY <1>1, <1>2, <1>4 DEF AInv, AllAgree

\* When the phase is over every clause but a macro's is imported or reported, and not
\* both, and what the modules keep of it agrees with the attempts.
LEMMA AccountIsClosed ==
  ASSUME AInv
  PROVE  Accounted
<1>1. ASSUME phase = "copied", NEW m \in Mods, NEW i \in Firsts(m)
      PROVE  LET s == Clauses(m)[i].symbol IN
               s \notin MacroNames =>
                 (imports[m][s] = NoMod) <=> \E u \in unresolved : u.module = m /\ u.symbol = s
  <2> DEFINE s == Clauses(m)[i].symbol
  <2>1. mod = Len(world.modules) /\ todo = {} /\ Mods = 1 .. Len(world.modules)
        /\ Len(world.modules) \in Nat /\ s \in Symbol
    BY <1>1, WorldType, ClauseType DEF AInv, IInv, TypeOK, Progress, Firsts
  <2>2. Settled(m, s)
    <3>1. CASE m < mod
      BY <3>1 DEF AInv, Progress
    <3>2. CASE m = mod
      <4>1. ~ Waits(i) /\ mod # 0
        BY <2>1, <3>2 DEF Waits
      <4> QED
        BY <3>2, <4>1 DEF AInv, Progress, SymbolAt
    <3> QED
      BY <2>1, <3>1, <3>2
  <2>3. Agree(m, s)
    BY <2>1 DEF AInv, AllAgree
  <2> QED
    BY <2>2, <2>3 DEF Settled, Agree, Reported, Reports
<1>2. phase # "imports" => TargetOnlyIfResolved
  <2> SUFFICES ASSUME phase # "imports", NEW m \in Mods, NEW s \in Symbol
               PROVE  LET r == provenance[m][s] IN
                      /\ r.mode \in {"Unresolved", "Cycle"} => r.target = NoMod
                      /\ r.mode \in {"Direct", "Alias", "Forwarded"} => r.target # NoMod
                      /\ r.target # NoMod <=>
                           \E a \in attempts[m][s] : a.selected /\ a.path = paths[m][s]
    BY Zenon DEF TargetOnlyIfResolved
  <2>1. /\ provenance[m][s].target = imports[m][s]
        /\ provenance[m][s].target = NoMod =>
             provenance[m][s].mode \notin {"Direct", "Alias", "Forwarded"}
        /\ provenance[m][s].target # NoMod => provenance[m][s].mode \notin {"Unresolved", "Cycle"}
    BY DEF AInv, RecordAgrees
  <2>2. Agree(m, s)
    BY DEF AInv, AllAgree
  <2>3. imports[m][s] # NoMod <=> \E a \in attempts[m][s] : a.selected /\ a.path = paths[m][s]
    BY <2>2, Zenon DEF Agree
  <2> QED
    BY <2>1, <2>3
<1> QED
  BY <1>1, <1>2 DEF Accounted

\* No import falls between the groups, the stages and the forwarders, and none is both
\* imported and reported: the tables a trace reads agree with each other.
THEOREM AccountedHolds == Spec => []Accounted
<1> QED
  BY AInvInit, AInvNext, AccountIsClosed, PTL DEF Spec

==============================================================================
