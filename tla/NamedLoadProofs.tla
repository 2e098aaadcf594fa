---------------------------- MODULE NamedLoadProofs ----------------------------
(***************************************************************************)
(* Proofs about NamedLoad, for every set of sources, modules and requests. *)
(*                                                                         *)
(* That the result is the selection of NamedSelection needs the two bounds *)
(* of the set of modules looked up: ClosureOwed says that nothing is left  *)
(* out, OnlyWanted that nothing is added.  ModulesFound and DocumentsRead  *)
(* tie the map and the interned documents to them.                         *)
(***************************************************************************)
EXTENDS NamedLoad, FiniteSetTheorems, TLAPS

(* Searches through the sources. *)

\* What the fields of a configured source are (the contract of Source in
\* src/src/source.rs).
LEMMA SourceFields ==
  ASSUME NEW src \in Worlds, NEW s \in SourceIdx
  PROVE  /\ src[s].listFails \in BOOLEAN
         /\ src[s].lists \in Seq(Module)
         /\ \A n \in Module : src[s].find[n] \in Seq(Doc \cup {IoError})
         /\ \A d \in Doc : src[s].holds[d] \in SUBSET Module
         /\ \A d \in Doc : \A n \in Module :
              src[s].imports[d][n] \in SUBSET Module
  BY SourcesAssumption DEF Source

\* A position names a source of T and one of its candidates for n.
LEMMA PositionParts ==
  ASSUME NEW src \in Worlds, NEW T \in SUBSET SourceIdx, NEW n \in Module,
         NEW p
  PROVE  p \in Positions(src, T, n) <=>
           \E s \in T, j \in Nat \ {0} :
             /\ p = <<s, j>>
             /\ j <= Len(src[s].find[n])
  <1>1. \A s \in T : Len(src[s].find[n]) \in Nat
    BY SourceFields
  <1> QED
    BY <1>1 DEF Positions

\* A position without a fault yields a candidate identity: a key.
LEMMA KeyAtType ==
  ASSUME NEW src \in Worlds, NEW T \in SUBSET SourceIdx, NEW n \in Module,
         NEW p \in Positions(src, T, n), ~ ReadFails(src, n, p)
  PROVE  /\ KeyAt(src, n, p) \in Key
         /\ Candidate(src, n, p) \in Doc
         /\ p[1] \in SourceIdx
  <1>1. PICK s \in T, j \in Nat \ {0} : p = <<s, j>> /\ j <= Len(src[s].find[n])
    BY PositionParts
  <1>2. src[s].find[n] \in Seq(Doc \cup {IoError})
    BY SourceFields
  <1>3. Candidate(src, n, p) \in Doc \cup {IoError}
    BY <1>1, <1>2 DEF Candidate
  <1> QED
    BY <1>1, <1>3 DEF ReadFails, KeyAt, Key

\* A failed search is reported as a fault of its source and name.
LEMMA FaultOfType ==
  ASSUME NEW src \in Worlds, NEW T \in SUBSET SourceIdx, NEW n \in Module,
         NEW p \in Positions(src, T, n)
  PROVE  FaultOf(src, n, p) \in Faults
  <1>1. p[1] \in SourceIdx
    BY PositionParts
  <1> QED
    BY <1>1 DEF FaultOf, Faults

\* Positions are linearly ordered, so a search ends at one position at most.
LEMMA SearchEndsOnce ==
  ASSUME NEW src \in Worlds, NEW T \in SUBSET SourceIdx, NEW n \in Module,
         NEW p, NEW q,
         Reached(src, T, n, p), Stops(src, n, p),
         Reached(src, T, n, q), Stops(src, n, q)
  PROVE  p = q
  <1>1. PICK s \in T, j \in Nat \ {0} : p = <<s, j>> /\ j <= Len(src[s].find[n])
    BY PositionParts DEF Reached
  <1>2. PICK r \in T, k \in Nat \ {0} : q = <<r, k>> /\ k <= Len(src[r].find[n])
    BY PositionParts DEF Reached
  <1>3. /\ ~ Before(p, q)
        /\ ~ Before(q, p)
    BY DEF Reached
  <1>4. s \in Nat /\ r \in Nat /\ j \in Nat /\ k \in Nat
    BY SourcesAssumption DEF SourceIdx
  <1> QED
    BY <1>1, <1>2, <1>3, <1>4 DEF Before

\* Where a search finds the module decides what the name resolves to.
LEMMA FindsResolves ==
  ASSUME NEW src \in Worlds, NEW T \in SUBSET SourceIdx, NEW n \in Module,
         NEW p, Finds(src, T, n, p)
  PROVE  \A key : Resolves(src, T, n, key) <=> key = KeyAt(src, n, p)
  <1>1. \A q : Finds(src, T, n, q) => q = p
    BY SearchEndsOnce DEF Finds, Stops
  <1>2. p \in Positions(src, T, n)
    BY DEF Finds, Reached
  <1> QED
    BY <1>1, <1>2 DEF Resolves

------------------------------------------------------------------------------
\* A loaded module comes from where its search ends.
ModulesFound ==
  \A n \in Loaded : \E p \in Positions(sources, SourceIdx, n) :
    /\ Finds(sources, SourceIdx, n, p)
    /\ modules[n] = KeyAt(sources, n, p)

\* The documents interned are the ones read for loaded modules, and others read
\* for wanted ones.
DocumentsRead ==
  /\ \A n \in Loaded : Visited(sources, SourceIdx, n) \subseteq documents
  /\ documents \subseteq VisitedFor(sources, Wanted(sources, requested))

FiniteLoad == IsFiniteSet(Loaded) /\ BoundedRecursion

IInv == /\ TypeOK
        /\ ClosureOwed
        /\ OnlyWanted
        /\ ModulesFound
        /\ DocumentsRead
        /\ FiniteLoad

------------------------------------------------------------------------------
LEMMA RootsType ==
  ASSUME NEW names \in Requests
  PROVE  Roots(names) \in Seq(Module)
  BY RequestsAssumption DEF Roots

LEMMA InitIInv == Init => IInv
  <1> SUFFICES ASSUME Init PROVE IInv
    OBVIOUS
  <1>1. roots \in Seq(Module)
    BY RootsType DEF Init
  <1>2. TypeOK
    BY <1>1 DEF Init, TypeOK, Outcomes
  <1>3. Loaded = {}
    BY DEF Init, Loaded
  <1>4. ClosureOwed
    BY <1>3 DEF Init, ClosureOwed, NotOwed, Outstanding, IsRoot
  <1>5. OnlyWanted
    BY <1>1, <1>3 DEF Init, OnlyWanted, Outstanding, ClosedUnderImports,
                      IsRoot
  <1>6. ModulesFound /\ DocumentsRead
    BY <1>3 DEF Init, ModulesFound, DocumentsRead
  <1>7. FiniteLoad
    BY <1>3, FS_EmptySet DEF Init, FiniteLoad, BoundedRecursion
  <1> QED
    BY <1>2, <1>4, <1>5, <1>6, <1>7 DEF IInv

------------------------------------------------------------------------------
(* Calls of load_one. *)

\* The calls still to make when rs and st are left.
OutstandingIn(rs, st, m) ==
  \/ \E i \in 1 .. Len(rs) : rs[i] = m
  \/ \E i \in 1 .. Len(st) : m \in st[i]

\* A call of load_one(n) takes n, and nothing else, off what is outstanding.
Call(n, below) ==
  /\ outcome = Pending
  /\ UNCHANGED <<sources, requested>>
  /\ n \in Module
  /\ Outstanding(n)
  /\ below \in Seq(SUBSET Module)
  /\ roots' \in Seq(Module)
  /\ Len(below) <= Len(stack)
  /\ \A m \in Module : Outstanding(m) => m = n \/ OutstandingIn(roots', below, m)
  /\ \A m \in Module : OutstandingIn(roots', below, m) => Outstanding(m)
  /\ load_one(n, below)

LEMMA HeadOfSeq ==
  ASSUME NEW T, NEW q \in Seq(T), q # <<>>
  PROVE  /\ Head(q) = q[1] /\ Head(q) \in T
         /\ Len(q) \in Nat /\ Len(q) > 0
         /\ Tail(q) \in Seq(T)
         /\ Len(Tail(q)) = Len(q) - 1
         /\ \A i \in 1 .. Len(Tail(q)) : Tail(q)[i] = q[i + 1]
  OBVIOUS

LEMMA PushOnSeq ==
  ASSUME NEW T, NEW q \in Seq(T), NEW x \in T
  PROVE  /\ <<x>> \o q \in Seq(T)
         /\ Len(q) \in Nat
         /\ Len(<<x>> \o q) = Len(q) + 1
         /\ (<<x>> \o q)[1] = x
         /\ \A i \in 1 .. Len(q) : (<<x>> \o q)[i + 1] = q[i]
  OBVIOUS

LEMMA CallRootCalls ==
  ASSUME TypeOK, CallRoot
  PROVE  Call(Head(roots), <<>>)
  <1>1. roots \in Seq(Module) /\ stack \in Seq(SUBSET Module)
    BY DEF TypeOK
  <1>2. roots # <<>> /\ roots' = Tail(roots) /\ stack = <<>>
    BY DEF CallRoot
  <1>3. /\ Head(roots) = roots[1] /\ Head(roots) \in Module
        /\ Len(roots) \in Nat /\ Len(roots) > 0
        /\ roots' \in Seq(Module)
        /\ Len(roots') = Len(roots) - 1
        /\ \A i \in 1 .. Len(roots') : roots'[i] = roots[i + 1]
    BY <1>1, <1>2, HeadOfSeq
  <1>4. Outstanding(Head(roots))
    BY <1>3 DEF Outstanding
  <1>5. \A m \in Module : Outstanding(m) <=> \E i \in 1 .. Len(roots) : roots[i] = m
    BY <1>2 DEF Outstanding
  <1>6. \A m : OutstandingIn(roots', <<>>, m) <=>
                 \E i \in 1 .. Len(roots') : roots'[i] = m
    BY DEF OutstandingIn
  <1>7. ASSUME NEW i \in 1 .. Len(roots), roots[i] # Head(roots)
        PROVE  i - 1 \in 1 .. Len(roots') /\ roots'[i - 1] = roots[i]
    BY <1>3, <1>7
  <1>8. \A i \in 1 .. Len(roots') : i + 1 \in 1 .. Len(roots)
    BY <1>3
  <1>9. \A m \in Module :
          Outstanding(m) => m = Head(roots) \/ OutstandingIn(roots', <<>>, m)
    BY <1>5, <1>6, <1>7
  <1>10. \A m \in Module : OutstandingIn(roots', <<>>, m) => Outstanding(m)
    BY <1>3, <1>5, <1>6, <1>8
  <1> QED
    BY <1>2, <1>3, <1>4, <1>9, <1>10 DEF CallRoot, Call

LEMMA CallImportCalls ==
  ASSUME TypeOK, CallImport
  PROVE  \E dep \in Module, below \in Seq(SUBSET Module) : Call(dep, below)
  <1>1. roots \in Seq(Module) /\ stack \in Seq(SUBSET Module)
    BY DEF TypeOK
  <1>2. stack # <<>> /\ roots' = roots
    BY DEF CallImport
  <1>3. PICK dep \in Head(stack) :
          load_one(dep, <<Head(stack) \ {dep}>> \o Tail(stack))
    BY DEF CallImport
  <1> DEFINE x == Head(stack) \ {dep}
             below == <<x>> \o Tail(stack)
  <1>4. /\ Head(stack) = stack[1] /\ Head(stack) \in SUBSET Module
        /\ Len(stack) \in Nat /\ Len(stack) > 0
        /\ Tail(stack) \in Seq(SUBSET Module)
        /\ Len(Tail(stack)) = Len(stack) - 1
        /\ \A i \in 1 .. Len(Tail(stack)) : Tail(stack)[i] = stack[i + 1]
    BY <1>1, <1>2, HeadOfSeq
  <1>5. /\ below \in Seq(SUBSET Module)
        /\ Len(below) = Len(Tail(stack)) + 1
        /\ below[1] = x
        /\ \A i \in 1 .. Len(Tail(stack)) : below[i + 1] = Tail(stack)[i]
    BY <1>4, PushOnSeq
  <1>6. dep \in Module /\ Outstanding(dep)
    BY <1>3, <1>4 DEF Outstanding
  <1> HIDE DEF below
  <1>7. /\ Len(below) = Len(stack)
        /\ \A i \in 1 .. Len(stack) :
             below[i] = IF i = 1 THEN x ELSE stack[i]
    <2>1. Len(below) = Len(stack)
      BY <1>4, <1>5
    <2>2. ASSUME NEW i \in 2 .. Len(stack)
          PROVE  i - 1 \in 1 .. Len(Tail(stack)) /\ below[i] = stack[i]
      <3>1. i - 1 \in 1 .. Len(Tail(stack)) /\ (i - 1) + 1 = i
        BY <1>4
      <3> QED
        BY <1>4, <1>5, <3>1
    <2> QED
      BY <1>4, <1>5, <2>1, <2>2
  <1>8. \A m \in Module :
          Outstanding(m) => m = dep \/ OutstandingIn(roots', below, m)
    BY <1>2, <1>4, <1>7 DEF Outstanding, OutstandingIn
  <1>9. \A m \in Module : OutstandingIn(roots', below, m) => Outstanding(m)
    BY <1>2, <1>4, <1>7 DEF Outstanding, OutstandingIn
  <1>10. Call(dep, below)
    <2>1. load_one(dep, below)
      BY <1>3 DEF below
    <2> QED
      BY <1>1, <1>2, <1>4, <1>5, <1>6, <1>7, <1>8, <1>9, <2>1 DEF CallImport, Call
  <1> QED
    BY <1>5, <1>6, <1>10

------------------------------------------------------------------------------
(* What a call preserves, by how it goes. *)

\* What is loaded or outstanding is wanted.
LEMMA OutstandingWanted ==
  ASSUME TypeOK, OnlyWanted, NEW n \in Module, n \in Loaded \/ Outstanding(n)
  PROVE  n \in Wanted(sources, requested)
  BY DEF OnlyWanted, Wanted

\* The documents a search reads are keys.
LEMMA VisitedType ==
  ASSUME NEW src \in Worlds, NEW n \in Module
  PROVE  Visited(src, SourceIdx, n) \subseteq Key
  BY KeyAtType DEF Visited, Fault

LEMMA AlreadyLoadedIInv ==
  ASSUME IInv, NEW n, NEW below, Call(n, below), AlreadyLoaded(n, below)
  PROVE  IInv'
  <1>1. /\ UNCHANGED <<sources, requested, modules, documents, outcome>>
        /\ stack' = below /\ roots' \in Seq(Module)
        /\ below \in Seq(SUBSET Module)
        /\ Len(below) <= Len(stack)
        /\ n \in Loaded
    BY DEF Call, AlreadyLoaded
  <1>2. Loaded' = Loaded
    BY <1>1 DEF Loaded
  <1>3. \A m \in Module : /\ Outstanding(m) => m \in Loaded \/ Outstanding(m)'
                          /\ Outstanding(m)' => Outstanding(m)
    BY <1>1 DEF Call, Outstanding, OutstandingIn
  <1>4. TypeOK'
    BY <1>1 DEF IInv, TypeOK
  <1>5. ClosureOwed'
    <2>1. \A m \in Module : /\ Missing(m) => Missing(m)'
                            /\ NotOwed(m) => NotOwed(m)'
      BY <1>1, <1>2 DEF Missing, NotOwed, ImportsOf
    <2> QED
      BY <1>1, <1>2, <1>3, <2>1 DEF IInv, ClosureOwed
  <1>6. OnlyWanted'
    BY <1>1, <1>2, <1>3 DEF IInv, OnlyWanted
  <1>7. ModulesFound' /\ DocumentsRead'
    BY <1>1, <1>2 DEF IInv, ModulesFound, DocumentsRead
  <1>8. FiniteLoad'
    <2>1. Len(below) \in Nat /\ Len(stack) \in Nat /\ Cardinality(Loaded) \in Nat
      BY <1>1, FS_CardinalityType DEF IInv, TypeOK, FiniteLoad
    <2> QED
      BY <1>1, <1>2, <2>1 DEF IInv, FiniteLoad, BoundedRecursion
  <1> QED
    BY <1>4, <1>5, <1>6, <1>7, <1>8 DEF IInv

LEMMA SearchFailsIInv ==
  ASSUME IInv, NEW n, NEW below, Call(n, below), SearchFails(n)
  PROVE  IInv'
  <1>1. /\ UNCHANGED <<sources, requested, modules, documents>>
        /\ stack' = <<>> /\ roots' \in Seq(Module)
        /\ n \in Module
    BY DEF Call, SearchFails
  <1>2. PICK p \in Positions(sources, SourceIdx, n) :
          outcome' = Err(FaultOf(sources, n, p))
    BY DEF SearchFails
  <1>3. Loaded' = Loaded
    BY <1>1 DEF Loaded
  <1>4. \A m \in Module : Outstanding(m)' => Outstanding(m)
    BY <1>1 DEF Call, Outstanding, OutstandingIn
  <1>5. TypeOK'
    <2>1. FaultOf(sources, n, p) \in Faults
      BY <1>1, FaultOfType DEF IInv, TypeOK
    <2>2. outcome' \in Outcomes
      BY <1>2, <2>1 DEF Outcomes, Err
    <2> QED
      BY <1>1, <2>2 DEF IInv, TypeOK
  <1>6. ClosureOwed'
    BY <1>2 DEF ClosureOwed, Err
  <1>7. OnlyWanted'
    BY <1>1, <1>3, <1>4 DEF IInv, OnlyWanted
  <1>8. ModulesFound' /\ DocumentsRead'
    BY <1>1, <1>3 DEF IInv, ModulesFound, DocumentsRead
  <1>9. FiniteLoad'
    <2>1. Len(<<>>) = 0
      OBVIOUS
    <2>2. Cardinality(Loaded) \in Nat
      BY FS_CardinalityType DEF IInv, FiniteLoad
    <2> QED
      BY <1>1, <1>3, <2>1, <2>2 DEF IInv, FiniteLoad, BoundedRecursion
  <1> QED
    BY <1>5, <1>6, <1>7, <1>8, <1>9 DEF IInv

LEMMA NotFoundIInv ==
  ASSUME IInv, NEW n, NEW below, Call(n, below), NotFound(n, below)
  PROVE  IInv'
  <1>1. /\ UNCHANGED <<sources, requested, modules, outcome>>
        /\ documents' = documents \cup Visited(sources, SourceIdx, n)
        /\ Nowhere(sources, SourceIdx, n)
        /\ stack' = below /\ roots' \in Seq(Module)
        /\ below \in Seq(SUBSET Module)
        /\ Len(below) <= Len(stack)
        /\ n \in Module
    BY DEF Call, NotFound
  <1>2. Loaded' = Loaded
    BY <1>1 DEF Loaded
  <1>3. \A m \in Module : /\ Outstanding(m) => m = n \/ Outstanding(m)'
                          /\ Outstanding(m)' => Outstanding(m)
    BY <1>1 DEF Call, Outstanding, OutstandingIn
  <1>4. TypeOK'
    <2>1. documents' \in SUBSET Key
      BY <1>1, VisitedType DEF IInv, TypeOK
    <2> QED
      BY <1>1, <2>1 DEF IInv, TypeOK
  <1>5. ClosureOwed'
    <2>1. \A m \in Module : /\ Missing(m) => Missing(m)'
                            /\ NotOwed(m) => NotOwed(m)'
      BY <1>1, <1>2 DEF Missing, NotOwed, ImportsOf
    <2>2. Missing(n)'
      BY <1>1 DEF Missing
    <2> QED
      BY <1>1, <1>2, <1>3, <2>1, <2>2 DEF IInv, ClosureOwed
  <1>6. OnlyWanted'
    BY <1>1, <1>2, <1>3 DEF IInv, OnlyWanted
  <1>7. ModulesFound'
    BY <1>1, <1>2 DEF IInv, ModulesFound
  <1>8. DocumentsRead'
    <2>1. n \in Wanted(sources, requested)
      BY <1>1, OutstandingWanted DEF IInv, Call
    <2> QED
      BY <1>1, <1>2, <2>1 DEF IInv, DocumentsRead, VisitedFor
  <1>9. FiniteLoad'
    <2>1. Len(below) \in Nat /\ Len(stack) \in Nat /\ Cardinality(Loaded) \in Nat
      BY <1>1, FS_CardinalityType DEF IInv, TypeOK, FiniteLoad
    <2> QED
      BY <1>1, <1>2, <2>1 DEF IInv, FiniteLoad, BoundedRecursion
  <1> QED
    BY <1>4, <1>5, <1>6, <1>7, <1>8, <1>9 DEF IInv

LEMMA FoundIInv ==
  ASSUME IInv, NEW n, NEW below, Call(n, below), Found(n, below)
  PROVE  IInv'
  <1>1. /\ UNCHANGED <<sources, requested, outcome>>
        /\ documents' = documents \cup Visited(sources, SourceIdx, n)
        /\ roots' \in Seq(Module)
        /\ below \in Seq(SUBSET Module)
        /\ Len(below) <= Len(stack)
        /\ n \in Module /\ n \notin Loaded
    BY DEF Call, Found
  <1>2. PICK p \in Positions(sources, SourceIdx, n) :
          /\ Finds(sources, SourceIdx, n, p)
          /\ modules' = [modules EXCEPT ![n] = KeyAt(sources, n, p)]
          /\ stack' = <<ImportsOf(n, p)>> \o below
    BY DEF Found
  <1>3. /\ KeyAt(sources, n, p) \in Key
        /\ KeyAt(sources, n, p) # Absent
        /\ ImportsOf(n, p) \in SUBSET Module
    <2>1. sources \in Worlds
      BY DEF IInv, TypeOK
    <2>2. ~ ReadFails(sources, n, p)
      BY <1>2 DEF Finds, Hit, Fault
    <2>3. /\ KeyAt(sources, n, p) \in Key
          /\ Candidate(sources, n, p) \in Doc
          /\ p[1] \in SourceIdx
      BY <1>1, <2>1, <2>2, KeyAtType
    <2>4. ImportsOf(n, p) \in SUBSET Module
      BY <1>1, <2>1, <2>3, SourceFields DEF ImportsOf
    <2> QED
      BY <2>3, <2>4, AbsentAssumption
  <1>4. Loaded' = Loaded \cup {n}
    BY <1>1, <1>2, <1>3 DEF Loaded, IInv, TypeOK
  <1>5. /\ stack' \in Seq(SUBSET Module)
        /\ Len(below) \in Nat
        /\ Len(stack') = Len(below) + 1
        /\ stack'[1] = ImportsOf(n, p)
        /\ \A i \in 1 .. Len(below) : stack'[i + 1] = below[i]
    BY <1>1, <1>2, <1>3, PushOnSeq
  <1>6. \A m \in Module :
          Outstanding(m)' <=> \/ OutstandingIn(roots', below, m)
                              \/ m \in ImportsOf(n, p)
    <2>1. ASSUME NEW i \in 1 .. Len(stack'), i # 1
          PROVE  i - 1 \in 1 .. Len(below) /\ stack'[i] = below[i - 1]
      <3>1. i - 1 \in 1 .. Len(below) /\ (i - 1) + 1 = i
        BY <1>5, <2>1
      <3> QED
        BY <1>5, <3>1
    <2>2. \A i \in 1 .. Len(below) : i + 1 \in 1 .. Len(stack')
      BY <1>5
    <2>3. 1 \in 1 .. Len(stack')
      BY <1>5
    <2> QED
      BY <1>5, <2>1, <2>2, <2>3 DEF Outstanding, OutstandingIn
  <1>7. TypeOK'
    <2>1. documents' \in SUBSET Key
      BY <1>1, VisitedType DEF IInv, TypeOK
    <2>2. modules' \in [Module -> Key \cup {Absent}]
      BY <1>1, <1>2, <1>3 DEF IInv, TypeOK
    <2> QED
      BY <1>1, <1>5, <2>1, <2>2 DEF IInv, TypeOK
  <1>8. \A q : Finds(sources, SourceIdx, n, q) => q = p
    BY <1>1, <1>2, SearchEndsOnce DEF Finds, Stops, IInv, TypeOK
  <1>9. ClosureOwed'
    <2>1. outcome' = Pending /\ outcome = Pending
      BY <1>1 DEF Call
    <2>2. \A m \in Module : Missing(m) => Missing(m)'
      BY <1>1 DEF Missing
    <2>3. \A m \in Module : NotOwed(m) => NotOwed(m)' \/ m \in ImportsOf(n, p)
      BY <1>1, <1>4, <1>8 DEF NotOwed, ImportsOf
    <2>4. \A m \in Module : Outstanding(m) => m = n \/ Outstanding(m)'
      BY <1>6 DEF Call
    <2>5. \A m \in Module :
            m \in Loaded \/ Missing(m) \/ Outstanding(m) \/ NotOwed(m)
      BY <2>1 DEF IInv, ClosureOwed, Pending
    <2> QED
      BY <1>4, <1>6, <2>2, <2>3, <2>4, <2>5 DEF ClosureOwed
  <1>10. OnlyWanted'
    <2> SUFFICES ASSUME NEW C \in SUBSET Module,
                        ClosedUnderImports(sources, requested, C),
                        NEW m \in Module, m \in Loaded' \/ Outstanding(m)'
                 PROVE  m \in C
      BY <1>1 DEF OnlyWanted
    <2>1. n \in C
      BY DEF IInv, OnlyWanted, Call
    <2>2. ImportsOf(n, p) \subseteq C
      BY <1>2, <2>1 DEF ClosedUnderImports, ImportsOf
    <2> QED
      BY <1>4, <1>6, <2>1, <2>2 DEF IInv, OnlyWanted, Call
  <1>11. ModulesFound'
    <2>1. modules'[n] = KeyAt(sources, n, p)
      BY <1>1, <1>2 DEF IInv, TypeOK
    <2>2. \A m \in Loaded : modules'[m] = modules[m]
      BY <1>1, <1>2 DEF IInv, TypeOK, Loaded
    <2> QED
      BY <1>1, <1>2, <1>4, <2>1, <2>2 DEF IInv, ModulesFound
  <1>12. DocumentsRead'
    <2>1. n \in Wanted(sources, requested)
      BY <1>1, OutstandingWanted DEF IInv, Call
    <2> QED
      BY <1>1, <1>4, <2>1 DEF IInv, DocumentsRead, VisitedFor
  <1>13. FiniteLoad'
    <2>1. /\ IsFiniteSet(Loaded)
          /\ Cardinality(Loaded) \in Nat
          /\ IsFiniteSet(Loaded \cup {n})
          /\ Cardinality(Loaded \cup {n}) = Cardinality(Loaded) + 1
      BY <1>1, FS_CardinalityType, FS_AddElement DEF IInv, FiniteLoad
    <2>2. Len(stack) \in Nat
      BY DEF IInv, TypeOK
    <2> QED
      BY <1>1, <1>4, <1>5, <2>1, <2>2 DEF IInv, FiniteLoad, BoundedRecursion
  <1> QED
    BY <1>7, <1>9, <1>10, <1>11, <1>12, <1>13 DEF IInv

LEMMA CallIInv ==
  ASSUME IInv, NEW n, NEW below, Call(n, below)
  PROVE  IInv'
  BY AlreadyLoadedIInv, SearchFailsIInv, NotFoundIInv, FoundIInv
     DEF Call, load_one

LEMMA ReturnIInv ==
  ASSUME IInv, Return
  PROVE  IInv'
  <1>1. /\ UNCHANGED <<sources, requested, roots, modules, documents, outcome>>
        /\ stack \in Seq(SUBSET Module) /\ stack # <<>>
        /\ Head(stack) = {}
        /\ stack' = Tail(stack)
    BY DEF Return, IInv, TypeOK
  <1>2. /\ Head(stack) = stack[1]
        /\ Len(stack) \in Nat /\ Len(stack) > 0
        /\ stack' \in Seq(SUBSET Module)
        /\ Len(stack') = Len(stack) - 1
        /\ \A i \in 1 .. Len(stack') : stack'[i] = stack[i + 1]
    BY <1>1, HeadOfSeq
  <1>3. Loaded' = Loaded
    BY <1>1 DEF Loaded
  <1>4. \A m \in Module : Outstanding(m)' <=> Outstanding(m)
    <2>1. ASSUME NEW i \in 1 .. Len(stack), i # 1
          PROVE  i - 1 \in 1 .. Len(stack') /\ stack'[i - 1] = stack[i]
      <3>1. i - 1 \in 1 .. Len(stack') /\ (i - 1) + 1 = i
        BY <1>2, <2>1
      <3> QED
        BY <1>2, <3>1
    <2>2. \A i \in 1 .. Len(stack') : i + 1 \in 1 .. Len(stack)
      BY <1>2
    <2> QED
      BY <1>1, <1>2, <2>1, <2>2 DEF Outstanding
  <1>5. TypeOK'
    BY <1>1, <1>2 DEF IInv, TypeOK
  <1>6. ClosureOwed'
    <2>1. \A m \in Module : /\ Missing(m) => Missing(m)'
                            /\ NotOwed(m) => NotOwed(m)'
      BY <1>1, <1>3 DEF Missing, NotOwed, ImportsOf
    <2> QED
      BY <1>1, <1>3, <1>4, <2>1 DEF IInv, ClosureOwed
  <1>7. OnlyWanted'
    BY <1>1, <1>3, <1>4 DEF IInv, OnlyWanted
  <1>8. ModulesFound' /\ DocumentsRead'
    BY <1>1, <1>3 DEF IInv, ModulesFound, DocumentsRead
  <1>9. FiniteLoad'
    <2>1. Cardinality(Loaded) \in Nat
      BY FS_CardinalityType DEF IInv, FiniteLoad
    <2> QED
      BY <1>1, <1>2, <1>3, <2>1 DEF IInv, FiniteLoad, BoundedRecursion
  <1> QED
    BY <1>5, <1>6, <1>7, <1>8, <1>9 DEF IInv

\* Steps that leave all but the outcome alone, which stays within its type and
\* stays an error if it was one.
LEMMA OutcomeIInv ==
  ASSUME IInv,
         UNCHANGED <<sources, requested, roots, stack, modules, documents>>,
         outcome' \in Outcomes,
         outcome.status = "Err" => outcome'.status = "Err"
  PROVE  IInv'
  <1>1. Loaded' = Loaded
    BY DEF Loaded
  <1>2. \A m : Outstanding(m)' <=> Outstanding(m)
    BY DEF Outstanding
  <1>3. TypeOK'
    BY DEF IInv, TypeOK
  <1>4. ClosureOwed'
    <2>1. \A m \in Module : /\ Missing(m) => Missing(m)'
                            /\ NotOwed(m) => NotOwed(m)'
      BY <1>1 DEF Missing, NotOwed, ImportsOf
    <2> QED
      BY <1>1, <1>2, <2>1 DEF IInv, ClosureOwed
  <1>5. OnlyWanted'
    BY <1>1, <1>2 DEF IInv, OnlyWanted
  <1>6. ModulesFound' /\ DocumentsRead' /\ FiniteLoad'
    BY <1>1 DEF IInv, ModulesFound, DocumentsRead, FiniteLoad, BoundedRecursion
  <1> QED
    BY <1>3, <1>4, <1>5, <1>6 DEF IInv

LEMMA Inductive == IInv /\ [Next]_vars => IInv'
  <1> SUFFICES ASSUME IInv, [Next]_vars PROVE IInv'
    OBVIOUS
  <1>1. CASE CallRoot
    BY <1>1, CallRootCalls, CallIInv DEF IInv
  <1>2. CASE CallImport
    BY <1>2, CallImportCalls, CallIInv DEF IInv
  <1>3. CASE Return
    BY <1>3, ReturnIInv
  <1>4. CASE Finish
    <2>1. outcome' \in Outcomes
      BY <1>4 DEF Finish, IInv, TypeOK, Outcomes, Ok
    <2> QED
      BY <1>4, <2>1, OutcomeIInv DEF Finish, Pending
  <1>5. CASE UNCHANGED vars
    <2>1. outcome' \in Outcomes
      BY <1>5 DEF vars, IInv, TypeOK
    <2> QED
      BY <1>5, <2>1, OutcomeIInv DEF vars
  <1> QED
    BY <1>1, <1>2, <1>3, <1>4, <1>5 DEF Next

LEMMA Invariance == Spec => []IInv
  BY InitIInv, Inductive, PTL DEF Spec

------------------------------------------------------------------------------
(* The load implements the selection. *)

\* The operators that NamedSelection shares with this module.
LEMMA SameOperators ==
  /\ S!Pending = Pending
  /\ \A e : S!Err(e) = Err(e)
  /\ \A m, d : S!Ok(m, d) = Ok(m, d)
  /\ \A src, names : S!Wanted(src, names) = Wanted(src, names)
  /\ \A src, R : S!FaultsAmong(src, R) = FaultsAmong(src, R)
  /\ \A src, R : S!Selection(src, R) = Selection(src, R)
  /\ \A src, R : S!VisitedFor(src, R) = VisitedFor(src, R)
  <1> USE DEF S!SourceIdx, SourceIdx, S!Key, Key, S!Positions, Positions,
              S!Before, Before, S!Candidate, Candidate, S!KeyAt, KeyAt,
              S!ReadFails, ReadFails, S!InternFails, InternFails,
              S!Fault, Fault, S!Confirms, Confirms, S!Hit, Hit, S!Stops, Stops,
              S!Reached, Reached, S!Finds, Finds, S!FailsAt, FailsAt
  <1>1. S!Pending = Pending
    BY DEF S!Pending, Pending
  <1>2. \A e : S!Err(e) = Err(e)
    BY DEF S!Err, Err
  <1>3. \A m, d : S!Ok(m, d) = Ok(m, d)
    BY DEF S!Ok, Ok
  <1>4. \A src, names : S!Wanted(src, names) = Wanted(src, names)
    BY DEF S!Wanted, Wanted, S!ClosedUnderImports, ClosedUnderImports,
           S!IsRoot, IsRoot, S!Roots, Roots
  <1>5. \A src, R : S!FaultsAmong(src, R) = FaultsAmong(src, R)
    BY DEF S!FaultsAmong, FaultsAmong, S!FaultOf, FaultOf
  <1>6. \A src, R : S!Selection(src, R) = Selection(src, R)
    BY DEF S!Selection, Selection, S!Resolves, Resolves
  <1>7. \A src, R : S!VisitedFor(src, R) = VisitedFor(src, R)
    BY DEF S!VisitedFor, VisitedFor, S!Visited, Visited
  <1> QED
    BY <1>1, <1>2, <1>3, <1>4, <1>5, <1>6, <1>7

\* When nothing is outstanding, what is loaded or was looked up in vain is closed
\* under imports, and so it is what was wanted.
LEMMA NothingOutstanding ==
  ASSUME IInv, outcome = Pending, stack = <<>>, roots = <<>>,
         NEW n \in Wanted(sources, requested)
  PROVE  n \in Loaded \/ Missing(n)
  <1> DEFINE R == {m \in Module : m \in Loaded \/ Missing(m)}
  <1>1. \A m \in Module : m \in R \/ NotOwed(m)
    BY DEF IInv, ClosureOwed, Pending, Outstanding
  <1>2. ASSUME NEW m \in Module, IsRoot(requested, m) PROVE m \in R
    BY <1>1, <1>2 DEF NotOwed
  <1>3. ASSUME NEW m \in R, NEW p \in Positions(sources, SourceIdx, m),
               Finds(sources, SourceIdx, m, p)
        PROVE  ImportsOf(m, p) \subseteq R
    <2>1. m \in Loaded
      BY <1>3 DEF Missing, Nowhere, Finds, Stops
    <2>2. ImportsOf(m, p) \in SUBSET Module
      <3>1. sources \in Worlds /\ m \in Module
        BY DEF IInv, TypeOK
      <3>2. Candidate(sources, m, p) \in Doc /\ p[1] \in SourceIdx
        BY <1>3, <3>1, KeyAtType DEF Finds, Hit, Fault
      <3> QED
        BY <3>1, <3>2, SourceFields DEF ImportsOf
    <2> QED
      BY <1>1, <1>3, <2>1, <2>2 DEF NotOwed
  <1>4. ClosedUnderImports(sources, requested, R)
    BY <1>2, <1>3 DEF ClosedUnderImports, ImportsOf
  <1> QED
    BY <1>4 DEF Wanted

\* Then the map is the selection, and the documents the ones it was read from.
LEMMA FinishSelects ==
  ASSUME IInv, outcome = Pending, stack = <<>>, roots = <<>>
  PROVE  /\ FaultsAmong(sources, Wanted(sources, requested)) = {}
         /\ modules = Selection(sources, Wanted(sources, requested))
         /\ documents = VisitedFor(sources, Wanted(sources, requested))
  <1> DEFINE W == Wanted(sources, requested)
  <1>1. sources \in Worlds /\ modules \in [Module -> Key \cup {Absent}]
    BY DEF IInv, TypeOK
  <1>2. W \subseteq Module
    BY DEF Wanted
  <1>3. Loaded \subseteq W
    BY OutstandingWanted DEF IInv, Loaded
  <1>4. \A n \in W : n \in Loaded \/ Missing(n)
    BY NothingOutstanding
  <1>5. ASSUME NEW n \in W, NEW q \in Positions(sources, SourceIdx, n),
               FailsAt(sources, SourceIdx, n, q)
        PROVE  FALSE
    <2>1. CASE Missing(n)
      BY <1>5, <2>1 DEF Missing, Nowhere, FailsAt, Stops
    <2>2. CASE n \in Loaded
      <3>1. PICK p \in Positions(sources, SourceIdx, n) :
              Finds(sources, SourceIdx, n, p)
        BY <2>2 DEF IInv, ModulesFound
      <3>2. p = q
        BY <1>1, <1>2, <1>5, <3>1, SearchEndsOnce DEF Finds, FailsAt, Stops
      <3> QED
        BY <1>5, <3>1, <3>2 DEF Finds, FailsAt, Hit
    <2> QED
      BY <1>4, <2>1, <2>2
  <1>6. ASSUME NEW n \in W
        PROVE  /\ Resolves(sources, SourceIdx, n, modules[n])
               /\ \A key : Resolves(sources, SourceIdx, n, key) =>
                             key = modules[n]
    <2>1. CASE n \in Loaded
      <3>1. PICK p \in Positions(sources, SourceIdx, n) :
              /\ Finds(sources, SourceIdx, n, p)
              /\ modules[n] = KeyAt(sources, n, p)
        BY <2>1 DEF IInv, ModulesFound
      <3> QED
        BY <1>1, <1>2, <3>1, FindsResolves
    <2>2. CASE Missing(n) /\ n \notin Loaded
      <3>1. modules[n] = Absent
        BY <1>2, <2>2 DEF Loaded
      <3> QED
        BY <2>2, <3>1 DEF Missing, Nowhere, Resolves, Finds, Stops
    <2> QED
      BY <1>4, <2>1, <2>2
  <1>7. ASSUME NEW n \in Module
        PROVE  modules[n] = Selection(sources, W)[n]
    <2>1. CASE n \in W
      <3>1. modules[n] \in Key \cup {Absent}
        BY <1>1
      <3>2. modules[n] = CHOOSE key \in Key \cup {Absent} :
                           Resolves(sources, SourceIdx, n, key)
        BY <1>6, <2>1, <3>1
      <3> QED
        BY <2>1, <3>2 DEF Selection
    <2>2. CASE n \notin W
      <3>1. modules[n] = Absent
        BY <1>3, <2>2 DEF Loaded
      <3> QED
        BY <2>2, <3>1 DEF Selection
    <2> QED
      BY <2>1, <2>2
  <1>8. modules = Selection(sources, W)
    BY <1>1, <1>7 DEF Selection
  <1>9. FaultsAmong(sources, W) = {}
    BY <1>5 DEF FaultsAmong
  <1>10. documents = VisitedFor(sources, W)
    <2>1. ASSUME NEW n \in W PROVE Visited(sources, SourceIdx, n) \subseteq documents
      BY <1>4 DEF IInv, DocumentsRead, Missing
    <2> QED
      BY <2>1 DEF IInv, DocumentsRead, VisitedFor
  <1> QED
    BY <1>8, <1>9, <1>10

LEMMA StepImplements == IInv /\ [Next]_vars => [S!Next]_(S!vars)
  <1> SUFFICES ASSUME IInv, [Next]_vars PROVE [S!Next]_(S!vars)
    OBVIOUS
  <1>1. ASSUME NEW n, NEW below, Call(n, below) PROVE [S!Next]_(S!vars)
    <2>1. CASE SearchFails(n)
      <3>1. n \in Wanted(sources, requested)
        BY <1>1, OutstandingWanted DEF Call, IInv
      <3>2. PICK p \in Positions(sources, SourceIdx, n) :
              /\ FailsAt(sources, SourceIdx, n, p)
              /\ outcome' = Err(FaultOf(sources, n, p))
        BY <2>1 DEF SearchFails
      <3>3. FaultOf(sources, n, p) \in FaultsAmong(sources, Wanted(sources, requested))
        BY <3>1, <3>2 DEF FaultsAmong
      <3>4. S!Fails
        BY <3>2, <3>3, SameOperators DEF S!Fails
      <3> QED
        BY <1>1, <3>4, SameOperators DEF Call, S!Next
    <2>2. CASE AlreadyLoaded(n, below) \/ NotFound(n, below) \/ Found(n, below)
      BY <1>1, <2>2 DEF Call, AlreadyLoaded, NotFound, Found, S!vars
    <2> QED
      BY <1>1, <2>1, <2>2 DEF Call, load_one
  <1>2. CASE CallRoot
    BY <1>1, <1>2, CallRootCalls DEF IInv
  <1>3. CASE CallImport
    BY <1>1, <1>3, CallImportCalls DEF IInv
  <1>4. CASE Finish
    <2>1. S!Selects
      BY <1>4, FinishSelects, SameOperators DEF Finish, S!Selects
    <2> QED
      BY <1>4, <2>1, SameOperators DEF Finish, S!Next
  <1>5. CASE Return \/ UNCHANGED vars
    BY <1>5 DEF Return, vars, S!vars
  <1> QED
    BY <1>2, <1>3, <1>4, <1>5 DEF Next

\* Whatever order the imports of a module are taken in, a load by name returns
\* the selection of its request, or an error that a wanted module meets
\* (load_modules_by_name; that it returns at all is left to the model checker).
THEOREM RefinesSelection == Spec => S!Init /\ [][S!Next]_(S!vars)
  <1>1. Init => S!Init
    BY SameOperators DEF Init, S!Init
  <1> QED
    BY <1>1, StepImplements, Invariance, PTL DEF Spec

\* The maps, stacks and results of a load by name are well formed.
THEOREM TypeCorrect == Spec => []TypeOK
  <1>1. IInv => TypeOK
    BY DEF IInv
  <1> QED
    BY <1>1, Invariance, PTL

\* No import of a loaded module is forgotten (load_one, the loop over
\* import_modules).
THEOREM ClosureHolds == Spec => []ClosureOwed
  <1>1. IInv => ClosureOwed
    BY DEF IInv
  <1> QED
    BY <1>1, Invariance, PTL

\* Nothing is loaded that no chain of imports from a root asks for.
THEOREM OnlyWantedHolds == Spec => []OnlyWanted
  <1>1. IInv => OnlyWanted
    BY DEF IInv
  <1> QED
    BY <1>1, Invariance, PTL

\* load_one never recurses deeper than there are loaded modules, import cycles
\* or not: it inserts a module before it loads the imports.
THEOREM RecursionBounded == Spec => []BoundedRecursion
  <1>1. IInv => BoundedRecursion
    BY DEF IInv, FiniteLoad
  <1> QED
    BY <1>1, Invariance, PTL

==============================================================================
