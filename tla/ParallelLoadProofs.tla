-------------------------- MODULE ParallelLoadProofs --------------------------
(***************************************************************************)
(* Proofs about ParallelLoad, for every set of threads, of sources and of  *)
(* module names.                                                           *)
(*                                                                         *)
(* Precedence is not inductive: that what a thread stores is the result of *)
(* a search on its own follows from how far the search has come.  IInv     *)
(* adds it: no position before the thread's is one where a search ends.    *)
(***************************************************************************)
EXTENDS ParallelLoad, TLAPS

(* Searches through the sources. *)

\* What the fields of a configured source are (the contract of Source in
\* src/src/source.rs).
LEMMA SourceFields ==
  ASSUME NEW src \in Worlds, NEW s \in SourceIdx
  PROVE  /\ src[s].listFails \in BOOLEAN
         /\ src[s].lists \in Seq(Module)
         /\ \A n \in Module : src[s].find[n] \in Seq(Doc \cup {IoError})
         /\ \A d \in Doc : src[s].holds[d] \in SUBSET Module
         /\ \A d \in Doc : \A n \in Module :
              src[s].imports[d][n] \in SUBSET Module
  BY SourcesAssumption DEF Source

\* A position names a source of S and one of its candidates for n.
LEMMA PositionParts ==
  ASSUME NEW src \in Worlds, NEW S \in SUBSET SourceIdx, NEW n \in Module,
         NEW p
  PROVE  p \in Positions(src, S, n) <=>
           \E s \in S, j \in Nat \ {0} :
             /\ p = <<s, j>>
             /\ j <= Len(src[s].find[n])
  <1>1. \A s \in S : Len(src[s].find[n]) \in Nat
    BY SourceFields
  <1> QED
    BY <1>1 DEF Positions

\* The same of a position that is written as a pair.
LEMMA PositionPair ==
  ASSUME NEW src \in Worlds, NEW S \in SUBSET SourceIdx, NEW n \in Module,
         NEW s, NEW j \in Nat \ {0}
  PROVE  <<s, j>> \in Positions(src, S, n) <=>
           s \in S /\ j <= Len(src[s].find[n])
  <1>1. <<s, j>> \in Positions(src, S, n) <=>
          \E r \in S, k \in Nat \ {0} :
            <<s, j>> = <<r, k>> /\ k <= Len(src[r].find[n])
    BY PositionParts
  <1> QED
    BY <1>1

\* A position without a fault yields a candidate identity: a key.
LEMMA KeyAtType ==
  ASSUME NEW src \in Worlds, NEW S \in SUBSET SourceIdx, NEW n \in Module,
         NEW p \in Positions(src, S, n), ~ ReadFails(src, n, p)
  PROVE  /\ KeyAt(src, n, p) \in Key
         /\ Candidate(src, n, p) \in Doc
         /\ p[1] \in SourceIdx
  <1>1. PICK s \in S, j \in Nat \ {0} : p = <<s, j>> /\ j <= Len(src[s].find[n])
    BY PositionParts
  <1>2. src[s].find[n] \in Seq(Doc \cup {IoError})
    BY SourceFields
  <1>3. Candidate(src, n, p) \in Doc \cup {IoError}
    BY <1>1, <1>2 DEF Candidate
  <1> QED
    BY <1>1, <1>3 DEF ReadFails, KeyAt, Key

\* A failed search is reported as a fault of its source and name.
LEMMA FaultOfType ==
  ASSUME NEW src \in Worlds, NEW S \in SUBSET SourceIdx, NEW n \in Module,
         NEW p \in Positions(src, S, n)
  PROVE  FaultOf(src, n, p) \in Faults
  <1>1. p[1] \in SourceIdx
    BY PositionParts
  <1> QED
    BY <1>1 DEF FaultOf, Faults

\* Positions are linearly ordered, so a search ends at one position at most.
LEMMA SearchEndsOnce ==
  ASSUME NEW src \in Worlds, NEW S \in SUBSET SourceIdx, NEW n \in Module,
         NEW p, NEW q,
         Reached(src, S, n, p), Stops(src, n, p),
         Reached(src, S, n, q), Stops(src, n, q)
  PROVE  p = q
  <1>1. PICK s \in S, j \in Nat \ {0} : p = <<s, j>> /\ j <= Len(src[s].find[n])
    BY PositionParts DEF Reached
  <1>2. PICK r \in S, k \in Nat \ {0} : q = <<r, k>>
    BY PositionParts DEF Reached
  <1>3. /\ ~ Before(p, q)
        /\ ~ Before(q, p)
    BY DEF Reached
  <1>4. s \in Nat /\ r \in Nat /\ j \in Nat /\ k \in Nat
    BY SourcesAssumption DEF SourceIdx
  <1> QED
    BY <1>1, <1>2, <1>3, <1>4 DEF Before

\* Where a search finds the module decides what the name resolves to.
LEMMA FindsResolves ==
  ASSUME NEW src \in Worlds, NEW S \in SUBSET SourceIdx, NEW n \in Module,
         NEW p, Finds(src, S, n, p)
  PROVE  \A key : Resolves(src, S, n, key) <=> key = KeyAt(src, n, p)
  <1>1. \A q : Finds(src, S, n, q) => q = p
    BY SearchEndsOnce DEF Finds, Stops
  <1>2. p \in Positions(src, S, n)
    BY DEF Finds, Reached
  <1> QED
    BY <1>1, <1>2 DEF Resolves

------------------------------------------------------------------------------
\* The program points at which a thread searches for the name it claimed, and
\* those at which it has a document in hand.
Searching == {"search", "latch", "entry", "init", "blocked", "decode", "match"}
Reading   == {"entry", "init", "blocked", "decode", "match"}

\* While the sources are being listed, no thread was started.
Listing ==
  phase = "listing" =>
    /\ \A t \in Thread : pc[t] = "claim" /\ local[t] = Nothing
    /\ collected = Nothing

\* A working thread has a name.
Claimed ==
  \A t \in Thread : pc[t] \in Searching \cup {"check"} =>
    idx[t] \in 1 .. Len(all_modules)

\* What is interned was small enough to be.
RegistrySound ==
  \A i \in 1 .. Len(registry) :
    registry[i][2] \notin sources[registry[i][1]].tooLarge

\* The search of a thread has come to its position without ending before, and
\* a document in hand was read and interned without an error.
SearchSoundOf(t) ==
  /\ pc[t] \in Searching =>
       \A q \in Positions(sources, candidates[Name(t)], Name(t)) :
         Before(q, at[t]) => ~ Stops(sources, Name(t), q)
  /\ pc[t] \in Reading \cup {"latch"} =>
       at[t] \in Positions(sources, candidates[Name(t)], Name(t))
  /\ pc[t] \in Reading => ~ Fault(sources, Name(t), at[t])
  /\ pc[t] = "latch" => InternFails(sources, Name(t), at[t])

SearchSound == \A t \in Thread : SearchSoundOf(t)

IInv == TypeOK /\ Listing /\ Claimed /\ RegistrySound /\ SearchSound /\ Precedence

------------------------------------------------------------------------------
\* The name of a working thread is a module name.
LEMMA NameType ==
  ASSUME TypeOK, Claimed, NEW t \in Thread, pc[t] \in Searching \cup {"check"}
  PROVE  Name(t) \in Module
  BY DEF TypeOK, Claimed, Name

\* AtCandidate says that the position of a thread is one of its search.
LEMMA AtCandidatePosition ==
  ASSUME TypeOK, Claimed, NEW t \in Thread, pc[t] = "search"
  PROVE  AtCandidate(t) <=>
           at[t] \in Positions(sources, candidates[Name(t)], Name(t))
  <1>1. Name(t) \in Module
    BY NameType DEF Searching
  <1>2. candidates[Name(t)] \in SUBSET SourceIdx
    BY <1>1 DEF TypeOK
  <1>3. PICK s \in 1 .. NumSources + 1, j \in Nat \ {0} : at[t] = <<s, j>>
    BY DEF TypeOK
  <1>4. sources \in Worlds
    BY DEF TypeOK
  <1>5. <<s, j>> \in Positions(sources, candidates[Name(t)], Name(t)) <=>
          s \in candidates[Name(t)] /\ j <= Len(sources[s].find[Name(t)])
    BY <1>1, <1>2, <1>4, PositionPair
  <1> QED
    BY <1>3, <1>5 DEF AtCandidate

\* The document of a thread that has one in hand is a key.
LEMMA KeyOfType ==
  ASSUME TypeOK, Claimed, SearchSound, NEW t \in Thread, pc[t] \in Reading
  PROVE  KeyOf(t) \in Key
  <1>1. Name(t) \in Module
    BY NameType DEF Searching, Reading
  <1>2. /\ candidates[Name(t)] \in SUBSET SourceIdx
        /\ sources \in Worlds
    BY <1>1 DEF TypeOK
  <1>3. /\ at[t] \in Positions(sources, candidates[Name(t)], Name(t))
        /\ ~ ReadFails(sources, Name(t), at[t])
    BY DEF SearchSound, SearchSoundOf, Fault
  <1> QED
    BY <1>1, <1>2, <1>3, KeyAtType DEF KeyOf

------------------------------------------------------------------------------
LEMMA InitIInv == Init => IInv
  <1> SUFFICES ASSUME Init PROVE IInv
    OBVIOUS
  <1>1. TypeOK
    BY SourcesAssumption
       DEF Init, TypeOK, PC, Nothing, Outcomes, Faults, NoError, SourceIdx
  <1>2. Listing /\ Claimed /\ RegistrySound /\ SearchSound /\ Precedence
    BY DEF Init, Listing, Claimed, RegistrySound, SearchSound, SearchSoundOf,
           Precedence, Searching, Reading, Nothing
  <1> QED
    BY <1>1, <1>2 DEF IInv

(* Every step preserves the types. *)

LEMMA ListingTypes ==
  ASSUME TypeOK, NEW s \in SourceIdx,
         \/ ListFails(s)
         \/ \E k \in 1 .. Len(sources[s].lists) : ListName(s, k)
         \/ ListNextSource(s)
  PROVE  TypeOK'
  <1> USE DEF TypeOK
  <1>1. sources \in Worlds
    OBVIOUS
  <1>2. sources[s].lists \in Seq(Module)
    BY <1>1, SourceFields
  <1>3. CASE ListFails(s)
    <2>1. outcome' \in Outcomes
      BY <1>3 DEF ListFails, Outcomes, Err, ListingFault
    <2> QED
      BY <1>3, <2>1 DEF ListFails, listed, pool
  <1>4. CASE \E k \in 1 .. Len(sources[s].lists) : ListName(s, k)
    <2>1. PICK k \in 1 .. Len(sources[s].lists) : ListName(s, k)
      BY <1>4
    <2>2. sources[s].lists[k] \in Module /\ k \in Nat \ {0}
      BY <1>2
    <2>3. all_modules' \in Seq(Module)
      <3>1. all_modules' \in {all_modules, Append(all_modules, sources[s].lists[k])}
        BY <2>1 DEF ListName
      <3>2. all_modules \in Seq(Module)
        OBVIOUS
      <3>3. Append(all_modules, sources[s].lists[k]) \in Seq(Module)
        BY <2>2, <3>2
      <3> QED
        BY <3>1, <3>2, <3>3
    <2>4. candidates' \in [Module -> SUBSET SourceIdx]
      BY <2>1, <2>2 DEF ListName
    <2>5. listing' \in (1 .. NumSources + 1) \X (Nat \ {0})
      <3>1. s \in 1 .. NumSources + 1
        BY SourcesAssumption DEF SourceIdx
      <3>2. listing' = <<s, k + 1>>
        BY <2>1 DEF ListName
      <3>3. k + 1 \in Nat \ {0}
        BY <2>2
      <3> QED
        BY <3>1, <3>2, <3>3
    <2> QED
      BY <2>1, <2>3, <2>4, <2>5 DEF ListName, pool
  <1>5. CASE ListNextSource(s)
    <2>1. listing' \in (1 .. NumSources + 1) \X (Nat \ {0})
      BY <1>5, SourcesAssumption DEF ListNextSource, SourceIdx
    <2> QED
      BY <1>5, <2>1 DEF ListNextSource, pool
  <1> QED
    BY <1>3, <1>4, <1>5

LEMMA WorkerTypes ==
  ASSUME TypeOK, Claimed, SearchSound, NEW t \in Thread, Worker(t)
  PROVE  TypeOK'
  <1> USE DEF TypeOK
  <1>1. CASE Claim(t)
    BY <1>1 DEF Claim, Goto, PC, listed
  <1>2. CASE CheckError(t)
    <2>1. <<1, 1>> \in (1 .. NumSources + 1) \X (Nat \ {0})
      BY SourcesAssumption
    <2> QED
      BY <1>2, <2>1 DEF CheckError, Goto, PC, listed
  <1>3. CASE NextSource(t)
    <2>1. at' \in [Thread -> (1 .. NumSources + 1) \X (Nat \ {0})]
      BY <1>3, SourcesAssumption DEF NextSource
    <2> QED
      BY <1>3, <2>1 DEF NextSource, listed
  <1>4. CASE GiveUp(t)
    BY <1>4 DEF GiveUp, Goto, PC, listed
  <1>5. CASE ReadError(t)
    <2>1. Name(t) \in Module /\ candidates[Name(t)] \in SUBSET SourceIdx
      BY <1>5, NameType DEF ReadError, Searching
    <2>2. at[t] \in Positions(sources, candidates[Name(t)], Name(t))
      BY <1>5, AtCandidatePosition DEF ReadError
    <2>3. error' \in Faults
      BY <1>5, <2>1, <2>2, FaultOfType DEF ReadError
    <2> QED
      BY <1>5, <2>3 DEF ReadError, Goto, PC, listed
  <1>6. CASE Intern(t)
    <2>1. Name(t) \in Module /\ candidates[Name(t)] \in SUBSET SourceIdx
      BY <1>6, NameType DEF Intern, Searching
    <2>2. at[t] \in Positions(sources, candidates[Name(t)], Name(t))
      BY <1>6, AtCandidatePosition DEF Intern
    <2>3. KeyOf(t) \in Key
      BY <1>6, <2>1, <2>2, KeyAtType DEF Intern, KeyOf
    <2>4. registry' \in Seq(Key)
      <3>1. registry' = registry \/ registry' = Append(registry, KeyOf(t))
        BY <1>6 DEF Intern
      <3>2. registry \in Seq(Key)
        OBVIOUS
      <3> HIDE DEF TypeOK
      <3> QED
        BY <2>3, <3>1, <3>2
    <2>5. pc' \in [Thread -> PC]
      BY <1>6 DEF Intern, Goto, PC
    <2> QED
      BY <1>6, <2>4, <2>5 DEF Intern, listed
  <1>7. CASE InternError(t)
    <2>1. Name(t) \in Module /\ candidates[Name(t)] \in SUBSET SourceIdx
      BY <1>7, NameType DEF InternError, Searching
    <2>2. at[t] \in Positions(sources, candidates[Name(t)], Name(t))
      BY <1>7 DEF InternError, SearchSound, SearchSoundOf
    <2>3. error' \in Faults
      BY <1>7, <2>1, <2>2, FaultOfType DEF InternError
    <2> QED
      BY <1>7, <2>3 DEF InternError, Goto, PC, listed
  <1>8. CASE CacheEntry(t)
    BY <1>8 DEF CacheEntry, Goto, PC, listed
  <1>9. CASE GetOrInit(t)
    <2>1. cache' \in [Key -> {"none", "empty", "running", "ready"}]
      BY <1>9 DEF GetOrInit
    <2>2. pc' \in [Thread -> PC]
      BY <1>9 DEF GetOrInit, Goto, PC
    <2> QED
      BY <1>9, <2>1, <2>2 DEF GetOrInit, listed
  <1>10. CASE Decode(t)
    BY <1>10 DEF Decode, Goto, PC, listed
  <1>11. CASE Unblock(t)
    BY <1>11 DEF Unblock, Goto, PC, listed
  <1>12. CASE Match(t)
    <2>1. Name(t) \in Module /\ KeyOf(t) \in Key
      BY <1>12, NameType, KeyOfType DEF Match, Searching, Reading
    <2>2. local' \in [Thread -> [Module -> Key \cup {Absent}]]
      <3> DEFINE n == Name(t)
                 key == KeyOf(t)
      <3>1. local' = local \/ local' = [local EXCEPT ![t] = [@ EXCEPT ![n] = key]]
        BY <1>12 DEF Match
      <3>2. n \in Module /\ key \in Key
        BY <2>1
      <3> HIDE DEF n, key
      <3>3. [local[t] EXCEPT ![n] = key] \in [Module -> Key \cup {Absent}]
        BY <3>2
      <3> QED
        BY <3>1, <3>3
    <2>3. at' \in [Thread -> (1 .. NumSources + 1) \X (Nat \ {0})]
      <3>1. at' = at \/ at' = [at EXCEPT ![t] = <<at[t][1], at[t][2] + 1>>]
        BY <1>12 DEF Match
      <3>2. at[t] \in (1 .. NumSources + 1) \X (Nat \ {0})
        OBVIOUS
      <3>3. <<at[t][1], at[t][2] + 1>> \in (1 .. NumSources + 1) \X (Nat \ {0})
        BY <3>2
      <3> QED
        BY <3>1, <3>3
    <2>4. pc' \in [Thread -> PC]
      BY <1>12 DEF Match, Goto, PC
    <2> QED
      BY <1>12, <2>2, <2>3, <2>4 DEF Match, listed
  <1>13. CASE Merge(t)
    <2>1. collected' \in [Module -> Key \cup {Absent}]
      BY <1>13 DEF Merge
    <2> QED
      BY <1>13, <2>1 DEF Merge, Goto, PC, listed
  <1> QED
    BY <1>1, <1>2, <1>3, <1>4, <1>5, <1>6, <1>7, <1>8, <1>9, <1>10, <1>11,
       <1>12, <1>13 DEF Worker

LEMMA JoinTypes ==
  ASSUME TypeOK, Join
  PROVE  TypeOK'
  <1> USE DEF TypeOK
  <1>1. {registry[i] : i \in 1 .. Len(registry)} \in SUBSET Key
    OBVIOUS
  <1>2. outcome' \in Outcomes
    BY <1>1 DEF Join, Outcomes, Err, Ok
  <1> QED
    BY <1>2 DEF Join, listed, pool

------------------------------------------------------------------------------
(* Every step preserves what the threads know about their searches. *)

\* A thread's step touches no other thread's state, nor what was listed.
LEMMA OthersUntouched ==
  ASSUME TypeOK, NEW t \in Thread, Worker(t)
  PROVE  /\ UNCHANGED <<listed, phase>>
         /\ \A u \in Thread \ {t} : /\ pc'[u] = pc[u]
                                    /\ idx'[u] = idx[u]
                                    /\ at'[u] = at[u]
                                    /\ local'[u] = local[u]
                                    /\ Name(u)' = Name(u)
  <1> USE DEF TypeOK, Goto, listed, Name
  <1>1. CASE Claim(t) BY <1>1 DEF Claim
  <1>2. CASE CheckError(t) BY <1>2 DEF CheckError
  <1>3. CASE NextSource(t) BY <1>3 DEF NextSource
  <1>4. CASE GiveUp(t) BY <1>4 DEF GiveUp
  <1>5. CASE ReadError(t) BY <1>5 DEF ReadError
  <1>6. CASE Intern(t) BY <1>6 DEF Intern
  <1>7. CASE InternError(t) BY <1>7 DEF InternError
  <1>8. CASE CacheEntry(t) BY <1>8 DEF CacheEntry
  <1>9. CASE GetOrInit(t) BY <1>9 DEF GetOrInit
  <1>10. CASE Decode(t) BY <1>10 DEF Decode
  <1>11. CASE Unblock(t) BY <1>11 DEF Unblock
  <1>12. CASE Match(t) BY <1>12 DEF Match
  <1>13. CASE Merge(t) BY <1>13 DEF Merge
  <1> QED
    BY <1>1, <1>2, <1>3, <1>4, <1>5, <1>6, <1>7, <1>8, <1>9, <1>10, <1>11,
       <1>12, <1>13 DEF Worker

\* What a step of t changes of its claim and of its position.
LEMMA StepOf ==
  ASSUME TypeOK, NEW t \in Thread, Worker(t)
  PROVE  \/ Claim(t) \/ CheckError(t) \/ NextSource(t) \/ Intern(t) \/ Match(t)
         \/ /\ UNCHANGED <<idx, at, registry>>
            /\ \/ pc'[t] \notin Searching \cup {"check"}
               \/ /\ pc[t] \in Reading
                  /\ pc'[t] \in Reading
  <1> USE DEF TypeOK, Goto, Searching, Reading
  <1>4. CASE GiveUp(t) BY <1>4 DEF GiveUp
  <1>5. CASE ReadError(t) BY <1>5 DEF ReadError
  <1>7. CASE InternError(t) BY <1>7 DEF InternError
  <1>8. CASE CacheEntry(t) BY <1>8 DEF CacheEntry
  <1>9. CASE GetOrInit(t) BY <1>9 DEF GetOrInit
  <1>10. CASE Decode(t) BY <1>10 DEF Decode
  <1>11. CASE Unblock(t) BY <1>11 DEF Unblock
  <1>13. CASE Merge(t) BY <1>13 DEF Merge
  <1> QED
    BY <1>4, <1>5, <1>7, <1>8, <1>9, <1>10, <1>11, <1>13 DEF Worker

LEMMA WorkerClaimed ==
  ASSUME TypeOK, Claimed, NEW t \in Thread, Worker(t)
  PROVE  Claimed'
  <1> USE DEF TypeOK, Goto, Searching, Reading
  <1> SUFFICES ASSUME NEW u \in Thread, pc'[u] \in Searching \cup {"check"}
               PROVE  idx'[u] \in 1 .. Len(all_modules')
    BY DEF Claimed
  <1>1. all_modules' = all_modules
    BY OthersUntouched DEF listed
  <1>2. CASE u # t
    BY <1>1, <1>2, OthersUntouched DEF Claimed
  <1>3. CASE u = t
    <2>1. CASE Claim(t) BY <1>1, <1>3, <2>1 DEF Claim
    <2>2. CASE CheckError(t) BY <1>1, <1>3, <2>2 DEF CheckError, Claimed
    <2>3. CASE NextSource(t) BY <1>1, <1>3, <2>3 DEF NextSource, Claimed
    <2>4. CASE Intern(t) BY <1>1, <1>3, <2>4 DEF Intern, Claimed
    <2>5. CASE Match(t) BY <1>1, <1>3, <2>5 DEF Match, Claimed
    <2> QED
      BY <1>1, <1>3, <2>1, <2>2, <2>3, <2>4, <2>5, StepOf DEF Claimed
  <1> QED
    BY <1>2, <1>3

LEMMA WorkerListing ==
  ASSUME TypeOK, Listing, NEW t \in Thread, Worker(t)
  PROVE  Listing'
  <1>1. phase' = phase
    BY OthersUntouched
  <1>2. phase # "listing"
    BY DEF Listing, Worker, Claim, CheckError, NextSource, GiveUp, ReadError,
           Intern, InternError, CacheEntry, GetOrInit, Decode, Unblock, Match,
           Merge
  <1> QED
    BY <1>1, <1>2 DEF Listing

LEMMA WorkerRegistry ==
  ASSUME TypeOK, Claimed, RegistrySound, NEW t \in Thread, Worker(t)
  PROVE  RegistrySound'
  <1>1. sources' = sources
    BY OthersUntouched DEF listed
  <1>2. CASE registry' = registry
    BY <1>1, <1>2 DEF RegistrySound
  <1>3. CASE /\ Intern(t)
             /\ registry' = Append(registry, KeyOf(t))
             /\ ~ InternFails(sources, Name(t), at[t])
    <2>1. KeyOf(t)[2] \notin sources[KeyOf(t)[1]].tooLarge
      BY <1>3 DEF Intern, InternFails, KeyOf, KeyAt
    <2>2. registry \in Seq(Key)
      BY DEF TypeOK
    <2>3. KeyOf(t) \in Key
      <3>1. Name(t) \in Module /\ candidates[Name(t)] \in SUBSET SourceIdx
        BY <1>3, NameType DEF Intern, Searching, TypeOK
      <3>2. at[t] \in Positions(sources, candidates[Name(t)], Name(t))
        BY <1>3, AtCandidatePosition DEF Intern
      <3> QED
        BY <1>3, <3>1, <3>2, KeyAtType DEF Intern, KeyOf, TypeOK
    <2>4. \A i \in 1 .. Len(registry') :
            \/ i \in 1 .. Len(registry) /\ registry'[i] = registry[i]
            \/ registry'[i] = KeyOf(t)
      BY <1>3, <2>2, <2>3
    <2> QED
      BY <1>1, <2>1, <2>4 DEF RegistrySound
  <1>4. Intern(t) => \/ registry' = registry
                     \/ /\ registry' = Append(registry, KeyOf(t))
                        /\ ~ InternFails(sources, Name(t), at[t])
    BY DEF Intern
  <1>5. ~ Intern(t) => registry' = registry
    BY StepOf DEF Claim, CheckError, NextSource, Match
  <1> QED
    BY <1>2, <1>3, <1>4, <1>5

\* A position passed over cannot be returned to: what is before the next
\* position is before this one, or is this one.
LEMMA PassOver ==
  ASSUME NEW src \in Worlds, NEW S \in SUBSET SourceIdx, NEW n \in Module,
         NEW s \in Nat, NEW j \in Nat \ {0}, NEW q \in Positions(src, S, n)
  PROVE  /\ Before(q, <<s, j + 1>>) => Before(q, <<s, j>>) \/ q = <<s, j>>
         /\ Before(q, <<s + 1, 1>>) =>
              Before(q, <<s, j>>) \/ <<s, j>> \in Positions(src, S, n)
  <1>1. PICK r \in S, k \in Nat \ {0} : q = <<r, k>> /\ k <= Len(src[r].find[n])
    BY PositionParts
  <1>2. r \in SourceIdx /\ r \in Nat
    BY SourcesAssumption DEF SourceIdx
  <1>3. Before(q, <<s, j + 1>>) => Before(q, <<s, j>>) \/ q = <<s, j>>
    BY <1>1, <1>2 DEF Before
  <1>4. ASSUME Before(q, <<s + 1, 1>>), ~ Before(q, <<s, j>>)
        PROVE  <<s, j>> \in Positions(src, S, n)
    <2>1. r = s /\ j <= k
      BY <1>1, <1>2, <1>4 DEF Before
    <2>2. Len(src[s].find[n]) \in Nat
      BY <1>2, <2>1, SourceFields
    <2>3. j <= Len(src[s].find[n]) /\ s \in S
      BY <1>1, <2>1, <2>2
    <2> QED
      BY <2>3, PositionPair
  <1> QED
    BY <1>3, <1>4

LEMMA WorkerSearch ==
  ASSUME TypeOK, Claimed, RegistrySound, SearchSound, NEW t \in Thread, Worker(t)
  PROVE  SearchSound'
  <1>1. UNCHANGED <<sources, candidates, all_modules>>
    BY OthersUntouched DEF listed
  <1>2. ASSUME NEW u \in Thread \ {t} PROVE SearchSoundOf(u)'
    <2>1. UNCHANGED <<pc[u], at[u], Name(u)>>
      BY OthersUntouched
    <2> QED
      BY <1>1, <2>1 DEF SearchSound, SearchSoundOf
  <1>3. SearchSoundOf(t)'
    <2> USE DEF Goto, Searching, Reading
    <2>1. pc \in [Thread -> PC] /\ at \in [Thread -> (1 .. NumSources + 1) \X (Nat \ {0})]
      BY DEF TypeOK
    <2>2. SearchSoundOf(t)
      BY DEF SearchSound
    <2>3. PICK s \in 1 .. NumSources + 1, j \in Nat \ {0} : at[t] = <<s, j>>
      BY <2>1
    <2>4. s \in Nat
      BY SourcesAssumption
    <2>5. ASSUME pc[t] \in Searching \cup {"check"}
          PROVE  /\ Name(t) \in Module
                 /\ candidates[Name(t)] \in SUBSET SourceIdx
                 /\ sources \in Worlds
      BY <2>5, NameType DEF TypeOK
    <2>6. CASE Claim(t)
      BY <2>1, <2>6 DEF Claim, SearchSoundOf
    <2>7. CASE CheckError(t)
      <3>1. Name(t)' = Name(t)
        BY <1>1, <2>7 DEF CheckError, Name
      <3>2. \A q \in Positions(sources, candidates[Name(t)], Name(t)) :
              ~ Before(q, <<1, 1>>)
        <4> SUFFICES
              ASSUME NEW q \in Positions(sources, candidates[Name(t)], Name(t))
              PROVE  ~ Before(q, <<1, 1>>)
          OBVIOUS
        <4>1. /\ Name(t) \in Module
              /\ candidates[Name(t)] \in SUBSET SourceIdx
              /\ sources \in Worlds
          BY <2>5, <2>7 DEF CheckError
        <4>2. \E r \in candidates[Name(t)], k \in Nat \ {0} :
                q = <<r, k>> /\ k <= Len(sources[r].find[Name(t)])
          BY <4>1, PositionParts
        <4> QED
          BY <4>1, <4>2 DEF Before, SourceIdx
      <3> QED
        BY <1>1, <2>1, <2>7, <3>1, <3>2 DEF CheckError, SearchSoundOf
    <2>8. CASE NextSource(t)
      <3>1. Name(t)' = Name(t) /\ pc'[t] = "search" /\ at'[t] = <<s + 1, 1>>
        BY <1>1, <2>1, <2>3, <2>8 DEF NextSource, Name
      <3>2. <<s, j>> \notin Positions(sources, candidates[Name(t)], Name(t))
        BY <2>3, <2>8, AtCandidatePosition DEF NextSource
      <3>3. \A q \in Positions(sources, candidates[Name(t)], Name(t)) :
              Before(q, <<s, j>>) => ~ Stops(sources, Name(t), q)
        BY <2>2, <2>3, <2>8 DEF NextSource, SearchSoundOf
      <3>4. \A q \in Positions(sources, candidates[Name(t)], Name(t)) :
              Before(q, <<s + 1, 1>>) => ~ Stops(sources, Name(t), q)
        BY <2>4, <2>5, <2>8, <3>2, <3>3, PassOver DEF NextSource
      <3> QED
        BY <1>1, <3>1, <3>4 DEF SearchSoundOf
    <2>9. CASE Intern(t)
      <3>1. Name(t)' = Name(t) /\ at' = at /\ pc[t] = "search"
        BY <1>1, <2>9 DEF Intern, Name
      <3>2. /\ at[t] \in Positions(sources, candidates[Name(t)], Name(t))
            /\ ~ ReadFails(sources, Name(t), at[t])
        BY <2>9, AtCandidatePosition DEF Intern
      <3>3. Interned(KeyOf(t)) => ~ InternFails(sources, Name(t), at[t])
        BY DEF Interned, RegistrySound, InternFails, KeyOf, KeyAt
      <3>4. \/ pc'[t] = "entry" /\ ~ InternFails(sources, Name(t), at[t])
            \/ pc'[t] = "latch" /\ InternFails(sources, Name(t), at[t])
        BY <2>1, <2>9, <3>3 DEF Intern
      <3> QED
        BY <1>1, <2>2, <3>1, <3>2, <3>4 DEF SearchSoundOf, Fault
    <2>10. CASE Match(t)
      <3>1. Name(t)' = Name(t) /\ pc[t] = "match"
        BY <1>1, <2>10 DEF Match, Name
      <3>2. CASE pc'[t] = "claim"
        BY <3>2 DEF SearchSoundOf
      <3>3. CASE /\ ~ Confirms(sources, Name(t), KeyOf(t))
                 /\ pc'[t] = "search" /\ at'[t] = <<s, j + 1>>
        <4>1. ~ Stops(sources, Name(t), <<s, j>>)
          BY <2>2, <2>3, <3>1, <3>3 DEF SearchSoundOf, Stops, Hit, KeyOf
        <4>2. \A q \in Positions(sources, candidates[Name(t)], Name(t)) :
                Before(q, <<s, j>>) => ~ Stops(sources, Name(t), q)
          BY <2>2, <2>3, <3>1 DEF SearchSoundOf
        <4>3. \A q \in Positions(sources, candidates[Name(t)], Name(t)) :
                Before(q, <<s, j + 1>>) => ~ Stops(sources, Name(t), q)
          BY <2>4, <2>5, <3>1, <4>1, <4>2, PassOver
        <4> QED
          BY <1>1, <3>1, <3>3, <4>3 DEF SearchSoundOf
      <3> QED
        BY <2>1, <2>3, <2>10, <3>2, <3>3 DEF Match
    <2>11. CASE /\ UNCHANGED <<idx, at, registry>>
                /\ \/ pc'[t] \notin Searching \cup {"check"}
                   \/ /\ pc[t] \in Reading
                      /\ pc'[t] \in Reading
      <3>1. Name(t)' = Name(t)
        BY <1>1, <2>11 DEF Name
      <3> QED
        BY <1>1, <2>2, <2>11, <3>1 DEF SearchSoundOf
    <2> QED
      BY <2>6, <2>7, <2>8, <2>9, <2>10, <2>11, StepOf
  <1> QED
    BY <1>2, <1>3 DEF SearchSound

\* A hit is where the search of the name ends, and so what it resolves to.
LEMMA MatchResolves ==
  ASSUME TypeOK, Claimed, SearchSound, NEW t \in Thread, pc[t] = "match",
         Confirms(sources, Name(t), KeyOf(t))
  PROVE  Resolves(sources, candidates[Name(t)], Name(t), KeyOf(t))
  <1>1. /\ Name(t) \in Module
        /\ candidates[Name(t)] \in SUBSET SourceIdx
        /\ sources \in Worlds
    BY NameType DEF TypeOK, Searching
  <1>2. /\ at[t] \in Positions(sources, candidates[Name(t)], Name(t))
        /\ ~ Fault(sources, Name(t), at[t])
        /\ \A q \in Positions(sources, candidates[Name(t)], Name(t)) :
             Before(q, at[t]) => ~ Stops(sources, Name(t), q)
    BY DEF SearchSound, SearchSoundOf, Searching, Reading
  <1>3. Finds(sources, candidates[Name(t)], Name(t), at[t])
    BY <1>2 DEF Finds, Reached, Hit, KeyOf
  <1> QED
    BY <1>1, <1>3, FindsResolves DEF KeyOf

LEMMA WorkerPrecedence ==
  ASSUME TypeOK, Claimed, SearchSound, Precedence, NEW t \in Thread, Worker(t)
  PROVE  Precedence'
  <1>1. UNCHANGED <<sources, candidates>>
    BY OthersUntouched DEF listed
  <1>2. CASE UNCHANGED <<local, collected>>
    BY <1>1, <1>2 DEF Precedence
  <1>3. CASE Match(t)
    <2>1. collected' = collected
      BY <1>3 DEF Match
    <2>2. CASE local' = local
      BY <1>1, <2>1, <2>2 DEF Precedence
    <2>3. CASE /\ Confirms(sources, Name(t), KeyOf(t))
               /\ local' = [local EXCEPT ![t] = [@ EXCEPT ![Name(t)] = KeyOf(t)]]
      <3>1. Resolves(sources, candidates[Name(t)], Name(t), KeyOf(t))
        BY <1>3, <2>3, MatchResolves DEF Match
      <3>2. ASSUME NEW u \in Thread, NEW n \in Module
            PROVE  \/ local'[u][n] = local[u][n]
                   \/ n = Name(t) /\ local'[u][n] = KeyOf(t)
        BY <2>3 DEF TypeOK
      <3> QED
        BY <1>1, <2>1, <3>1, <3>2 DEF Precedence
    <2> QED
      BY <1>3, <2>2, <2>3 DEF Match
  <1>4. CASE Merge(t)
    <2>1. \A n \in Module : \/ collected'[n] = collected[n]
                            \/ collected'[n] = local[t][n]
      BY <1>4 DEF Merge
    <2>2. local' = local
      BY <1>4 DEF Merge
    <2> QED
      BY <1>1, <2>1, <2>2 DEF Precedence
  <1>5. \/ UNCHANGED <<local, collected>>
        \/ Match(t)
        \/ Merge(t)
    BY DEF Worker, Claim, CheckError, NextSource, GiveUp, ReadError, Intern,
           InternError, CacheEntry, GetOrInit, Decode, Unblock
  <1> QED
    BY <1>2, <1>3, <1>4, <1>5

------------------------------------------------------------------------------
\* While the sources are listed no thread knows anything yet.
LEMMA ListingIInv ==
  ASSUME IInv, NEW s \in SourceIdx,
         \/ ListFails(s)
         \/ \E k \in 1 .. Len(sources[s].lists) : ListName(s, k)
         \/ ListNextSource(s)
  PROVE  IInv'
  <1>1. TypeOK'
    BY ListingTypes DEF IInv
  <1>2. /\ \A t \in Thread : pc[t] = "claim" /\ local[t] = Nothing
        /\ collected = Nothing
    BY DEF IInv, Listing, ListFails, ListName, ListNextSource
  <1>3. UNCHANGED <<sources, registry, pc, idx, at, local, collected>>
    BY DEF ListFails, ListName, ListNextSource, listed, pool
  <1>4. Listing' /\ Claimed' /\ SearchSound'
    BY <1>2, <1>3 DEF Listing, Claimed, SearchSound, SearchSoundOf, Searching,
                      Reading
  <1>5. RegistrySound'
    BY <1>3 DEF IInv, RegistrySound
  <1>6. Precedence'
    BY <1>2, <1>3 DEF Precedence, Nothing
  <1> QED
    BY <1>1, <1>4, <1>5, <1>6 DEF IInv

LEMMA JoinIInv ==
  ASSUME IInv, Join
  PROVE  IInv'
  <1>1. TypeOK'
    BY JoinTypes DEF IInv
  <1>2. /\ UNCHANGED <<sources, all_modules, candidates, registry, pc, idx, at,
                       local, collected>>
        /\ phase' = "joined"
    BY DEF Join, listed, pool
  <1>3. Listing' /\ Claimed' /\ RegistrySound' /\ Precedence'
    BY <1>2 DEF IInv, Listing, Claimed, RegistrySound, Precedence
  <1>4. SearchSound'
    BY <1>2 DEF IInv, SearchSound, SearchSoundOf, Name
  <1> QED
    BY <1>1, <1>3, <1>4 DEF IInv

LEMMA WorkerIInv ==
  ASSUME IInv, NEW t \in Thread, Worker(t)
  PROVE  IInv'
  BY WorkerTypes, WorkerListing, WorkerClaimed, WorkerRegistry, WorkerSearch,
     WorkerPrecedence DEF IInv

LEMMA StutterIInv ==
  ASSUME IInv, UNCHANGED vars
  PROVE  IInv'
  <1>1. UNCHANGED <<sources, phase, listing, all_modules, candidates, next_idx,
                    error, registry, cache, pc, idx, at, local, collected,
                    outcome>>
    BY DEF vars
  <1>2. TypeOK'
    BY <1>1 DEF IInv, TypeOK
  <1>3. Listing' /\ Claimed' /\ RegistrySound' /\ Precedence'
    BY <1>1 DEF IInv, Listing, Claimed, RegistrySound, Precedence
  <1>4. SearchSound'
    BY <1>1 DEF IInv, SearchSound, SearchSoundOf, Name
  <1> QED
    BY <1>2, <1>3, <1>4 DEF IInv

LEMMA Inductive == IInv /\ [Next]_vars => IInv'
  BY ListingIInv, JoinIInv, WorkerIInv, StutterIInv DEF Next, Caller

LEMMA Invariance == Spec => []IInv
  BY InitIInv, Inductive, PTL DEF Spec

\* The variables of the loader hold values of their types, for any number of
\* threads, sources and modules (load_all_modules).
THEOREM TypeCorrect == Spec => []TypeOK
  <1>1. IInv => TypeOK
    BY DEF IInv
  <1> QED
    BY <1>1, Invariance, PTL

\* Source order alone decides which module a name gets, whatever the schedule:
\* all a thread stores and all that is merged is the result of the sequential
\* search of the name (the 'sources loop of load_all_modules).
THEOREM PrecedenceHolds == Spec => []Precedence
  <1>1. IInv => Precedence
    BY DEF IInv
  <1> QED
    BY <1>1, Invariance, PTL

------------------------------------------------------------------------------
(* The parallel load implements BulkLoad.  Precedence says that what is    *)
(* collected is right; JInv adds that nothing is lost on the way: every    *)
(* claimed name is with a thread or settled, the claim cursor is drained   *)
(* before a thread leaves without an error, and the registry holds what    *)
(* the searches read.                                                      *)


\* Threads are idle but while the scope runs; nothing precedes it.
Phases ==
  /\ phase # "loading" => \A t \in Thread : pc[t] \in {"claim", "ended"}
  /\ phase = "listing" => next_idx = 1 /\ error = NoError /\ registry = <<>>
  /\ phase # "joined" => outcome = Pending

\* What listing has found so far.
ListedSoFar(n) ==
  {s \in SourceIdx : \E k \in 1 .. Len(sources[s].lists) :
     sources[s].lists[k] = n /\ Before(<<s, k>>, listing)}

ListingSound ==
  /\ \A n \in Module :
       /\ candidates[n] = ListedSoFar(n)
       /\ candidates[n] # {} => \E i \in 1 .. Len(all_modules) : all_modules[i] = n
  /\ \A s \in SourceIdx : s < listing[1] => ~ sources[s].listFails
  /\ phase = "loading" => listing[1] > NumSources

\* The documents of n's search are all interned.
AllInterned(n) ==
  \A key \in Visited(sources, candidates[n], n) : Interned(key)

\* n is held by a thread, merged, or nowhere to be found.
Kept(n) ==
  \/ \E t \in Thread : pc[t] # "ended" /\ local[t][n] # Absent
  \/ collected[n] # Absent
  \/ Nowhere(sources, candidates[n], n)

Handled ==
  error = NoError =>
    \A i \in 1 .. Len(all_modules) : i < next_idx =>
      \/ \E t \in Thread : WorksOn(t, i)
      \/ Kept(all_modules[i]) /\ AllInterned(all_modules[i])

\* A thread leaves the queue empty, or because of an error.
Drained ==
  \A t \in Thread : pc[t] \in {"merge", "ended"} =>
    error # NoError \/ next_idx > Len(all_modules)

\* What is interned was read by a search that came to it.
RegistryVisited ==
  \A i \in 1 .. Len(registry) : \E n \in Module :
    registry[i] \in Visited(sources, candidates[n], n)

\* A search has interned the documents before its position.
InternedOf(t) ==
  /\ pc[t] \in Searching =>
       \A q \in Positions(sources, candidates[Name(t)], Name(t)) :
         Before(q, at[t]) => Interned(KeyAt(sources, Name(t), q))
  /\ pc[t] \in Reading => Interned(KeyOf(t))

SearchInterned == \A t \in Thread : InternedOf(t)

JInv == /\ IInv
        /\ Phases
        /\ ListingSound
        /\ ErrorReal
        /\ Handled
        /\ Drained
        /\ RegistryVisited
        /\ SearchInterned

------------------------------------------------------------------------------
LEMMA InitJInv == Init => JInv
  <1> SUFFICES ASSUME Init PROVE JInv
    OBVIOUS
  <1>1. IInv
    BY InitIInv
  <1>2. Phases /\ ErrorReal /\ Handled /\ Drained /\ RegistryVisited
    BY DEF Init, Phases, ErrorReal, Handled, Drained, RegistryVisited
  <1>3. ListingSound
    <2>1. \A s \in SourceIdx : s >= 1 /\ s \in Nat
      BY SourcesAssumption DEF SourceIdx
    <2>2. \A s \in SourceIdx : \A k \in 1 .. Len(sources[s].lists) :
            ~ Before(<<s, k>>, <<1, 1>>)
      BY <2>1 DEF Before
    <2>3. \A n \in Module : ListedSoFar(n) = {}
      BY <2>2 DEF Init, ListedSoFar
    <2> QED
      BY <2>1, <2>3 DEF Init, ListingSound
  <1>4. SearchInterned
    BY DEF Init, SearchInterned, InternedOf, Searching, Reading
  <1> QED
    BY <1>1, <1>2, <1>3, <1>4 DEF JInv

\* Once every source is listed, the candidates are the advertisers.
LEMMA AllListed ==
  ASSUME TypeOK, ListingSound, phase = "loading", NEW n \in Module
  PROVE  candidates[n] = Advertisers(sources, n)
  <1>1. listing[1] \in Nat /\ listing[1] > NumSources
    BY SourcesAssumption DEF TypeOK, ListingSound
  <1>2. \A s \in SourceIdx : \A k \in 1 .. Len(sources[s].lists) :
          Before(<<s, k>>, listing)
    BY <1>1, SourcesAssumption DEF Before, SourceIdx
  <1>3. ListedSoFar(n) = Advertisers(sources, n)
    BY <1>2 DEF ListedSoFar, Advertisers
  <1> QED
    BY <1>3 DEF ListingSound

------------------------------------------------------------------------------
(* Listing. *)

LEMMA ListNameSound ==
  ASSUME TypeOK, ListingSound, NEW s \in SourceIdx,
         NEW k \in 1 .. Len(sources[s].lists), ListName(s, k)
  PROVE  ListingSound'
  <1> DEFINE m == sources[s].lists[k]
  <1>1. /\ listing = <<s, k>> /\ listing' = <<s, k + 1>>
        /\ UNCHANGED <<sources, phase>> /\ phase = "listing"
        /\ ~ sources[s].listFails
    BY DEF ListName
  <1>2. s \in Nat /\ k \in Nat
    BY SourcesAssumption, SourceFields DEF SourceIdx
  <1>3. m \in Module
    BY SourceFields DEF TypeOK
  <1>4. \A r \in SourceIdx : \A i \in 1 .. Len(sources[r].lists) :
          Before(<<r, i>>, listing') <=>
            Before(<<r, i>>, listing) \/ (r = s /\ i = k)
    <2> SUFFICES ASSUME NEW r \in SourceIdx, NEW i \in 1 .. Len(sources[r].lists)
                 PROVE  Before(<<r, i>>, listing') <=>
                          Before(<<r, i>>, listing) \/ (r = s /\ i = k)
      OBVIOUS
    <2>1. r \in Nat /\ i \in Nat
      BY SourcesAssumption DEF SourceIdx
    <2> QED
      BY <1>1, <1>2, <2>1 DEF Before
  <1>5. ASSUME NEW n \in Module
        PROVE  ListedSoFar(n)' = IF n = m THEN ListedSoFar(n) \cup {s}
                                          ELSE ListedSoFar(n)
    BY <1>1, <1>4 DEF ListedSoFar
  <1>6. candidates' = [candidates EXCEPT ![m] = @ \cup {s}]
    BY DEF ListName
  <1>7. \A n \in Module : candidates'[n] = ListedSoFar(n)'
    BY <1>3, <1>5, <1>6 DEF ListingSound, TypeOK
  <1>8. all_modules' = IF candidates[m] = {} THEN Append(all_modules, m)
                                             ELSE all_modules
    BY DEF ListName
  <1>9. ASSUME NEW n \in Module, candidates'[n] # {}
        PROVE  \E i \in 1 .. Len(all_modules') : all_modules'[i] = n
    <2>1. all_modules \in Seq(Module)
      BY DEF TypeOK
    <2>2. CASE candidates[n] # {}
      <3>1. PICK i \in 1 .. Len(all_modules) : all_modules[i] = n
        BY <2>2 DEF ListingSound
      <3>2. CASE all_modules' = all_modules
        BY <3>1, <3>2
      <3>3. CASE all_modules' = Append(all_modules, m)
        BY <1>3, <2>1, <3>1, <3>3
      <3> QED
        BY <1>8, <3>2, <3>3
    <2>3. CASE candidates[n] = {}
      <3>1. n = m
        BY <1>3, <1>6, <1>9, <2>3 DEF TypeOK
      <3>2. all_modules' = Append(all_modules, m)
        BY <1>8, <2>3, <3>1
      <3> QED
        BY <1>3, <2>1, <3>1, <3>2
    <2> QED
      BY <2>2, <2>3
  <1>10. \A r \in SourceIdx : r < listing'[1] => ~ sources'[r].listFails
    BY <1>1 DEF ListingSound
  <1> QED
    BY <1>1, <1>7, <1>9, <1>10 DEF ListingSound

LEMMA ListNextSourceSound ==
  ASSUME TypeOK, ListingSound, NEW s \in SourceIdx, ListNextSource(s)
  PROVE  ListingSound'
  <1>1. /\ listing[1] = s /\ listing[2] > Len(sources[s].lists)
        /\ listing' = <<s + 1, 1>>
        /\ UNCHANGED <<sources, all_modules, candidates>>
        /\ phase' = IF s = NumSources THEN "loading" ELSE "listing"
        /\ ~ sources[s].listFails
    BY DEF ListNextSource
  <1>2. /\ s \in Nat
        /\ NumSources \in Nat
        /\ listing[2] \in Nat
    BY SourcesAssumption DEF SourceIdx, TypeOK
  <1>3. ASSUME NEW r \in SourceIdx, NEW i \in 1 .. Len(sources[r].lists)
        PROVE  Before(<<r, i>>, listing') <=> Before(<<r, i>>, listing)
    <2>1. r \in Nat /\ i \in Nat
      BY SourcesAssumption DEF SourceIdx
    <2>2. Len(sources[s].lists) \in Nat
      BY SourceFields DEF TypeOK
    <2> QED
      BY <1>1, <1>2, <2>1, <2>2 DEF Before
  <1>4. \A n \in Module : ListedSoFar(n)' = ListedSoFar(n)
    BY <1>1, <1>3 DEF ListedSoFar
  <1>5. \A r \in SourceIdx : r < s + 1 => ~ sources[r].listFails
    <2>1. \A r \in SourceIdx : r \in Nat
      BY SourcesAssumption DEF SourceIdx
    <2> QED
      BY <1>1, <1>2, <2>1 DEF ListingSound
  <1> QED
    BY <1>1, <1>2, <1>4, <1>5 DEF ListingSound

LEMMA ListingJInv ==
  ASSUME JInv, NEW s \in SourceIdx,
         \/ ListFails(s)
         \/ \E k \in 1 .. Len(sources[s].lists) : ListName(s, k)
         \/ ListNextSource(s)
  PROVE  JInv'
  <1>1. IInv'
    BY ListingIInv DEF JInv
  <1>2. /\ \A t \in Thread : pc[t] = "claim"
        /\ next_idx = 1 /\ error = NoError /\ registry = <<>>
    BY DEF JInv, IInv, Listing, Phases, ListFails, ListName, ListNextSource
  <1>3. UNCHANGED <<sources, next_idx, error, registry, pc>>
    BY DEF ListFails, ListName, ListNextSource, listed, pool
  <1>4. ErrorReal' /\ Drained' /\ RegistryVisited' /\ SearchInterned'
    BY <1>2, <1>3 DEF ErrorReal, Drained, RegistryVisited, SearchInterned,
                      InternedOf, Searching, Reading
  <1>7. Phases'
    BY <1>2, <1>3 DEF Phases, JInv, ListFails, ListName, ListNextSource
  <1>5. Handled'
    BY <1>2, <1>3 DEF Handled
  <1>6. ListingSound'
    <2>1. CASE ListFails(s)
      BY <2>1 DEF ListFails, listed, JInv, ListingSound, ListedSoFar
    <2>2. CASE \E k \in 1 .. Len(sources[s].lists) : ListName(s, k)
      BY <2>2, ListNameSound DEF JInv, IInv
    <2>3. CASE ListNextSource(s)
      BY <2>3, ListNextSourceSound DEF JInv, IInv
    <2> QED
      BY <2>1, <2>2, <2>3
  <1> QED
    BY <1>1, <1>4, <1>5, <1>6, <1>7 DEF JInv

------------------------------------------------------------------------------
(* The threads. *)

\* A thread runs only inside the scope.
LEMMA WorkerLoading ==
  ASSUME Phases, NEW t \in Thread, Worker(t)
  PROVE  phase = "loading"
  BY DEF Phases, Worker, Claim, CheckError, NextSource, GiveUp, ReadError,
         Intern, InternError, CacheEntry, GetOrInit, Decode, Unblock, Match,
         Merge

LEMMA WorkerPhases ==
  ASSUME TypeOK, Phases, NEW t \in Thread, Worker(t)
  PROVE  Phases'
  <1>1. outcome' = outcome
    BY DEF Worker, Claim, CheckError, NextSource, GiveUp, ReadError, Intern,
           InternError, CacheEntry, GetOrInit, Decode, Unblock, Match, Merge
  <1> QED
    BY <1>1, WorkerLoading, OthersUntouched DEF Phases

LEMMA WorkerListingSound ==
  ASSUME TypeOK, Phases, ListingSound, NEW t \in Thread, Worker(t)
  PROVE  ListingSound'
  <1>1. UNCHANGED <<listed, phase>>
    BY OthersUntouched
  <1> QED
    BY <1>1 DEF listed, ListingSound, ListedSoFar

\* What a step does to the latch, the cursor and the registry.
LEMMA SharedChanges ==
  ASSUME IInv, NEW t \in Thread, Worker(t)
  PROVE  /\ \/ error' = error
            \/ ReadError(t) \/ InternError(t)
         /\ \/ next_idx' = next_idx
            \/ Claim(t) /\ next_idx' = next_idx + 1
         /\ \/ registry' = registry
            \/ Intern(t) /\ registry' = Append(registry, KeyOf(t))
  BY DEF Worker, Claim, CheckError, NextSource, GiveUp, ReadError, Intern,
         InternError, CacheEntry, GetOrInit, Decode, Unblock, Match, Merge

\* The document a thread is about to intern is a key, at a position its search
\* reached.
LEMMA InternKey ==
  ASSUME IInv, NEW t \in Thread, Intern(t)
  PROVE  /\ Name(t) \in Module
         /\ at[t] \in Positions(sources, candidates[Name(t)], Name(t))
         /\ Reached(sources, candidates[Name(t)], Name(t), at[t])
         /\ KeyOf(t) \in Key
  <1>1. /\ Name(t) \in Module
        /\ candidates[Name(t)] \in SUBSET SourceIdx
        /\ sources \in Worlds
    BY NameType DEF IInv, TypeOK, Intern, Searching
  <1>2. /\ at[t] \in Positions(sources, candidates[Name(t)], Name(t))
        /\ ~ ReadFails(sources, Name(t), at[t])
    BY AtCandidatePosition DEF IInv, Intern
  <1>3. Reached(sources, candidates[Name(t)], Name(t), at[t])
    BY <1>2 DEF IInv, SearchSound, SearchSoundOf, Searching, Intern, Reached
  <1>4. KeyOf(t) \in Key
    BY <1>1, <1>2, KeyAtType DEF KeyOf
  <1> QED
    BY <1>1, <1>2, <1>3, <1>4

LEMMA InternedGrows ==
  ASSUME IInv, NEW t \in Thread, Worker(t), NEW key, Interned(key)
  PROVE  Interned(key)'
  <1>1. CASE registry' = registry
    BY <1>1 DEF Interned
  <1>2. CASE Intern(t) /\ registry' = Append(registry, KeyOf(t))
    <2>1. KeyOf(t) \in Key /\ registry \in Seq(Key)
      BY <1>2, InternKey DEF IInv, TypeOK
    <2>2. /\ Len(registry') = Len(registry) + 1
          /\ \A i \in 1 .. Len(registry) : registry'[i] = registry[i]
          /\ Len(registry) \in Nat
      BY <1>2, <2>1
    <2> QED
      BY <2>2 DEF Interned
  <1> QED
    BY <1>1, <1>2, SharedChanges

LEMMA ErrorStays ==
  ASSUME IInv, NEW t \in Thread, Worker(t), error # NoError
  PROVE  error' # NoError
  BY SharedChanges DEF ReadError, InternError, FaultOf, NoError

\* A thread's module is merged before the thread is gone.
LEMMA KeptStays ==
  ASSUME IInv, NEW t \in Thread, Worker(t), NEW n \in Module, Kept(n)
  PROVE  Kept(n)'
  <1>1. UNCHANGED <<sources, candidates>>
    BY OthersUntouched DEF listed, IInv
  <1>2. CASE Merge(t)
    <2>1. \A m \in Module : /\ collected[m] # Absent => collected'[m] # Absent
                            /\ local[t][m] # Absent => collected'[m] # Absent
      BY <1>2 DEF Merge
    <2>2. local' = local
      BY <1>2 DEF Merge
    <2>3. \A u \in Thread \ {t} : pc'[u] = pc[u]
      BY OthersUntouched DEF IInv
    <2> QED
      BY <1>1, <2>1, <2>2, <2>3 DEF Kept
  <1>3. CASE ~ Merge(t)
    <2>1. collected' = collected
      BY <1>3 DEF Worker, Claim, CheckError, NextSource, GiveUp, ReadError,
                  Intern, InternError, CacheEntry, GetOrInit, Decode, Unblock,
                  Match
    <2>2. pc'[t] # "ended"
      BY <1>3 DEF Worker, Claim, CheckError, NextSource, GiveUp, ReadError,
                  Intern, InternError, CacheEntry, GetOrInit, Decode, Unblock,
                  Match, Goto, IInv, TypeOK
    <2>3. local[t][n] # Absent => local'[t][n] # Absent
      <3>1. CASE local' = local
        BY <3>1
      <3>2. CASE /\ Match(t)
                 /\ local' = [local EXCEPT ![t] = [@ EXCEPT ![Name(t)] = KeyOf(t)]]
        <4>1. KeyOf(t) # Absent
          BY <3>2, KeyOfType, AbsentAssumption DEF Match, Reading, IInv
        <4>2. \/ local'[t][n] = local[t][n]
              \/ local'[t][n] = KeyOf(t)
          BY <3>2 DEF IInv, TypeOK
        <4> QED
          BY <4>1, <4>2
      <3> QED
        BY <1>3, <3>1, <3>2
           DEF Worker, Claim, CheckError, NextSource, GiveUp, ReadError,
               Intern, InternError, CacheEntry, GetOrInit, Decode, Unblock, Match
    <2>4. \A u \in Thread \ {t} : pc'[u] = pc[u] /\ local'[u] = local[u]
      BY OthersUntouched DEF IInv
    <2> QED
      BY <1>1, <2>1, <2>2, <2>3, <2>4 DEF Kept
  <1> QED
    BY <1>2, <1>3

LEMMA WorkerDrained ==
  ASSUME IInv, Drained, NEW t \in Thread, Worker(t)
  PROVE  Drained'
  <1> SUFFICES ASSUME NEW u \in Thread, pc'[u] \in {"merge", "ended"}
               PROVE  error' # NoError \/ next_idx' > Len(all_modules')
    BY DEF Drained
  <1>1. all_modules' = all_modules
    BY OthersUntouched DEF listed, IInv
  <1>2. next_idx \in Nat /\ Len(all_modules) \in Nat
    BY DEF IInv, TypeOK
  <1>3. next_idx > Len(all_modules) => next_idx' > Len(all_modules)
    BY <1>2, SharedChanges
  <1>4. CASE pc[u] \in {"merge", "ended"}
    BY <1>1, <1>3, <1>4, ErrorStays DEF Drained
  <1>5. CASE u = t /\ Claim(t)
    BY <1>1, <1>2, <1>5 DEF Claim, Goto, IInv, TypeOK
  <1>6. CASE u = t /\ CheckError(t)
    BY <1>6 DEF CheckError, Goto, IInv, TypeOK
  <1>7. u # t => pc'[u] = pc[u]
    BY OthersUntouched DEF IInv
  <1>8. u = t => pc[t] \in {"merge", "ended"} \/ Claim(t) \/ CheckError(t)
    BY DEF Worker, NextSource, GiveUp, ReadError, Intern, InternError,
           CacheEntry, GetOrInit, Decode, Unblock, Match, Merge, Goto, IInv,
           TypeOK
  <1> QED
    BY <1>4, <1>5, <1>6, <1>7, <1>8

\* A fault a thread meets is one its search meets: no earlier candidate ends it.
LEMMA WorkerErrorReal ==
  ASSUME JInv, NEW t \in Thread, Worker(t)
  PROVE  ErrorReal'
  <1> USE DEF JInv
  <1>1. sources' = sources
    BY OthersUntouched DEF listed, IInv
  <1>2. CASE error' = error
    BY <1>1, <1>2 DEF ErrorReal
  <1>3. CASE ReadError(t) \/ InternError(t)
    <2>1. /\ Name(t) \in Module
          /\ candidates[Name(t)] = Advertisers(sources, Name(t))
      BY <1>3, NameType, AllListed, WorkerLoading
         DEF ReadError, InternError, Searching, IInv
    <2>2. /\ at[t] \in Positions(sources, candidates[Name(t)], Name(t))
          /\ Fault(sources, Name(t), at[t])
      BY <1>3, AtCandidatePosition
         DEF ReadError, InternError, IInv, SearchSound, SearchSoundOf, Fault
    <2>3. \A q \in Positions(sources, candidates[Name(t)], Name(t)) :
            Before(q, at[t]) => ~ Stops(sources, Name(t), q)
      BY <1>3 DEF ReadError, InternError, IInv, SearchSound, SearchSoundOf,
                  Searching
    <2>4. FailsAt(sources, Advertisers(sources, Name(t)), Name(t), at[t])
      BY <2>1, <2>2, <2>3 DEF FailsAt, Reached
    <2>5. FaultOf(sources, Name(t), at[t]) \in SearchFaults(sources)
      BY <2>1, <2>2, <2>4 DEF SearchFaults
    <2>6. error' = FaultOf(sources, Name(t), at[t])
      BY <1>3 DEF ReadError, InternError
    <2> QED
      BY <1>1, <2>5, <2>6 DEF ErrorReal
  <1> QED
    BY <1>2, <1>3, SharedChanges

LEMMA WorkerRegistryVisited ==
  ASSUME IInv, RegistryVisited, NEW t \in Thread, Worker(t)
  PROVE  RegistryVisited'
  <1>1. UNCHANGED <<sources, candidates>>
    BY OthersUntouched DEF listed, IInv
  <1>2. CASE registry' = registry
    BY <1>1, <1>2 DEF RegistryVisited
  <1>3. CASE /\ Intern(t)
             /\ registry' = Append(registry, KeyOf(t))
             /\ ~ InternFails(sources, Name(t), at[t])
    <2>1. KeyOf(t) \in Visited(sources, candidates[Name(t)], Name(t))
      BY <1>3, InternKey DEF Visited, Fault, KeyOf, Intern
    <2>2. KeyOf(t) \in Key /\ Name(t) \in Module /\ registry \in Seq(Key)
      BY <1>3, InternKey DEF IInv, TypeOK
    <2>3. \A i \in 1 .. Len(registry') :
            \/ i \in 1 .. Len(registry) /\ registry'[i] = registry[i]
            \/ registry'[i] = KeyOf(t)
      BY <1>3, <2>2
    <2> QED
      BY <1>1, <2>1, <2>2, <2>3 DEF RegistryVisited
  <1>4. Intern(t) => \/ registry' = registry
                     \/ /\ registry' = Append(registry, KeyOf(t))
                        /\ ~ InternFails(sources, Name(t), at[t])
    BY DEF Intern
  <1> QED
    BY <1>2, <1>3, <1>4, SharedChanges

LEMMA WorkerInterned ==
  ASSUME IInv, SearchInterned, NEW t \in Thread, Worker(t)
  PROVE  SearchInterned'
  <1>1. UNCHANGED <<sources, candidates, all_modules>>
    BY OthersUntouched DEF listed, IInv
  <1>2. ASSUME NEW u \in Thread \ {t} PROVE InternedOf(u)'
    <2>1. UNCHANGED <<pc[u], at[u], Name(u)>>
      BY OthersUntouched DEF IInv
    <2>2. InternedOf(u)
      BY DEF SearchInterned
    <2>3. KeyOf(u)' = KeyOf(u)
      BY <1>1, <2>1 DEF KeyOf
    <2> QED
      BY <1>1, <2>1, <2>2, <2>3, InternedGrows DEF InternedOf
  <1>3. InternedOf(t)'
    <2> USE DEF Goto, Searching, Reading
    <2>1. pc \in [Thread -> PC] /\ at \in [Thread -> (1 .. NumSources + 1) \X (Nat \ {0})]
      BY DEF IInv, TypeOK
    <2>2. InternedOf(t)
      BY DEF SearchInterned
    <2>3. PICK s \in 1 .. NumSources + 1, j \in Nat \ {0} : at[t] = <<s, j>>
      BY <2>1
    <2>4. s \in Nat
      BY SourcesAssumption
    <2>5. ASSUME pc[t] \in Searching \cup {"check"}
          PROVE  /\ Name(t) \in Module
                 /\ candidates[Name(t)] \in SUBSET SourceIdx
                 /\ sources \in Worlds
      BY <2>5, NameType DEF IInv, TypeOK
    <2>6. CASE Claim(t)
      BY <2>1, <2>6 DEF Claim, InternedOf
    <2>7. CASE CheckError(t)
      <3>1. Name(t)' = Name(t)
        BY <1>1, <2>7 DEF CheckError, Name
      <3>2. \A q \in Positions(sources, candidates[Name(t)], Name(t)) :
              ~ Before(q, <<1, 1>>)
        <4> SUFFICES
              ASSUME NEW q \in Positions(sources, candidates[Name(t)], Name(t))
              PROVE  ~ Before(q, <<1, 1>>)
          OBVIOUS
        <4>1. /\ Name(t) \in Module
              /\ candidates[Name(t)] \in SUBSET SourceIdx
              /\ sources \in Worlds
          BY <2>5, <2>7 DEF CheckError
        <4>2. \E r \in candidates[Name(t)], k \in Nat \ {0} :
                q = <<r, k>> /\ k <= Len(sources[r].find[Name(t)])
          BY <4>1, PositionParts
        <4> QED
          BY <4>1, <4>2 DEF Before, SourceIdx
      <3> QED
        BY <1>1, <2>1, <2>7, <3>1, <3>2 DEF CheckError, InternedOf
    <2>8. CASE NextSource(t)
      <3>1. Name(t)' = Name(t) /\ pc'[t] = "search" /\ at'[t] = <<s + 1, 1>>
        BY <1>1, <2>1, <2>3, <2>8 DEF NextSource, Name
      <3>2. <<s, j>> \notin Positions(sources, candidates[Name(t)], Name(t))
        BY <2>3, <2>8, AtCandidatePosition DEF NextSource, IInv
      <3>3. \A q \in Positions(sources, candidates[Name(t)], Name(t)) :
              Before(q, <<s + 1, 1>>) => Before(q, <<s, j>>)
        BY <2>4, <2>5, <2>8, <3>2, PassOver DEF NextSource
      <3>4. \A q \in Positions(sources, candidates[Name(t)], Name(t)) :
              Before(q, <<s, j>>) => Interned(KeyAt(sources, Name(t), q))
        BY <2>2, <2>3, <2>8 DEF NextSource, InternedOf
      <3> QED
        BY <1>1, <3>1, <3>3, <3>4, InternedGrows DEF InternedOf
    <2>9. CASE Intern(t)
      <3>1. /\ Name(t)' = Name(t) /\ at' = at /\ pc[t] = "search"
            /\ KeyOf(t)' = KeyOf(t)
        BY <1>1, <2>9 DEF Intern, Name, KeyOf
      <3>2. pc'[t] = "entry" => Interned(KeyOf(t))'
        <4>1. CASE Interned(KeyOf(t))
          BY <3>1, <4>1, InternedGrows
        <4>2. CASE registry' = Append(registry, KeyOf(t))
          <5>1. KeyOf(t) \in Key /\ registry \in Seq(Key)
            BY <2>9, InternKey DEF IInv, TypeOK
          <5> QED
            BY <3>1, <4>2, <5>1 DEF Interned
        <4> QED
          BY <2>1, <2>9, <4>1, <4>2 DEF Intern
      <3>3. \A q \in Positions(sources, candidates[Name(t)], Name(t)) :
              Before(q, at[t]) => Interned(KeyAt(sources, Name(t), q))
        BY <2>2, <3>1 DEF InternedOf
      <3>4. pc'[t] \in {"entry", "latch"}
        BY <2>1, <2>9 DEF Intern
      <3> QED
        BY <1>1, <3>1, <3>2, <3>3, <3>4, InternedGrows DEF InternedOf
    <2>10. CASE Match(t)
      <3>1. Name(t)' = Name(t) /\ pc[t] = "match"
        BY <1>1, <2>10 DEF Match, Name
      <3>2. CASE pc'[t] = "claim"
        BY <3>2 DEF InternedOf
      <3>3. CASE pc'[t] = "search" /\ at'[t] = <<s, j + 1>>
        <4>1. Interned(KeyAt(sources, Name(t), <<s, j>>))
          BY <2>2, <2>3, <3>1 DEF InternedOf, KeyOf
        <4>2. \A q \in Positions(sources, candidates[Name(t)], Name(t)) :
                Before(q, <<s, j + 1>>) => Interned(KeyAt(sources, Name(t), q))
          <5>1. \A q \in Positions(sources, candidates[Name(t)], Name(t)) :
                  Before(q, <<s, j + 1>>) => Before(q, <<s, j>>) \/ q = <<s, j>>
            BY <2>4, <2>5, <3>1, PassOver
          <5>2. \A q \in Positions(sources, candidates[Name(t)], Name(t)) :
                  Before(q, <<s, j>>) => Interned(KeyAt(sources, Name(t), q))
            BY <2>2, <2>3, <3>1 DEF InternedOf
          <5> QED
            BY <4>1, <5>1, <5>2
        <4> QED
          BY <1>1, <3>1, <3>3, <4>2, InternedGrows DEF InternedOf
      <3> QED
        BY <2>1, <2>3, <2>10, <3>2, <3>3 DEF Match
    <2>11. CASE /\ UNCHANGED <<idx, at, registry>>
                /\ \/ pc'[t] \notin Searching \cup {"check"}
                   \/ /\ pc[t] \in Reading
                      /\ pc'[t] \in Reading
      <3>1. Name(t)' = Name(t) /\ KeyOf(t)' = KeyOf(t)
        BY <1>1, <2>11 DEF Name, KeyOf
      <3> QED
        BY <1>1, <2>2, <2>11, <3>1, InternedGrows DEF InternedOf
    <2> QED
      BY <2>6, <2>7, <2>8, <2>9, <2>10, <2>11, StepOf DEF IInv
  <1> QED
    BY <1>2, <1>3 DEF SearchInterned

------------------------------------------------------------------------------
(* A claimed name is handled. *)

LEMMA PositionsOrdered ==
  ASSUME NEW src \in Worlds, NEW S \in SUBSET SourceIdx, NEW n \in Module,
         NEW p \in Positions(src, S, n), NEW q \in Positions(src, S, n)
  PROVE  Before(p, q) \/ p = q \/ Before(q, p)
  <1>1. PICK s \in S, j \in Nat \ {0} : p = <<s, j>> /\ j <= Len(src[s].find[n])
    BY PositionParts
  <1>2. PICK r \in S, k \in Nat \ {0} : q = <<r, k>> /\ k <= Len(src[r].find[n])
    BY PositionParts
  <1>3. s \in Nat /\ r \in Nat
    BY SourcesAssumption DEF SourceIdx
  <1> QED
    BY <1>1, <1>2, <1>3 DEF Before

\* A hit settles the name: it is in local_modules, and all that its search read
\* is interned.
LEMMA MatchSettles ==
  ASSUME IInv, SearchInterned, NEW t \in Thread, Match(t), pc'[t] = "claim"
  PROVE  Kept(Name(t))' /\ AllInterned(Name(t))'
  <1> DEFINE n == Name(t)
             P == Positions(sources, candidates[n], n)
  <1>1. /\ n \in Module
        /\ candidates[n] \in SUBSET SourceIdx
        /\ sources \in Worlds
        /\ pc[t] = "match"
    BY NameType DEF Match, Searching, IInv, TypeOK
  <1>2. /\ Confirms(sources, n, KeyOf(t))
        /\ local' = [local EXCEPT ![t] = [@ EXCEPT ![n] = KeyOf(t)]]
    BY DEF Match, Goto, IInv, TypeOK
  <1>3. UNCHANGED <<sources, candidates, all_modules, registry, idx>>
    BY DEF Match, listed
  <1>4. KeyOf(t) # Absent
    BY <1>1, KeyOfType, AbsentAssumption DEF Reading, IInv
  <1>5. n' = n
    BY <1>3 DEF Name
  <1>6. Kept(n)'
    <2>1. local'[t][n] = KeyOf(t)
      BY <1>1, <1>2 DEF IInv, TypeOK
    <2> QED
      BY <1>4, <1>5, <2>1 DEF Kept
  <1>7. AllInterned(n)'
    <2> SUFFICES ASSUME NEW q \in P, Reached(sources, candidates[n], n, q)
                 PROVE  Interned(KeyAt(sources, n, q))
      BY <1>3, <1>5 DEF AllInterned, Visited, Interned
    <2>1. /\ at[t] \in P
          /\ Stops(sources, n, at[t])
      BY <1>1, <1>2 DEF IInv, SearchSound, SearchSoundOf, Reading, Stops, Hit,
                        KeyOf
    <2>2. q = at[t] \/ Before(q, at[t])
      BY <1>1, <2>1, PositionsOrdered DEF Reached
    <2> QED
      BY <1>1, <2>2 DEF SearchInterned, InternedOf, Searching, Reading, KeyOf
  <1> QED
    BY <1>6, <1>7

\* So does the end of all sources.
LEMMA GiveUpSettles ==
  ASSUME IInv, SearchInterned, NEW t \in Thread, GiveUp(t)
  PROVE  Kept(Name(t))' /\ AllInterned(Name(t))'
  <1> DEFINE n == Name(t)
             P == Positions(sources, candidates[n], n)
  <1>1. /\ n \in Module
        /\ candidates[n] \in SUBSET SourceIdx
        /\ sources \in Worlds
        /\ pc[t] = "search"
    BY NameType DEF GiveUp, Searching, IInv, TypeOK
  <1>2. UNCHANGED <<sources, candidates, all_modules, registry, idx>>
    BY DEF GiveUp, listed
  <1>3. n' = n
    BY <1>2 DEF Name
  <1>4. ASSUME NEW q \in P PROVE Before(q, at[t])
    <2>1. PICK r \in candidates[n], k \in Nat \ {0} :
            q = <<r, k>> /\ k <= Len(sources[r].find[n])
      BY <1>1, PositionParts
    <2>2. r \in SourceIdx /\ at[t][1] > NumSources /\ at[t][1] \in Nat
      BY <1>1, <2>1, SourcesAssumption DEF GiveUp, IInv, TypeOK
    <2> QED
      BY <2>1, <2>2, SourcesAssumption DEF Before, SourceIdx
  <1>5. Nowhere(sources, candidates[n], n)
    BY <1>1, <1>4 DEF IInv, SearchSound, SearchSoundOf, Searching, Nowhere
  <1>6. \A q \in P : Interned(KeyAt(sources, n, q))
    BY <1>1, <1>4 DEF SearchInterned, InternedOf, Searching
  <1> QED
    BY <1>2, <1>3, <1>5, <1>6 DEF Kept, AllInterned, Visited, Interned

\* A thread lets go of a name when it is settled or because of an error.
LEMMA LetsGo ==
  ASSUME IInv, SearchInterned, NEW t \in Thread, Worker(t),
         NEW i, WorksOn(t, i), ~ WorksOn(t, i)'
  PROVE  \/ error' # NoError
         \/ /\ i = idx[t] /\ Name(t) \in Module
            /\ Kept(all_modules[i])' /\ AllInterned(all_modules[i])'
  <1> USE DEF Goto, WorksOn
  <1>1. pc \in [Thread -> PC] /\ idx \in [Thread -> Nat \ {0}]
    BY DEF IInv, TypeOK
  <1>2. i = idx[t] /\ all_modules' = all_modules
    BY OthersUntouched DEF listed, IInv
  <1>3. idx'[t] = idx[t]
    BY DEF Worker, Claim, CheckError, NextSource, GiveUp, ReadError, Intern,
           InternError, CacheEntry, GetOrInit, Decode, Unblock, Match, Merge
  <1>4. Name(t)' = Name(t) /\ Name(t) = all_modules[i]
    BY <1>2, <1>3 DEF Name
  <1>5. Name(t) \in Module
    BY NameType DEF IInv, Searching
  <1>6. \/ ReadError(t) \/ InternError(t) \/ GiveUp(t)
        \/ Match(t) /\ pc'[t] = "claim"
        \/ CheckError(t) /\ error # NoError
    BY <1>1, <1>3
       DEF Worker, Claim, CheckError, NextSource, Intern, CacheEntry, GetOrInit,
           Decode, Unblock, Match, Merge
  <1>7. CASE ReadError(t) \/ InternError(t)
    BY <1>7 DEF ReadError, InternError, FaultOf, NoError
  <1>8. CASE CheckError(t) /\ error # NoError
    BY <1>8, ErrorStays
  <1>9. CASE GiveUp(t)
    BY <1>2, <1>4, <1>5, <1>9, GiveUpSettles
  <1>10. CASE Match(t) /\ pc'[t] = "claim"
    BY <1>2, <1>4, <1>5, <1>10, MatchSettles
  <1> QED
    BY <1>6, <1>7, <1>8, <1>9, <1>10

LEMMA WorkerHandled ==
  ASSUME IInv, SearchInterned, Handled, NEW t \in Thread, Worker(t)
  PROVE  Handled'
  <1>1. /\ UNCHANGED <<sources, candidates, all_modules>>
        /\ all_modules \in Seq(Module) /\ next_idx \in Nat
    BY OthersUntouched DEF listed, IInv, TypeOK
  <1> SUFFICES ASSUME error' = NoError,
                      NEW i \in 1 .. Len(all_modules), i < next_idx'
               PROVE  \/ \E u \in Thread : WorksOn(u, i)'
                      \/ Kept(all_modules[i])' /\ AllInterned(all_modules[i])'
    BY <1>1 DEF Handled
  <1>2. error = NoError
    BY ErrorStays
  <1>3. all_modules[i] \in Module
    BY <1>1
  <1>4. CASE i < next_idx
    <2>1. CASE \E u \in Thread \ {t} : WorksOn(u, i)
      BY <2>1, OthersUntouched DEF WorksOn, IInv
    <2>2. CASE WorksOn(t, i)
      BY <2>2, LetsGo
    <2>3. CASE Kept(all_modules[i]) /\ AllInterned(all_modules[i])
      <3>1. Kept(all_modules[i])'
        BY <1>1, <1>3, <2>3, KeptStays DEF Kept
      <3>2. AllInterned(all_modules[i])'
        BY <1>1, <2>3, InternedGrows DEF AllInterned
      <3> QED
        BY <3>1, <3>2
    <2> QED
      BY <1>2, <1>4, <2>1, <2>2, <2>3 DEF Handled
  <1>5. CASE ~ (i < next_idx)
    <2>1. Claim(t) /\ next_idx' = next_idx + 1 /\ i = next_idx
      BY <1>1, <1>5, SharedChanges
    <2>2. idx'[t] = i /\ pc'[t] = "check"
      BY <1>1, <2>1 DEF Claim, Goto, IInv, TypeOK
    <2> QED
      BY <2>2 DEF WorksOn
  <1> QED
    BY <1>4, <1>5

LEMMA WorkerJInv ==
  ASSUME JInv, NEW t \in Thread, Worker(t)
  PROVE  JInv'
  <1>1. IInv /\ TypeOK
    BY DEF JInv, IInv
  <1> QED
    BY <1>1, WorkerIInv, WorkerPhases, WorkerListingSound, WorkerErrorReal,
       WorkerHandled, WorkerDrained, WorkerRegistryVisited, WorkerInterned
       DEF JInv

------------------------------------------------------------------------------
LEMMA JoinJInv ==
  ASSUME JInv, Join
  PROVE  JInv'
  <1>1. IInv'
    BY JoinIInv DEF JInv
  <1>2. /\ UNCHANGED <<sources, listing, all_modules, candidates, next_idx,
                       error, registry, pc, idx, at, local, collected>>
        /\ phase' = "joined"
        /\ \A t \in Thread : pc[t] = "ended"
    BY DEF Join, listed, pool
  <1>3. Phases' /\ ErrorReal' /\ Drained' /\ RegistryVisited'
    BY <1>2 DEF JInv, Phases, ErrorReal, Drained, RegistryVisited
  <1>4. ListingSound'
    BY <1>2 DEF JInv, ListingSound, ListedSoFar
  <1>5. Handled'
    BY <1>2 DEF JInv, Handled, WorksOn, Kept, AllInterned, Interned
  <1>6. SearchInterned'
    BY <1>2 DEF SearchInterned, InternedOf, Searching, Reading
  <1> QED
    BY <1>1, <1>3, <1>4, <1>5, <1>6 DEF JInv

LEMMA StutterJInv ==
  ASSUME JInv, UNCHANGED vars
  PROVE  JInv'
  <1>1. IInv'
    BY StutterIInv DEF JInv
  <1>2. UNCHANGED <<sources, phase, listing, all_modules, candidates, next_idx,
                    error, registry, cache, pc, idx, at, local, collected,
                    outcome>>
    BY DEF vars
  <1>3. Phases' /\ ErrorReal' /\ Drained' /\ RegistryVisited'
    BY <1>2 DEF JInv, Phases, ErrorReal, Drained, RegistryVisited
  <1>4. ListingSound'
    BY <1>2 DEF JInv, ListingSound, ListedSoFar
  <1>5. Handled'
    BY <1>2 DEF JInv, Handled, WorksOn, Kept, AllInterned, Interned
  <1>6. SearchInterned'
    BY <1>2 DEF JInv, SearchInterned, InternedOf, Interned, KeyOf, Name
  <1> QED
    BY <1>1, <1>3, <1>4, <1>5, <1>6 DEF JInv

LEMMA JInvInductive == JInv /\ [Next]_vars => JInv'
  BY ListingJInv, JoinJInv, WorkerJInv, StutterJInv DEF Next, Caller

LEMMA JInvariance == Spec => []JInv
  BY InitJInv, JInvInductive, PTL DEF Spec

------------------------------------------------------------------------------
(* The load implements BulkLoad. *)

\* The operators that BulkLoad shares with this module.
LEMMA SameOperators ==
  /\ B!Pending = Pending
  /\ \A e : B!Err(e) = Err(e)
  /\ \A m, d : B!Ok(m, d) = Ok(m, d)
  /\ \A s : B!ListingFault(s) = ListingFault(s)
  /\ \A src, s : B!ListingFailsAt(src, s) = ListingFailsAt(src, s)
  /\ \A src : B!SearchFaults(src) = SearchFaults(src)
  /\ \A src : B!Resolution(src) = Resolution(src)
  /\ \A src : B!AllVisited(src) = AllVisited(src)
  /\ B!SourceIdx = SourceIdx
  <1> USE DEF B!SourceIdx, SourceIdx, B!Key, Key, B!Positions, Positions,
              B!Before, Before, B!Candidate, Candidate, B!KeyAt, KeyAt,
              B!ReadFails, ReadFails, B!InternFails, InternFails,
              B!Fault, Fault, B!Confirms, Confirms, B!Hit, Hit, B!Stops, Stops,
              B!Reached, Reached, B!Finds, Finds, B!FailsAt, FailsAt,
              B!Advertisers, Advertisers
  <1>1. B!Pending = Pending
    BY DEF B!Pending, Pending
  <1>2. \A e : B!Err(e) = Err(e)
    BY DEF B!Err, Err
  <1>3. \A m, d : B!Ok(m, d) = Ok(m, d)
    BY DEF B!Ok, Ok
  <1>4. \A s : B!ListingFault(s) = ListingFault(s)
    BY DEF B!ListingFault, ListingFault
  <1>5. \A src, s : B!ListingFailsAt(src, s) = ListingFailsAt(src, s)
    BY DEF B!ListingFailsAt, ListingFailsAt
  <1>6. \A src : B!SearchFaults(src) = SearchFaults(src)
    BY DEF B!SearchFaults, SearchFaults, B!FaultOf, FaultOf
  <1>7. \A src : B!Resolution(src) = Resolution(src)
    BY DEF B!Resolution, Resolution, B!Resolves, Resolves
  <1>8. \A src : B!AllVisited(src) = AllVisited(src)
    BY DEF B!AllVisited, AllVisited, B!Visited, Visited
  <1> QED
    BY <1>1, <1>2, <1>3, <1>4, <1>5, <1>6, <1>7, <1>8

\* When all threads are gone without an error, every name is settled.
LEMMA AllSettled ==
  ASSUME JInv, phase = "loading", \A t \in Thread : pc[t] = "ended",
         error = NoError, NEW n \in Module
  PROVE  /\ candidates[n] = Advertisers(sources, n)
         /\ collected[n] # Absent \/ Nowhere(sources, candidates[n], n)
         /\ AllInterned(n)
  <1>1. candidates[n] = Advertisers(sources, n)
    BY AllListed DEF JInv, IInv
  <1>2. CASE candidates[n] = {}
    <2>1. Positions(sources, candidates[n], n) = {}
      BY <1>2 DEF Positions
    <2> QED
      BY <1>1, <2>1 DEF Nowhere, AllInterned, Visited
  <1>3. CASE candidates[n] # {}
    <2>1. PICK i \in 1 .. Len(all_modules) : all_modules[i] = n
      BY <1>3 DEF JInv, ListingSound
    <2>2. next_idx > Len(all_modules)
      BY ThreadAssumption DEF JInv, Drained
    <2>3. i < next_idx
      BY <2>2 DEF JInv, IInv, TypeOK
    <2>4. \A t \in Thread : ~ WorksOn(t, i)
      BY DEF WorksOn
    <2>5. Kept(n) /\ AllInterned(n)
      BY <2>1, <2>3, <2>4 DEF JInv, Handled
    <2> QED
      BY <1>1, <2>5 DEF Kept
  <1> QED
    BY <1>2, <1>3

\* Then the load is the sequential one.
LEMMA JoinLoads ==
  ASSUME JInv, phase = "loading", \A t \in Thread : pc[t] = "ended",
         error = NoError
  PROVE  /\ SearchFaults(sources) = {}
         /\ collected = Resolution(sources)
         /\ {registry[i] : i \in 1 .. Len(registry)} = AllVisited(sources)
  <1> DEFINE S(n) == Advertisers(sources, n)
  <1>1. sources \in Worlds /\ collected \in [Module -> Key \cup {Absent}]
    BY DEF JInv, IInv, TypeOK
  <1>2. \A n \in Module : /\ candidates[n] = S(n)
                          /\ S(n) \in SUBSET SourceIdx
    BY AllSettled DEF Advertisers
  <1>3. ASSUME NEW n \in Module, collected[n] # Absent
        PROVE  \E p \in Positions(sources, S(n), n) :
                 Finds(sources, S(n), n, p) /\ collected[n] = KeyAt(sources, n, p)
    BY <1>2, <1>3 DEF JInv, IInv, Precedence, Resolves
  <1>4. ASSUME NEW n \in Module, NEW q \in Positions(sources, S(n), n),
               FailsAt(sources, S(n), n, q)
        PROVE  FALSE
    <2>1. CASE Nowhere(sources, S(n), n)
      BY <1>4, <2>1 DEF Nowhere, FailsAt, Stops
    <2>2. CASE collected[n] # Absent
      <3>1. PICK p \in Positions(sources, S(n), n) : Finds(sources, S(n), n, p)
        BY <1>3, <2>2
      <3>2. p = q
        BY <1>1, <1>2, <1>4, <3>1, SearchEndsOnce DEF Finds, FailsAt, Stops
      <3> QED
        BY <1>4, <3>1, <3>2 DEF Finds, FailsAt, Hit
    <2> QED
      BY <1>2, <2>1, <2>2, AllSettled
  <1>5. ASSUME NEW n \in Module
        PROVE  /\ Resolves(sources, S(n), n, collected[n])
               /\ \A key : Resolves(sources, S(n), n, key) => key = collected[n]
    <2>1. CASE collected[n] # Absent
      <3>1. PICK p \in Positions(sources, S(n), n) :
              Finds(sources, S(n), n, p) /\ collected[n] = KeyAt(sources, n, p)
        BY <1>3, <2>1
      <3> QED
        BY <1>1, <1>2, <3>1, FindsResolves
    <2>2. CASE collected[n] = Absent
      <3>1. Nowhere(sources, S(n), n)
        BY <1>2, <2>2, AllSettled
      <3> QED
        BY <2>2, <3>1 DEF Nowhere, Resolves, Finds, Stops
    <2> QED
      BY <2>1, <2>2
  <1>6. ASSUME NEW n \in Module
        PROVE  collected[n] = CHOOSE key \in Key \cup {Absent} :
                                Resolves(sources, S(n), n, key)
    <2>1. collected[n] \in Key \cup {Absent}
      BY <1>1
    <2> QED
      BY <1>5, <2>1
  <1>7. collected = Resolution(sources)
    BY <1>1, <1>6 DEF Resolution
  <1>8. SearchFaults(sources) = {}
    BY <1>4 DEF SearchFaults
  <1>9. {registry[i] : i \in 1 .. Len(registry)} = AllVisited(sources)
    <2>1. ASSUME NEW i \in 1 .. Len(registry)
          PROVE  registry[i] \in AllVisited(sources)
      BY <1>2 DEF JInv, RegistryVisited, AllVisited
    <2>2. ASSUME NEW key \in AllVisited(sources)
          PROVE  \E i \in 1 .. Len(registry) : registry[i] = key
      <3>1. PICK n \in Module : key \in Visited(sources, S(n), n)
        BY DEF AllVisited
      <3> QED
        BY <1>2, <3>1, AllSettled DEF AllInterned, Interned
    <2> QED
      BY <2>1, <2>2
  <1> QED
    BY <1>7, <1>8, <1>9

LEMMA StepImplements == JInv /\ [Next]_vars => [B!Next]_(B!vars)
  <1> SUFFICES ASSUME JInv, [Next]_vars PROVE [B!Next]_(B!vars)
    OBVIOUS
  <1>1. TypeOK
    BY DEF JInv, IInv
  <1>2. ASSUME NEW s \in SourceIdx, ListFails(s), outcome = Pending
        PROVE  B!Next
    <2>1. /\ listing = <<s, 1>> /\ sources[s].listFails
          /\ outcome' = Err(ListingFault(s)) /\ sources' = sources
      BY <1>2 DEF ListFails, listed
    <2>2. ListingFailsAt(sources, s)
      <3>1. \A r \in 1 .. s - 1 : r \in SourceIdx /\ r < s
        BY SourcesAssumption DEF SourceIdx
      <3> QED
        BY <2>1, <3>1 DEF JInv, ListingSound, ListingFailsAt
    <2>3. B!ListingFails
      BY <2>1, <2>2, SameOperators DEF B!ListingFails
    <2> QED
      BY <1>2, <2>1, <2>3, SameOperators DEF B!Next
  <1>3. ASSUME Join, outcome = Pending
        PROVE  B!Next
    <2>1. /\ phase = "loading" /\ \A t \in Thread : pc[t] = "ended"
          /\ sources' = sources
      BY <1>3 DEF Join, listed
    <2>2. \A s \in SourceIdx : ~ sources[s].listFails
      <3>1. listing[1] \in Nat /\ listing[1] > NumSources
        BY <1>1, <2>1, SourcesAssumption DEF TypeOK, JInv, ListingSound
      <3>2. \A s \in SourceIdx : s < listing[1]
        BY <3>1, SourcesAssumption DEF SourceIdx
      <3> QED
        BY <3>2 DEF JInv, ListingSound
    <2>3. CASE error # NoError
      <3>1. outcome' = Err(error) /\ error \in SearchFaults(sources)
        BY <1>3, <2>3 DEF Join, JInv, ErrorReal
      <3>2. B!SearchFails
        BY <2>2, <3>1, SameOperators DEF B!SearchFails
      <3> QED
        BY <1>3, <2>1, <3>2, SameOperators DEF B!Next
    <2>4. CASE error = NoError
      <3>1. outcome' = Ok(collected, {registry[i] : i \in 1 .. Len(registry)})
        BY <1>3, <2>4 DEF Join
      <3>2. B!Loads
        BY <2>1, <2>2, <2>4, <3>1, JoinLoads, SameOperators DEF B!Loads
      <3> QED
        BY <1>3, <2>1, <3>2, SameOperators DEF B!Next
    <2> QED
      BY <2>3, <2>4
  <1>4. ASSUME NEW t \in Thread, Worker(t)
        PROVE  UNCHANGED <<sources, outcome>>
    BY <1>4 DEF Worker, Claim, CheckError, NextSource, GiveUp, ReadError,
                Intern, InternError, CacheEntry, GetOrInit, Decode, Unblock,
                Match, Merge, listed
  <1>5. ASSUME NEW s \in SourceIdx, NEW k, ListName(s, k) \/ ListNextSource(s)
        PROVE  UNCHANGED <<sources, outcome>>
    BY <1>5 DEF ListName, ListNextSource
  <1>6. CASE \E s \in SourceIdx : ListFails(s)
    BY <1>2, <1>6 DEF ListFails, JInv, Phases
  <1>7. CASE Join
    BY <1>3, <1>7 DEF Join, JInv, Phases
  <1> QED
    BY <1>4, <1>5, <1>6, <1>7 DEF Next, Caller, vars, B!vars

\* Whatever the schedule of its threads, a load of everything returns what
\* searching every listed name on its own returns, or an error that such a search
\* meets, and errs whenever one meets an error (load_all_modules; that it returns
\* at all is left to the model checker).
THEOREM RefinesBulkLoad == Spec => B!Init /\ [][B!Next]_(B!vars)
  <1>1. Init => B!Init
    BY SameOperators DEF Init, B!Init
  <1> QED
    BY <1>1, StepImplements, JInvariance, PTL DEF Spec

\* No claimed name is dropped between the cursor, local_modules and the merge.
THEOREM NothingLostHolds == Spec => []NothingLost
  <1>1. JInv => NothingLost
    BY DEF JInv, Handled, Kept, NothingLost
  <1> QED
    BY <1>1, JInvariance, PTL

\* The error latch never holds an error that depends on the schedule.
THEOREM ErrorRealHolds == Spec => []ErrorReal
  <1>1. JInv => ErrorReal
    BY DEF JInv
  <1> QED
    BY <1>1, JInvariance, PTL

------------------------------------------------------------------------------
(* The cache of decoded documents. *)

\* The threads that have the cache entry of their document in hand.
Holding == {"init", "blocked", "decode", "match"}

\* What a thread knows of the entry of its document.
EntryOf(t) ==
  /\ pc[t] \in Holding => cache[KeyOf(t)] # "none"
  /\ pc[t] = "blocked" => cache[KeyOf(t)] \in {"running", "ready"}
  /\ pc[t] = "decode" => cache[KeyOf(t)] = "running"
  /\ pc[t] = "match" => cache[KeyOf(t)] = "ready"

\* A document is decoded by one thread at a time, and an entry that is being
\* initialised has a thread that initialises it.
OneDecoder ==
  /\ \A t, u \in Thread :
       pc[t] = "decode" /\ pc[u] = "decode" /\ KeyOf(t) = KeyOf(u) => t = u
  /\ \A key \in Key : cache[key] = "running" =>
       \E t \in Thread : pc[t] = "decode" /\ KeyOf(t) = key

KInv == IInv /\ (\A t \in Thread : EntryOf(t)) /\ OneDecoder

LEMMA InitKInv == Init => KInv
  <1>1. Init => \A t \in Thread : EntryOf(t)
    BY DEF Init, EntryOf, Holding
  <1>2. Init => OneDecoder
    BY DEF Init, OneDecoder
  <1> QED
    BY <1>1, <1>2, InitIInv DEF KInv

\* The step of a thread, as it looks to the cache: the entry of its document goes
\* one state on, and the thread to the point that this state allows.
LEMMA CacheStep ==
  ASSUME KInv, NEW t \in Thread, Worker(t)
  PROVE  \/ /\ cache' = cache
            /\ pc'[t] \notin Holding /\ pc[t] # "decode"
         \/ /\ pc[t] \in Reading /\ KeyOf(t)' = KeyOf(t)
            /\ \A key \in Key \ {KeyOf(t)} : cache'[key] = cache[key]
            /\ \/ /\ pc[t] # "decode" /\ pc'[t] = "init"
                  /\ cache[KeyOf(t)] = "none" /\ cache'[KeyOf(t)] = "empty"
               \/ /\ pc[t] # "decode" /\ pc'[t] = "init"
                  /\ cache[KeyOf(t)] # "none" /\ cache'[KeyOf(t)] = cache[KeyOf(t)]
               \/ /\ pc[t] # "decode" /\ pc'[t] = "decode"
                  /\ cache[KeyOf(t)] = "empty" /\ cache'[KeyOf(t)] = "running"
               \/ /\ pc[t] # "decode" /\ pc'[t] = "blocked"
                  /\ cache[KeyOf(t)] = "running" /\ cache'[KeyOf(t)] = "running"
               \/ /\ pc[t] # "decode" /\ pc'[t] = "match"
                  /\ cache[KeyOf(t)] = "ready" /\ cache'[KeyOf(t)] = "ready"
               \/ /\ pc[t] = "decode" /\ pc'[t] = "match"
                  /\ cache[KeyOf(t)] = "running" /\ cache'[KeyOf(t)] = "ready"
  <1> USE DEF KInv, IInv, TypeOK, Goto, Holding, Reading
  <1>0. ASSUME UNCHANGED <<idx, at>> PROVE KeyOf(t)' = KeyOf(t)
    BY <1>0, OthersUntouched DEF listed, KeyOf, Name
  <1>1. CASE Claim(t) BY <1>1 DEF Claim
  <1>2. CASE CheckError(t) BY <1>2 DEF CheckError
  <1>3. CASE NextSource(t) BY <1>3 DEF NextSource
  <1>4. CASE GiveUp(t) BY <1>4 DEF GiveUp
  <1>5. CASE ReadError(t) BY <1>5 DEF ReadError
  <1>6. CASE Intern(t) BY <1>6 DEF Intern
  <1>7. CASE InternError(t) BY <1>7 DEF InternError
  <1>8. CASE CacheEntry(t)
    <2>1. KeyOf(t) \in Key
      BY <1>8, KeyOfType DEF CacheEntry
    <2> QED
      BY <1>0, <1>8, <2>1 DEF CacheEntry
  <1>9. CASE GetOrInit(t)
    <2>1. KeyOf(t) \in Key
      BY <1>9, KeyOfType DEF GetOrInit
    <2> QED
      BY <1>0, <1>9, <2>1 DEF GetOrInit
  <1>10. CASE Decode(t)
    <2>1. KeyOf(t) \in Key
      BY <1>10, KeyOfType DEF Decode
    <2>2. cache[KeyOf(t)] = "running"
      BY <1>10 DEF Decode, EntryOf
    <2> QED
      BY <1>0, <1>10, <2>1, <2>2 DEF Decode
  <1>11. CASE Unblock(t)
    BY <1>0, <1>11 DEF Unblock
  <1>12. CASE Match(t) BY <1>12 DEF Match
  <1>13. CASE Merge(t) BY <1>13 DEF Merge
  <1> QED
    BY <1>1, <1>2, <1>3, <1>4, <1>5, <1>6, <1>7, <1>8, <1>9, <1>10, <1>11,
       <1>12, <1>13 DEF Worker

\* The other threads keep their documents.
LEMMA OthersKeep ==
  ASSUME KInv, NEW t \in Thread, Worker(t)
  PROVE  \A u \in Thread \ {t} :
           /\ pc'[u] = pc[u] /\ KeyOf(u)' = KeyOf(u)
           /\ pc[u] \in Holding => KeyOf(u) \in Key
  <1>1. sources' = sources /\ TypeOK
    BY OthersUntouched DEF listed, KInv, IInv
  <1>2. \A u \in Thread \ {t} : pc'[u] = pc[u] /\ at'[u] = at[u] /\ Name(u)' = Name(u)
    BY <1>1, OthersUntouched
  <1>3. \A u \in Thread : pc[u] \in Holding => KeyOf(u) \in Key
    BY KeyOfType DEF KInv, IInv, Holding, Reading
  <1> QED
    BY <1>1, <1>2, <1>3 DEF KeyOf

\* A state of an entry is never left for one before it.
LEMMA EntriesAdvance ==
  ASSUME KInv, NEW t \in Thread, Worker(t)
  PROVE  \A key \in Key :
           /\ cache[key] = "ready" => cache'[key] = "ready"
           /\ cache[key] = "running" => cache'[key] \in {"running", "ready"}
           /\ cache[key] # "none" => cache'[key] # "none"
  BY CacheStep

LEMMA WorkerEntries ==
  ASSUME KInv, NEW t \in Thread, Worker(t), NEW u \in Thread
  PROVE  EntryOf(u)'
  <1>1. CASE u = t
    BY <1>1, CacheStep DEF EntryOf, Holding, KInv
  <1>2. CASE u # t
    <2>1. /\ pc'[u] = pc[u] /\ KeyOf(u)' = KeyOf(u)
          /\ pc[u] \in Holding => KeyOf(u) \in Key
      BY <1>2, OthersKeep
    <2>2. EntryOf(u)
      BY DEF KInv
    <2>3. CASE pc[u] \in Holding
      <3>1. CASE pc[u] = "decode"
        <4>1. cache[KeyOf(u)] = "running"
          BY <2>2, <3>1 DEF EntryOf
        <4>2. pc[t] = "decode" => KeyOf(t) # KeyOf(u)
          BY <1>2, <3>1 DEF KInv, OneDecoder
        <4>3. cache'[KeyOf(u)] = "running"
          BY <2>1, <2>3, <4>1, <4>2, CacheStep
        <4> QED
          BY <2>1, <3>1, <4>3 DEF EntryOf
      <3>2. CASE pc[u] # "decode"
        BY <2>1, <2>2, <2>3, <3>2, EntriesAdvance DEF EntryOf, Holding
      <3> QED
        BY <3>1, <3>2
    <2>4. CASE pc[u] \notin Holding
      BY <2>1, <2>4 DEF EntryOf, Holding
    <2> QED
      BY <2>3, <2>4
  <1> QED
    BY <1>1, <1>2

LEMMA WorkerOneDecoder ==
  ASSUME KInv, NEW t \in Thread, Worker(t)
  PROVE  OneDecoder'
  <1>1. ASSUME NEW u \in Thread, NEW v \in Thread, u # v,
               pc'[u] = "decode", pc'[v] = "decode", KeyOf(u)' = KeyOf(v)'
        PROVE  FALSE
    <2>1. ASSUME NEW w \in Thread, w # t, pc'[w] = "decode", pc'[t] = "decode",
                 KeyOf(w)' = KeyOf(t)'
          PROVE  FALSE
      <3>1. pc[w] = "decode" /\ KeyOf(w)' = KeyOf(w)
        BY <2>1, OthersKeep
      <3>2. cache[KeyOf(w)] = "running"
        BY <3>1 DEF KInv, EntryOf
      <3>3. cache[KeyOf(t)] = "empty" /\ KeyOf(t)' = KeyOf(t)
        BY <2>1, CacheStep DEF Holding
      <3> QED
        BY <2>1, <3>1, <3>2, <3>3
    <2>2. CASE u # t /\ v # t
      BY <1>1, <2>2, OthersKeep DEF KInv, OneDecoder
    <2> QED
      BY <1>1, <2>1, <2>2
  <1>2. ASSUME NEW key \in Key, cache'[key] = "running"
        PROVE  \E u \in Thread : pc'[u] = "decode" /\ KeyOf(u)' = key
    <2>1. CASE cache[key] = "running"
      <3>1. PICK u \in Thread : pc[u] = "decode" /\ KeyOf(u) = key
        BY <2>1 DEF KInv, OneDecoder
      <3>2. u # t
        BY <1>2, <3>1, CacheStep DEF Holding
      <3> QED
        BY <3>1, <3>2, OthersKeep
    <2>2. CASE cache[key] # "running"
      BY <1>2, <2>2, CacheStep
    <2> QED
      BY <2>1, <2>2
  <1> QED
    BY <1>1, <1>2 DEF OneDecoder

\* The caller starts no search and touches no entry.
LEMMA CallerEntries ==
  ASSUME KInv, Caller \/ UNCHANGED vars
  PROVE  (\A t \in Thread : EntryOf(t)') /\ OneDecoder'
  <1>1. UNCHANGED <<cache, pc>>
    BY DEF Caller, ListFails, ListName, ListNextSource, Join, pool, vars
  <1>2. CASE \A t \in Thread : pc[t] = "claim"
    <2>1. \A t \in Thread : pc[t] \notin Holding \cup {"decode"}
      BY <1>2 DEF Holding
    <2> QED
      BY <1>1, <2>1 DEF KInv, EntryOf, OneDecoder, Holding
  <1>3. CASE UNCHANGED <<sources, all_modules, idx, at>>
    <2>1. \A t \in Thread : KeyOf(t)' = KeyOf(t)
      BY <1>3 DEF KeyOf, Name
    <2> QED
      BY <1>1, <2>1 DEF KInv, EntryOf, OneDecoder
  <1>4. (\A t \in Thread : pc[t] = "claim") \/ UNCHANGED <<sources, all_modules, idx, at>>
    BY DEF KInv, IInv, Listing, Caller, ListFails, ListName, ListNextSource, Join,
           pool, listed, vars
  <1> QED
    BY <1>2, <1>3, <1>4

LEMMA KInvInductive == KInv /\ [Next]_vars => KInv'
  <1> SUFFICES ASSUME KInv, [Next]_vars PROVE KInv'
    OBVIOUS
  <1>1. IInv'
    BY Inductive DEF KInv
  <1>2. CASE Caller \/ UNCHANGED vars
    BY <1>1, <1>2, CallerEntries DEF KInv
  <1>3. ASSUME NEW t \in Thread, Worker(t) PROVE KInv'
    BY <1>1, <1>3, WorkerEntries, WorkerOneDecoder DEF KInv
  <1> QED
    BY <1>2, <1>3 DEF Next

LEMMA KInvariance == Spec => []KInv
  BY InitKInv, KInvInductive, PTL DEF Spec

\* The OnceLock of a document is initialised by one thread alone, and while it is
\* being initialised some thread is at it, so that no thread blocks on an entry
\* that nobody will fill (get_or_init in cached_modules).
THEOREM OneDecoderHolds == Spec => []OneDecoder
  <1>1. KInv => OneDecoder
    BY DEF KInv
  <1> QED
    BY <1>1, KInvariance, PTL

\* What was decoded stays decoded and is what every thread matches against
\* (cached_modules and decode_modules), for any number of threads.
THEOREM DecodedForGoodHolds == Spec => DecodedForGood
  <1>1. KInv /\ KInv' /\ [Next]_vars =>
          [/\ \A key \in Key : cache[key] = "ready" => cache'[key] = "ready"
           /\ \A t \in Thread : pc'[t] = "match" => cache'[KeyOf(t)'] = "ready"]_vars
    <2> SUFFICES ASSUME KInv, KInv', Next
                 PROVE  /\ \A key \in Key : cache[key] = "ready" => cache'[key] = "ready"
                        /\ \A t \in Thread : pc'[t] = "match" => cache'[KeyOf(t)'] = "ready"
      OBVIOUS
    <2>1. \A t \in Thread : pc'[t] = "match" => cache'[KeyOf(t)'] = "ready"
      BY DEF KInv, EntryOf
    <2>2. CASE Caller
      BY <2>1, <2>2 DEF Caller, ListFails, ListName, ListNextSource, Join, pool
    <2>3. ASSUME NEW t \in Thread, Worker(t)
          PROVE  \A key \in Key : cache[key] = "ready" => cache'[key] = "ready"
      BY <2>3, EntriesAdvance
    <2> QED
      BY <2>1, <2>2, <2>3 DEF Next
  <1> QED
    BY <1>1, KInvariance, PTL DEF Spec, DecodedForGood

==============================================================================
