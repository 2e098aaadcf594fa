----------------------------- MODULE ParallelLoad -----------------------------
(***************************************************************************)
(* load_all_modules of src/src/load.rs: the sources are listed, then a     *)
(* pool of scoped threads claims the listed names one by one and searches  *)
(* each, sharing an error latch, the source registry and the cache of      *)
(* decoded documents.                                                      *)
(*                                                                         *)
(* A step is what a thread does while it holds a lock or between two of    *)
(* them.  Decoding (scan, parse, lower) is one step: it touches no shared  *)
(* state but the cache entry it initialises.                               *)
(***************************************************************************)
EXTENDS LoadSources

CONSTANT Thread     \* the scoped worker threads

ASSUME ThreadAssumption == Thread # {}    \* parallelism(0) is rounded up to 1

VARIABLES
  sources,      \* the slice of sources, fixed when the load starts
  phase,        \* "listing", "loading" or "joined"
  listing,      \* <<s, k>>: the k-th name of source s is listed next
  all_modules,  \* the distinct listed names, in order of discovery
  candidates,   \* for a name, the sources advertising it so far
  next_idx,     \* the claim cursor, 1-based
  error,        \* the error latch
  registry,     \* keys of the interned documents, in order of SourceId
  cache,        \* the state of a document's OnceLock
  pc,           \* what a thread does next
  idx,          \* the index a thread claimed
  at,           \* <<s, j>>: the position its search has reached
  local,        \* a thread's local_modules
  collected,    \* the modules of the threads that ended
  outcome       \* what load_all_modules returned

vars == <<sources, phase, listing, all_modules, candidates, next_idx, error,
          registry, cache, pc, idx, at, local, collected, outcome>>
listed  == <<sources, listing, all_modules, candidates>>

B == INSTANCE BulkLoad WITH
       sources <- sources,
       outcome <- outcome

PC == {"claim", "check", "search", "latch", "entry", "init", "blocked",
       "decode", "match", "merge", "ended"}

Nothing == [n \in Module |-> Absent]

\* The name a thread works on, the document it works on.
Name(t)  == all_modules[idx[t]]
KeyOf(t) == KeyAt(sources, Name(t), at[t])

Interned(key) == \E i \in 1 .. Len(registry) : registry[i] = key

------------------------------------------------------------------------------
Init ==
  /\ sources \in Worlds
  /\ phase = "listing"
  /\ listing = <<1, 1>>
  /\ all_modules = <<>>
  /\ candidates = [n \in Module |-> {}]
  /\ next_idx = 1
  /\ error = NoError
  /\ registry = <<>>
  /\ cache = [key \in Key |-> "none"]
  /\ pc = [t \in Thread |-> "claim"]
  /\ idx = [t \in Thread |-> 1]
  /\ at = [t \in Thread |-> <<1, 1>>]
  /\ local = [t \in Thread |-> Nothing]
  /\ collected = Nothing
  /\ outcome = Pending

(* Listing, on the calling thread. *)

pool == <<next_idx, error, registry, cache, pc, idx, at, local, collected>>

\* source.list_modules().map_err(LoadError::Io)? returns at once.
ListFails(s) ==
  /\ phase = "listing" /\ listing = <<s, 1>>
  /\ sources[s].listFails
  /\ phase' = "joined"
  /\ outcome' = Err(ListingFault(s))
  /\ UNCHANGED <<listed, pool>>

\* A name joins all_modules when first seen and gains the source as a
\* candidate; seen_in_source makes a repetition harmless.
ListName(s, k) ==
  /\ phase = "listing" /\ listing = <<s, k>>
  /\ ~ sources[s].listFails
  /\ k <= Len(sources[s].lists)
  /\ LET n == sources[s].lists[k] IN
       /\ all_modules' = IF candidates[n] = {} THEN Append(all_modules, n)
                                               ELSE all_modules
       /\ candidates' = [candidates EXCEPT ![n] = @ \cup {s}]
  /\ listing' = <<s, k + 1>>
  /\ UNCHANGED <<sources, phase, pool, outcome>>

ListNextSource(s) ==
  /\ phase = "listing" /\ listing[1] = s
  /\ ~ sources[s].listFails
  /\ listing[2] > Len(sources[s].lists)
  /\ listing' = <<s + 1, 1>>
  /\ phase' = IF s = NumSources THEN "loading" ELSE "listing"
  /\ UNCHANGED <<sources, all_modules, candidates, pool, outcome>>

------------------------------------------------------------------------------
(* The worker threads. *)

Goto(t, label) == pc' = [pc EXCEPT ![t] = label]

\* A thread that failed to intern holds the registry until it latched the error:
\* the match keeps the guard of source_registry.lock() alive.
RegistryFree == \A t \in Thread : pc[t] # "latch"

\* next_idx.fetch_add(1), and the end of the work queue.
Claim(t) ==
  /\ phase = "loading" /\ pc[t] = "claim"
  /\ idx' = [idx EXCEPT ![t] = next_idx]
  /\ next_idx' = next_idx + 1
  /\ Goto(t, IF next_idx > Len(all_modules) THEN "merge" ELSE "check")
  /\ UNCHANGED <<listed, phase, error, registry, cache, at, local, collected,
                 outcome>>

\* if error.lock().unwrap().is_some() { break; }
CheckError(t) ==
  /\ pc[t] = "check"
  /\ Goto(t, IF error # NoError THEN "merge" ELSE "search")
  /\ at' = [at EXCEPT ![t] = <<1, 1>>]
  /\ UNCHANGED <<listed, phase, next_idx, error, registry, cache, idx, local,
                 collected, outcome>>

\* Is there a candidate at the position of t's search?
AtCandidate(t) ==
  /\ at[t][1] \in candidates[Name(t)]
  /\ at[t][2] <= Len(sources[at[t][1]].find[Name(t)])

\* The iterator of this source is exhausted, or the source is no candidate.
NextSource(t) ==
  /\ pc[t] = "search" /\ at[t][1] <= NumSources
  /\ ~ AtCandidate(t)
  /\ at' = [at EXCEPT ![t] = <<at[t][1] + 1, 1>>]
  /\ UNCHANGED <<listed, phase, next_idx, error, registry, cache, pc, idx,
                 local, collected, outcome>>

\* No source held the module: it is left out, silently.
GiveUp(t) ==
  /\ pc[t] = "search" /\ at[t][1] > NumSources
  /\ Goto(t, "claim")
  /\ UNCHANGED <<listed, phase, next_idx, error, registry, cache, idx, at,
                 local, collected, outcome>>

\* Mutant: the search breaks off without latching the error.
ReadErrorDropped(t) ==
  /\ pc[t] = "search" /\ AtCandidate(t)
  /\ ReadFails(sources, Name(t), at[t])
  /\ Goto(t, "claim")
  /\ UNCHANGED <<listed, phase, next_idx, error, registry, cache, idx, at,
                 local, collected, outcome>>

\* *error.lock().unwrap() = Some(..); break 'sources: a later error replaces
\* an earlier one.
ReadError(t) ==
  /\ pc[t] = "search" /\ AtCandidate(t)
  /\ ReadFails(sources, Name(t), at[t])
  /\ error' = FaultOf(sources, Name(t), at[t])
  /\ Goto(t, "claim")
  /\ UNCHANGED <<listed, phase, next_idx, registry, cache, idx, at, local,
                 collected, outcome>>

\* SourceRegistry::intern, under the registry's lock.
Intern(t) ==
  /\ pc[t] = "search" /\ AtCandidate(t)
  /\ ~ ReadFails(sources, Name(t), at[t])
  /\ RegistryFree
  /\ \/ /\ Interned(KeyOf(t))
        /\ registry' = registry
        /\ Goto(t, "entry")
     \/ /\ ~ Interned(KeyOf(t))
        /\ ~ InternFails(sources, Name(t), at[t])
        /\ registry' = Append(registry, KeyOf(t))
        /\ Goto(t, "entry")
     \/ /\ ~ Interned(KeyOf(t))
        /\ InternFails(sources, Name(t), at[t])
        /\ registry' = registry
        /\ Goto(t, "latch")
  /\ UNCHANGED <<listed, phase, next_idx, error, cache, idx, at, local,
                 collected, outcome>>

\* The error of a failed intern, latched with the registry still locked.
InternError(t) ==
  /\ pc[t] = "latch"
  /\ error' = FaultOf(sources, Name(t), at[t])
  /\ Goto(t, "claim")
  /\ UNCHANGED <<listed, phase, next_idx, registry, cache, idx, at, local,
                 collected, outcome>>

\* Mutant: insert instead of entry().or_insert_with: a fresh OnceLock each time.
CacheEntryFresh(t) ==
  /\ pc[t] = "entry"
  /\ cache' = [cache EXCEPT ![KeyOf(t)] = "empty"]
  /\ Goto(t, "init")
  /\ UNCHANGED <<listed, phase, next_idx, error, registry, idx, at, local,
                 collected, outcome>>

\* cached_modules, first half: the entry, under the lock of the cache.
CacheEntry(t) ==
  /\ pc[t] = "entry"
  /\ cache' = IF cache[KeyOf(t)] = "none"
              THEN [cache EXCEPT ![KeyOf(t)] = "empty"] ELSE cache
  /\ Goto(t, "init")
  /\ UNCHANGED <<listed, phase, next_idx, error, registry, idx, at, local,
                 collected, outcome>>

\* cached_modules, second half: OnceLock::get_or_init, outside the lock.  The
\* first thread initialises; one that comes while it does blocks.
GetOrInit(t) ==
  /\ pc[t] = "init"
  /\ \/ /\ cache[KeyOf(t)] = "empty"
        /\ cache' = [cache EXCEPT ![KeyOf(t)] = "running"]
        /\ Goto(t, "decode")
     \/ /\ cache[KeyOf(t)] = "running"
        /\ Goto(t, "blocked")
        /\ UNCHANGED cache
     \/ /\ cache[KeyOf(t)] = "ready"
        /\ Goto(t, "match")
        /\ UNCHANGED cache
  /\ UNCHANGED <<listed, phase, next_idx, error, registry, idx, at, local,
                 collected, outcome>>

Decode(t) ==
  /\ pc[t] = "decode"
  /\ cache' = [cache EXCEPT ![KeyOf(t)] = "ready"]
  /\ Goto(t, "match")
  /\ UNCHANGED <<listed, phase, next_idx, error, registry, idx, at, local,
                 collected, outcome>>

Unblock(t) ==
  /\ pc[t] = "blocked" /\ cache[KeyOf(t)] = "ready"
  /\ Goto(t, "match")
  /\ UNCHANGED <<listed, phase, next_idx, error, registry, cache, idx, at,
                 local, collected, outcome>>

\* Mutant: the first candidate is believed without looking for the module in it.
MatchUnconfirmed(t) ==
  /\ pc[t] = "match"
  /\ local' = [local EXCEPT ![t] = [@ EXCEPT ![Name(t)] = KeyOf(t)]]
  /\ Goto(t, "claim")
  /\ UNCHANGED <<listed, phase, next_idx, error, registry, cache, idx, at,
                 collected, outcome>>

\* The decoded content confirms the advertisement, or the search goes on.
Match(t) ==
  /\ pc[t] = "match"
  /\ \/ /\ Confirms(sources, Name(t), KeyOf(t))
        /\ local' = [local EXCEPT ![t] = [@ EXCEPT ![Name(t)] = KeyOf(t)]]
        /\ at' = at
        /\ Goto(t, "claim")
     \/ /\ ~ Confirms(sources, Name(t), KeyOf(t))
        /\ at' = [at EXCEPT ![t] = <<at[t][1], at[t][2] + 1>>]
        /\ local' = local
        /\ Goto(t, "search")
  /\ UNCHANGED <<listed, phase, next_idx, error, registry, cache, idx,
                 collected, outcome>>

\* map.entry(name).or_insert(module) for the thread's modules, under one lock.
Merge(t) ==
  /\ pc[t] = "merge"
  /\ collected' = [n \in Module |-> IF collected[n] = Absent
                                    THEN local[t][n] ELSE collected[n]]
  /\ Goto(t, "ended")
  /\ UNCHANGED <<listed, phase, next_idx, error, registry, cache, idx, at,
                 local, outcome>>

\* The scope joins every thread; the latch decides between Err and Ok.
Join ==
  /\ phase = "loading"
  /\ \A t \in Thread : pc[t] = "ended"
  /\ phase' = "joined"
  /\ outcome' = IF error # NoError
                THEN Err(error)
                ELSE Ok(collected, {registry[i] : i \in 1 .. Len(registry)})
  /\ UNCHANGED <<listed, pool>>

------------------------------------------------------------------------------
Worker(t) ==
  \/ Claim(t) \/ CheckError(t) \/ NextSource(t) \/ GiveUp(t)
  \/ ReadError(t) \/ Intern(t) \/ InternError(t) \/ CacheEntry(t)
  \/ GetOrInit(t) \/ Decode(t) \/ Unblock(t) \/ Match(t) \/ Merge(t)

Caller ==
  \/ \E s \in SourceIdx :
       \/ ListFails(s)
       \/ \E k \in 1 .. Len(sources[s].lists) : ListName(s, k)
       \/ ListNextSource(s)
  \/ Join

Next == Caller \/ \E t \in Thread : Worker(t)

\* The operating system keeps running every thread that can run.
Fairness == WF_vars(Caller) /\ \A t \in Thread : WF_vars(Worker(t))

Spec == Init /\ [][Next]_vars /\ Fairness

------------------------------------------------------------------------------
(* Properties. *)

TypeOK ==
  /\ sources \in Worlds
  /\ phase \in {"listing", "loading", "joined"}
  /\ listing \in (1 .. NumSources + 1) \X (Nat \ {0})
  /\ all_modules \in Seq(Module)
  /\ candidates \in [Module -> SUBSET SourceIdx]
  /\ next_idx \in Nat \ {0}
  /\ error \in Faults \cup {NoError}
  /\ registry \in Seq(Key)
  /\ cache \in [Key -> {"none", "empty", "running", "ready"}]
  /\ pc \in [Thread -> PC]
  /\ idx \in [Thread -> Nat \ {0}]
  /\ at \in [Thread -> (1 .. NumSources + 1) \X (Nat \ {0})]
  /\ local \in [Thread -> [Module -> Key \cup {Absent}]]
  /\ collected \in [Module -> Key \cup {Absent}]
  /\ outcome \in Outcomes

\* A thread is working on the name at index i.
WorksOn(t, i) ==
  pc[t] \in {"check", "search", "latch", "entry", "init", "blocked", "decode",
             "match"} /\ idx[t] = i

\* Source order alone decides: whatever a thread holds for a name, and whatever
\* was merged, is the module a search of the name on its own returns, so no
\* interleaving lets a later source shadow an earlier one.
Precedence ==
  \A n \in Module :
    /\ \A t \in Thread : local[t][n] # Absent =>
         Resolves(sources, candidates[n], n, local[t][n])
    /\ collected[n] # Absent =>
         Resolves(sources, candidates[n], n, collected[n])

\* No claimed name is dropped between the cursor, the local modules and the
\* merge: without an error, somebody works on it, holds it or merged it, unless
\* no source has it.
NothingLost ==
  error = NoError =>
    \A i \in 1 .. Len(all_modules) : i < next_idx =>
      LET n == all_modules[i] IN
        \/ \E t \in Thread : WorksOn(t, i)
        \/ \E t \in Thread : pc[t] # "ended" /\ local[t][n] # Absent
        \/ collected[n] # Absent
        \/ Nowhere(sources, candidates[n], n)

\* The latch holds an error that a search of a listed name meets on its own,
\* never one that a schedule brought about.
ErrorReal == error # NoError => error \in SearchFaults(sources)

\* A document that was decoded is never decoded again, and a thread matches a
\* name against decoded content only.
DecodedForGood ==
  [][/\ \A key \in Key : cache[key] = "ready" => cache'[key] = "ready"
     /\ \A t \in Thread : pc'[t] = "match" => cache'[KeyOf(t)'] = "ready"]_vars

\* The load implements the sequential promise: its result is that of searching
\* every listed name on its own, errors included, and it ends.
ImplementsBulkLoad == B!Spec

==============================================================================
