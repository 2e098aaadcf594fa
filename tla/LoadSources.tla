----------------------------- MODULE LoadSources -----------------------------
(***************************************************************************)
(* What the configured MIB sources of a load answer, and what searching    *)
(* them for one module name must return (src/src/source.rs and the search  *)
(* loops of src/src/load.rs).                                              *)
(*                                                                         *)
(* A world "src" is the slice of sources given to a load, in the order of  *)
(* precedence, the embedded fallback last.  A source is a record:          *)
(*   listFails  list_modules() returns an I/O error                        *)
(*   lists      the names list_modules() returns, in its order             *)
(*   find       for a name, what find_candidates(name) yields, lazily and  *)
(*              in order: provider-local document identities or IoError    *)
(*   holds      the names of the modules decoding a document yields (none  *)
(*              when the content heuristic rejects it)                     *)
(*   imports    the modules that a module of a document imports from       *)
(*   tooLarge   the documents the source registry refuses to intern        *)
(* A source answers the same throughout a load: the contract CandidateId   *)
(* states (an identity stays associated with one content).                 *)
(***************************************************************************)
EXTENDS Naturals, Sequences

CONSTANTS
  Module,       \* module names
  Doc,          \* provider-local candidate identities
  Absent,       \* the result of a search no source satisfies
  IoError,      \* what a candidate iterator yields when a read fails
  NumSources,   \* number of configured sources, the embedded one included
  Worlds        \* the worlds a load may be started in

SourceIdx == 1 .. NumSources

Source == [listFails : BOOLEAN,
           lists     : Seq(Module),
           find      : [Module -> Seq(Doc \cup {IoError})],
           holds     : [Doc -> SUBSET Module],
           imports   : [Doc -> [Module -> SUBSET Module]],
           tooLarge  : SUBSET Doc]

ASSUME SourcesAssumption ==
  /\ NumSources \in Nat \ {0}
  /\ IoError \notin Doc
  /\ \A src \in Worlds : src \in [SourceIdx -> Source]

\* CandidateKey: a candidate identity is scoped by the index of its provider.
Key == SourceIdx \X Doc

ASSUME AbsentAssumption == Absent \notin Key

------------------------------------------------------------------------------
\* The search for module n tries positions <<s, j>>, the j-th candidate of the
\* s-th source, in lexicographic order.

\* The sources advertising n: the candidates of a bulk load.
Advertisers(src, n) ==
  {s \in SourceIdx : \E k \in 1 .. Len(src[s].lists) : src[s].lists[k] = n}

\* Every position a search among the sources in S can reach.
Positions(src, S, n) ==
  UNION {{<<s, j>> : j \in 1 .. Len(src[s].find[n])} : s \in S}

Before(p, q) == \/ p[1] < q[1]
                \/ p[1] = q[1] /\ p[2] < q[2]

Candidate(src, n, p) == src[p[1]].find[n][p[2]]

KeyAt(src, n, p) == <<p[1], Candidate(src, n, p)>>

ReadFails(src, n, p) == Candidate(src, n, p) = IoError

InternFails(src, n, p) ==
  ~ ReadFails(src, n, p) /\ Candidate(src, n, p) \in src[p[1]].tooLarge

Fault(src, n, p) == ReadFails(src, n, p) \/ InternFails(src, n, p)

\* A candidate counts only once its decoded content holds the module.
Confirms(src, n, key) == n \in src[key[1]].holds[key[2]]

Hit(src, n, p) == ~ Fault(src, n, p) /\ Confirms(src, n, KeyAt(src, n, p))

Stops(src, n, p) == Fault(src, n, p) \/ Hit(src, n, p)

\* p is reached by a search among S: no earlier candidate ended it.
Reached(src, S, n, p) ==
  /\ p \in Positions(src, S, n)
  /\ \A q \in Positions(src, S, n) : Before(q, p) => ~ Stops(src, n, q)

\* A search among S ends at p with the module, or with an error.
Finds(src, S, n, p) == Reached(src, S, n, p) /\ Hit(src, n, p)
FailsAt(src, S, n, p) == Reached(src, S, n, p) /\ Fault(src, n, p)

\* A search among S comes to its end without a module and without an error.
Nowhere(src, S, n) == \A p \in Positions(src, S, n) : ~ Stops(src, n, p)

\* The key a search among S resolves n to; Absent when nothing holds it.
Resolves(src, S, n, key) ==
  IF \E p \in Positions(src, S, n) : Finds(src, S, n, p)
  THEN \E p \in Positions(src, S, n) :
         Finds(src, S, n, p) /\ key = KeyAt(src, n, p)
  ELSE key = Absent

\* The documents a search among S reads, and so has interned when it ends.
Visited(src, S, n) ==
  {KeyAt(src, n, p) : p \in {q \in Positions(src, S, n) :
                               Reached(src, S, n, q) /\ ~ Fault(src, n, q)}}

\* How failures are reported: LoadError::Io or LoadError::Source.
FaultOf(src, n, p) ==
  [kind |-> IF ReadFails(src, n, p) THEN "Io" ELSE "Source",
   module |-> n, source |-> p[1]]
ListingFault(s) == [kind |-> "Listing", source |-> s]
NoError == [kind |-> "None"]
Faults == [kind : {"Io", "Source"}, module : Module, source : SourceIdx]

\* What a load returns: LoadedModules carries the modules and the documents.
Pending == [status |-> "Pending"]
Err(e) == [status |-> "Err", error |-> e]
Ok(modules, documents) ==
  [status |-> "Ok", modules |-> modules, documents |-> documents]
Outcomes ==
  {Pending}
    \cup [status : {"Err"},
          error : Faults \cup [kind : {"Listing"}, source : SourceIdx]]
    \cup [status : {"Ok"}, modules : [Module -> Key \cup {Absent}],
          documents : SUBSET Key]

(* The result of a load of everything. *)

\* The first source whose listing fails.
ListingFailsAt(src, s) ==
  src[s].listFails /\ \A r \in 1 .. s - 1 : ~ src[r].listFails

SearchFaults(src) ==
  UNION {{FaultOf(src, n, p) :
            p \in {q \in Positions(src, Advertisers(src, n), n) :
                     FailsAt(src, Advertisers(src, n), n, q)}} : n \in Module}

\* What a load without failures holds.
Resolution(src) ==
  [n \in Module |-> CHOOSE key \in Key \cup {Absent} :
                      Resolves(src, Advertisers(src, n), n, key)]

AllVisited(src) ==
  UNION {Visited(src, Advertisers(src, n), n) : n \in Module}

==============================================================================
