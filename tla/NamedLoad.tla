------------------------------- MODULE NamedLoad -------------------------------
(***************************************************************************)
(* load_modules_by_name of src/src/load.rs: the recursive, depth-first     *)
(* load of the requested modules, their imports and the foundation         *)
(* modules.  The recursion of load_one is an explicit stack: an element is *)
(* the set of imports a call still has to load.  The code collects them in *)
(* a HashSet, so a call takes them in any order.                           *)
(***************************************************************************)
EXTENDS LoadRequests, FiniteSets

VARIABLES
  sources,     \* the slice of sources, fixed when the load starts
  requested,   \* the names given to the builder
  roots,       \* the top-level calls of load_one still to make
  stack,       \* the calls in progress, the innermost first
  modules,     \* the map of loaded modules: for a name, its document
  documents,   \* the documents interned so far
  outcome      \* what load_modules_by_name returned

vars == <<sources, requested, roots, stack, modules, documents, outcome>>

S == INSTANCE NamedSelection WITH
       sources   <- sources,
       requested <- requested,
       outcome   <- outcome

Loaded == {n \in Module : modules[n] # Absent}

\* The modules that the one found at position p for n imports from.
ImportsOf(n, p) == sources[p[1]].imports[Candidate(sources, n, p)][n]

Init ==
  /\ sources \in Worlds
  /\ requested \in Requests
  /\ roots = Roots(requested)
  /\ stack = <<>>
  /\ modules = [n \in Module |-> Absent]
  /\ documents = {}
  /\ outcome = Pending

------------------------------------------------------------------------------
\* A call of load_one(n) up to its recursive calls; "below" is the stack once
\* the caller has dropped n from what it has left to do.

\* if modules.contains_key(name) { return Ok(()); }
AlreadyLoaded(n, below) ==
  /\ n \in Loaded
  /\ stack' = below
  /\ UNCHANGED <<modules, documents, outcome>>

\* Mutant: a failed search ends this call only.
SearchFailsQuietly(n) ==
  /\ n \notin Loaded
  /\ \E p \in Positions(sources, SourceIdx, n) : FailsAt(sources, SourceIdx, n, p)
  /\ UNCHANGED <<stack, modules, documents, outcome>>

\* An I/O error or a failed intern unwinds every call.
SearchFails(n) ==
  /\ n \notin Loaded
  /\ \E p \in Positions(sources, SourceIdx, n) :
       /\ FailsAt(sources, SourceIdx, n, p)
       /\ outcome' = Err(FaultOf(sources, n, p))
  /\ stack' = <<>>
  /\ UNCHANGED <<modules, documents>>

\* No source holds the module: the call returns, having inserted nothing.
NotFound(n, below) ==
  /\ n \notin Loaded
  /\ Nowhere(sources, SourceIdx, n)
  /\ documents' = documents \cup Visited(sources, SourceIdx, n)
  /\ stack' = below
  /\ UNCHANGED <<modules, outcome>>

\* The module is inserted before its imports are loaded.
Found(n, below) ==
  /\ n \notin Loaded
  /\ \E p \in Positions(sources, SourceIdx, n) :
       /\ Finds(sources, SourceIdx, n, p)
       /\ modules' = [modules EXCEPT ![n] = KeyAt(sources, n, p)]
       /\ stack' = <<ImportsOf(n, p)>> \o below
  /\ documents' = documents \cup Visited(sources, SourceIdx, n)
  /\ UNCHANGED outcome

load_one(n, below) == \/ AlreadyLoaded(n, below)
                      \/ SearchFails(n)
                      \/ NotFound(n, below)
                      \/ Found(n, below)

\* for name in names { load_one(name)? }, and then the foundation modules.
CallRoot ==
  /\ outcome = Pending /\ stack = <<>> /\ roots # <<>>
  /\ roots' = Tail(roots)
  /\ load_one(Head(roots), <<>>)
  /\ UNCHANGED <<sources, requested>>

\* Mutant: a call returns after its first import.
CallOneImport ==
  /\ outcome = Pending /\ stack # <<>>
  /\ \E dep \in Head(stack) : load_one(dep, Tail(stack))
  /\ UNCHANGED <<sources, requested, roots>>

\* for dep in import_modules { load_one(dep)? }
CallImport ==
  /\ outcome = Pending /\ stack # <<>>
  /\ \E dep \in Head(stack) :
       load_one(dep, <<Head(stack) \ {dep}>> \o Tail(stack))
  /\ UNCHANGED <<sources, requested, roots>>

Return ==
  /\ outcome = Pending /\ stack # <<>> /\ Head(stack) = {}
  /\ stack' = Tail(stack)
  /\ UNCHANGED <<sources, requested, roots, modules, documents, outcome>>

Finish ==
  /\ outcome = Pending /\ stack = <<>> /\ roots = <<>>
  /\ outcome' = Ok(modules, documents)
  /\ UNCHANGED <<sources, requested, roots, stack, modules, documents>>

Next == CallRoot \/ CallImport \/ Return \/ Finish

\* A sequential program: it keeps taking the step it can take.
Spec == Init /\ [][Next]_vars /\ WF_vars(Next)

------------------------------------------------------------------------------
(* Properties. *)

TypeOK ==
  /\ sources \in Worlds
  /\ requested \in Requests
  /\ roots \in Seq(Module)
  /\ stack \in Seq(SUBSET Module)
  /\ modules \in [Module -> Key \cup {Absent}]
  /\ documents \in SUBSET Key
  /\ outcome \in Outcomes

\* n still has to be looked up by a call in progress or to come.
Outstanding(n) ==
  \/ \E i \in 1 .. Len(roots) : roots[i] = n
  \/ \E i \in 1 .. Len(stack) : n \in stack[i]

\* n was looked up in every source, in vain.
Missing(n) == /\ Nowhere(sources, SourceIdx, n)
              /\ Visited(sources, SourceIdx, n) \subseteq documents

\* n is not a root and no loaded module imports from it.
NotOwed(n) ==
  /\ ~ IsRoot(requested, n)
  /\ \A m \in Loaded : \A p \in Positions(sources, SourceIdx, m) :
       Finds(sources, SourceIdx, m, p) => n \notin ImportsOf(m, p)

\* No dependency is forgotten: while no error ended the load, every root and
\* every module a loaded one imports from is loaded, was looked up in vain or is
\* outstanding.
ClosureOwed ==
  outcome.status # "Err" =>
    \A n \in Module : n \in Loaded \/ Missing(n) \/ Outstanding(n) \/ NotOwed(n)

\* Nothing is loaded or waits to be loaded that no chain of imports from a root
\* reaches: it belongs to every set closed under imports.
OnlyWanted ==
  \A C \in SUBSET Module :
    ClosedUnderImports(sources, requested, C) =>
      \A n \in Module : n \in Loaded \/ Outstanding(n) => n \in C

\* Import cycles cannot deepen the recursion: every call in progress has
\* inserted a module of its own.
BoundedRecursion == Len(stack) <= Cardinality(Loaded)

\* Whatever order the imports are taken in, the result is the selection, or an
\* error that some wanted module meets, and the load ends.
ImplementsSelection == S!Spec

==============================================================================
