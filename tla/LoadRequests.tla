----------------------------- MODULE LoadRequests -----------------------------
(***************************************************************************)
(* What a load by name starts from: the names given to Loader::modules and *)
(* the foundation modules (src/src/load.rs, src/src/lower/base_modules.rs).*)
(***************************************************************************)
EXTENDS LoadSources

CONSTANTS
  Requests,      \* the lists of names a load may be asked for
  BaseModules    \* lower::base_modules::base_module_names()

ASSUME RequestsAssumption ==
  /\ \A names \in Requests : names \in Seq(Module)
  /\ BaseModules \in Seq(Module)

\* The names load_one is called for at the top, in order.
Roots(names) == names \o BaseModules

IsRoot(names, n) == \E i \in 1 .. Len(Roots(names)) : Roots(names)[i] = n

\* R holds the roots and whatever a module found for a member of R imports from.
ClosedUnderImports(src, names, R) ==
  /\ \A n \in Module : IsRoot(names, n) => n \in R
  /\ \A n \in R : \A p \in Positions(src, SourceIdx, n) :
       Finds(src, SourceIdx, n, p) =>
         src[p[1]].imports[Candidate(src, n, p)][n] \subseteq R

\* The least such set: the names the load looks up.
Wanted(src, names) ==
  {n \in Module : \A R \in SUBSET Module :
                    ClosedUnderImports(src, names, R) => n \in R}

FaultsAmong(src, R) ==
  UNION {{FaultOf(src, n, p) :
            p \in {q \in Positions(src, SourceIdx, n) :
                     FailsAt(src, SourceIdx, n, q)}} : n \in R}

Selection(src, R) ==
  [n \in Module |->
     IF n \in R
     THEN CHOOSE key \in Key \cup {Absent} : Resolves(src, SourceIdx, n, key)
     ELSE Absent]

VisitedFor(src, R) == UNION {Visited(src, SourceIdx, n) : n \in R}

==============================================================================
