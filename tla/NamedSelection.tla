---------------------------- MODULE NamedSelection ----------------------------
(***************************************************************************)
(* What Loader::modules promises: "restrict loading to the named modules   *)
(* and their transitive dependencies", the foundation modules always       *)
(* included.  One step, whose result depends on the sources and the names  *)
(* alone; only which of several errors is reported is left open.           *)
(***************************************************************************)
EXTENDS LoadRequests

VARIABLES
  sources,     \* the configured sources
  requested,   \* the requested names
  outcome      \* Pending, or what the load returned

vars == <<sources, requested, outcome>>

Init == /\ sources \in Worlds
        /\ requested \in Requests
        /\ outcome = Pending

Fails == \E e \in FaultsAmong(sources, Wanted(sources, requested)) :
           outcome' = Err(e)

Selects ==
  /\ FaultsAmong(sources, Wanted(sources, requested)) = {}
  /\ outcome' = Ok(Selection(sources, Wanted(sources, requested)),
                   VisitedFor(sources, Wanted(sources, requested)))

Next == /\ outcome = Pending
        /\ UNCHANGED <<sources, requested>>
        /\ Fails \/ Selects

Spec == Init /\ [][Next]_vars /\ WF_vars(Next)

==============================================================================
