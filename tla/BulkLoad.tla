------------------------------- MODULE BulkLoad -------------------------------
(***************************************************************************)
(* What Loader::load promises of a load of everything (src/src/load.rs,    *)
(* load_all_modules and the builder's documentation): one step, whose      *)
(* result depends on the sources alone.  "When the same module is          *)
(* available from multiple sources, the first matching source wins", and   *)
(* advertisements that decoding does not confirm shadow nothing.  An error *)
(* is returned exactly when a search meets one; which of several errors is *)
(* reported is left open.                                                  *)
(***************************************************************************)
EXTENDS LoadSources

VARIABLES
  sources,   \* the configured sources, fixed when the load starts
  outcome    \* Pending, or what the load returned

vars == <<sources, outcome>>

Init == sources \in Worlds /\ outcome = Pending

ListingFails ==
  \E s \in SourceIdx : /\ ListingFailsAt(sources, s)
                       /\ outcome' = Err(ListingFault(s))

SearchFails ==
  /\ \A s \in SourceIdx : ~ sources[s].listFails
  /\ \E e \in SearchFaults(sources) : outcome' = Err(e)

Loads ==
  /\ \A s \in SourceIdx : ~ sources[s].listFails
  /\ SearchFaults(sources) = {}
  /\ outcome' = Ok(Resolution(sources), AllVisited(sources))

Next == /\ outcome = Pending
        /\ UNCHANGED sources
        /\ ListingFails \/ SearchFails \/ Loads

Spec == Init /\ [][Next]_vars /\ WF_vars(Next)

==============================================================================
