------------------------------ MODULE Preference ------------------------------
(***************************************************************************)
(* Which of two modules owns what both define: should_prefer_module of     *)
(* src/src/mib/resolver/oids.rs, with language_rank of util.rs.  The OID   *)
(* and the semantic phase decide by it.                                    *)
(***************************************************************************)
EXTENDS LastUpdated

CONSTANTS
  Module,       \* the modules of a load
  NoModule,     \* no owner yet
  NameOrder     \* the place of a module's name in lexicographic order

ASSUME ModuleAssumption ==
  /\ NoModule \notin Module
  /\ NameOrder \in [Module -> Nat]
  /\ \A m, n \in Module : NameOrder[m] = NameOrder[n] => m = n

Languages == {"SMIv2", "SMIv1", "SPPI", "Unknown"}

language_rank(language) == CASE language = "SMIv2" -> 2
                             [] language \in {"SMIv1", "SPPI"} -> 1
                             [] language = "Unknown" -> 0

\* What the decision looks at: is_base_module, the language and LAST-UPDATED.
ModuleFacts == [base : BOOLEAN, language : Languages, updated : Timestamps]

\* Does the new module take over from the one that has the node?
Overrules(facts, new, current) ==
  LET rank(m) == language_rank(facts[m].language)
      stamp(m) == normalize_timestamp(facts[m].updated)
  IN \/ facts[new].base /\ ~ facts[current].base
     \/ /\ facts[new].base = facts[current].base
        /\ \/ rank(new) > rank(current)
           \/ /\ rank(new) = rank(current)
              /\ \/ Later(stamp(new), stamp(current))
                 \/ /\ stamp(new) = stamp(current)
                    /\ NameOrder[new] < NameOrder[current]

\* Mutant of should_prefer_module: the first module to name a node keeps it.
FirstComeFirst(facts, current, new) == current = NoModule

should_prefer_module(facts, current, new) ==
  current # NoModule => Overrules(facts, new, current)

==============================================================================
