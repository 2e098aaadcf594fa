-------------------------------- MODULE Trace --------------------------------
(***************************************************************************)
(* Mib::trace_symbol of src/src/mib/trace.rs: which definition a name      *)
(* stands for, in the scope of a module or in none, and why.  A trace      *)
(* reads the tables of the finished Mib and follows the rules on its own,  *)
(* after the passes of Semantics looked the names up while these tables    *)
(* were filled.  Left out are types, among them those that index by a      *)
(* type alone, and the components of OIDs: other phases resolve them.      *)
(***************************************************************************)
EXTENDS Semantics

Domains == {"Object", "Index", "NotificationObject", "GroupMember", "Conformance"}
ObjectDomains == {"Object", "Index", "NotificationObject"}

\* ResolutionCandidate: a definition and its node, or a node that nothing defines further.
None == [module |-> NoModule, def |-> 0, node |-> NoNode]
CandidateOf(d) == IF d = 0 THEN None ELSE [module |-> Def(d).module, def |-> d, node |-> NodeOf(d)]

\* Module::symbols: what a module calls n, by place, one definition of each sort; a node
\* is no symbol of its own where some definition has the name.
SortOrder == <<"Object", "Notification", "Group", "Compliance", "Capability">>
symbols(m, n) ==
  LET first(s) == First({d \in created : Def(d).sort = s /\ Def(d).module = m /\ Def(d).name = n})
      entities == {k \in DOMAIN SortOrder : first(SortOrder[k]) # 0}
  IN IF entities # {} THEN [k \in entities |-> CandidateOf(first(SortOrder[k]))]
     ELSE IF world.symbols[m][n] = NoNode THEN <<>>
     ELSE <<[module |-> m, def |-> 0, node |-> world.symbols[m][n]]>>

symbol_matches_domain(c, domain) ==
  domain \in ObjectDomains => c.def # 0 /\ Def(c.def).sort = "Object"

domain_candidate_in_module(m, n, domain) ==
  LET found == {k \in DOMAIN symbols(m, n) : symbol_matches_domain(symbols(m, n)[k], domain)}
  IN IF found = {} THEN None ELSE symbols(m, n)[First(found)]

\* A notification's object is what the first node of the name carries, whatever its name.
global_domain_candidate(n, domain) ==
  LET defining == {k \in DOMAIN Order : world.symbols[Order[k]][n] # NoNode}
      first    == Order[First(defining)]
  IN IF domain \in {"Object", "Index"} THEN CandidateOf(object_by_name(n))
     ELSE IF defining = {} THEN None
     ELSE IF domain = "NotificationObject" THEN CandidateOf(attached["Object"][world.symbols[first][n]])
     ELSE domain_candidate_in_module(first, n, domain)

Selected(strategy, c) == [strategy |-> strategy, target |-> c]

ImportedCandidate(m, n, domain) ==
  IF FromImport(m, n) THEN domain_candidate_in_module(world.imports[m][n], n, domain) ELSE None

\* Mutant: an import hides a definition of the module's own.
ImportsFirst(m, n, domain) ==
  LET local    == domain_candidate_in_module(m, n, domain)
      imported == ImportedCandidate(m, n, domain)
      anywhere == IF world.permissive THEN global_domain_candidate(n, domain) ELSE None
  IN IF imported # None THEN Selected("Import", imported)
     ELSE IF local # None THEN Selected("Local", local)
     ELSE Selected("GlobalFallback", anywhere)

\* resolve_trace_in_scope, for domains without foundation modules.
resolve_trace_in_scope(m, n, domain) ==
  LET local    == domain_candidate_in_module(m, n, domain)
      imported == ImportedCandidate(m, n, domain)
      anywhere == IF world.permissive THEN global_domain_candidate(n, domain) ELSE None
  IN IF local # None THEN Selected("Local", local)
     ELSE IF imported # None THEN Selected("Import", imported)
     ELSE Selected("GlobalFallback", anywhere)

\* resolution_candidates, those that the domain takes.
applicable_candidates(n, domain) ==
  {c \in UNION {NamesOf(symbols(m, n)) : m \in Module} : symbol_matches_domain(c, domain)}

\* Outside of a module a name resolves when one definition alone has it.
trace_symbol(scope, n, domain) ==
  IF scope # NoModule
  THEN LET s == resolve_trace_in_scope(scope, n, domain)
       IN [outcome |-> IF s.target = None THEN "Missing" ELSE "Resolved", target |-> s.target]
  ELSE LET candidates == applicable_candidates(n, domain)
       IN IF Cardinality(candidates) = 1
          THEN [outcome |-> "Resolved", target |-> CHOOSE c \in candidates : TRUE]
          ELSE [outcome |-> IF candidates = {} THEN "Missing" ELSE "Ambiguous", target |-> None]

------------------------------------------------------------------------------
(* Properties *)

\* What a definition names, by domain.
NamedBy(d, domain) ==
  CASE domain = "Index" -> NamesOf(Def(d).index) \ BareTypes
    [] domain = "Object" ->
         ({Def(d).augments} \ {NoName}) \cup UNION {NamesOf(c.objects) : c \in Own(d)}
    [] domain = "NotificationObject" -> NamesOf(Def(d).objects)
    [] domain = "GroupMember" -> NamesOf(Def(d).members)
    [] domain = "Conformance" -> UNION {NamesOf(c.groups) : c \in Own(d)}

RowAgrees(d) ==
  LET target(n, domain) == trace_symbol(Def(d).module, n, domain).target.def
  IN /\ \A k \in DOMAIN index[d] :
          index[d][k].name \in BareTypes \/ index[d][k].object = target(index[d][k].name, "Index")
     /\ Def(d).augments # NoName => augments[d] = target(Def(d).augments, "Object")

\* Below Permissive the resolver also takes the object that a node in scope carries under
\* another name or from another module (semantics.rs:1580), where a trace finds nothing.
NotificationAgrees(d) ==
  LET m      == Def(d).module
      names  == Def(d).objects
      traced == Filtered([k \in DOMAIN names |->
                            trace_symbol(m, names[k], "NotificationObject").target.def], Defs)
      carried == {attached["Object"][ScopeNode(m, n)] : n \in {x \in NamesOf(names) : ScopeNode(m, x) # NoNode}}
  IN IF world.permissive THEN refs[d] = traced
     ELSE NamesOf(traced) \subseteq NamesOf(refs[d])
          /\ NamesOf(refs[d]) \subseteq NamesOf(traced) \cup carried

\* An object without a node is a symbol for a trace, while the resolver goes on to the
\* import or to any module (context.rs:272): such members are left out.
GroupAgrees(d) ==
  LET names   == Def(d).members
      targets == [k \in DOMAIN names |->
                    trace_symbol(Def(d).module, names[k], "GroupMember").target]
  IN (\A k \in DOMAIN names : targets[k] # None => targets[k].node # NoNode)
       => refs[d] = Filtered([k \in DOMAIN names |-> targets[k].node], Node)

\* A trace explains the finished Mib: "a scoped lookup follows the same local, import, and
\* fallback rules as semantic resolution" (trace.rs:237).  It selects what INDEX, AUGMENTS,
\* OBJECTS and the members of groups were linked to, an import it goes through was marked
\* as used, unless its definition has no node, and where no scope is needed no module that
\* finds the name finds another definition (at Permissive, notification objects apart).
TraceAgrees ==
  pass = "done" =>
    /\ \A d \in {e \in created : AloneInName(e)} :
         /\ Def(d).sort = "Object" => RowAgrees(d)
         /\ Def(d).sort = "Notification" => NotificationAgrees(d)
         /\ Def(d).sort = "Group" => GroupAgrees(d)
         /\ \A domain \in Domains : \A n \in NamedBy(d, domain) :
              LET s == resolve_trace_in_scope(Def(d).module, n, domain)
              IN s.strategy = "Import" /\ s.target.node # NoNode => <<Def(d).module, n>> \in used
    /\ \A n \in Name, domain \in Domains, m \in Module :
         LET anywhere == trace_symbol(NoModule, n, domain)
             scoped   == trace_symbol(m, n, domain)
         IN /\ anywhere.outcome = "Resolved" /\ scoped.outcome = "Resolved"
            /\ ~ (world.permissive /\ domain = "NotificationObject")
            => scoped.target = anywhere.target

==============================================================================
