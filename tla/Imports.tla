-------------------------------- MODULE Imports --------------------------------
(***************************************************************************)
(* The import phase: resolve_imports, copy_import_provenance_to_modules    *)
(* and resolve_transitive_imports of src/src/mib/resolver/imports.rs.      *)
(*                                                                         *)
(* Each module's IMPORTS clauses are taken in groups by the module they    *)
(* name.  A group is resolved directly, through an alias of the name, by   *)
(* forwarding through the imports of a version of the named module, or     *)
(* symbol by symbol.  A module is its position in the list of modules, a   *)
(* clause its position in the module's IMPORTS, and the recursion of       *)
(* explore_import_candidate an explicit stack.                             *)
(***************************************************************************)
EXTENDS LastUpdated, Sequences, FiniteSets, FiniteSetsExt

CONSTANTS
  ModName,      \* names of modules, loaded or not
  Symbol,       \* what modules define and import
  MacroNames,   \* the symbols that are SMI macros (MACRO_NAMES)
  AliasOf,      \* base_module_import_alias
  NoName,       \* no alias
  NoMod,        \* no module
  Worlds        \* the inputs considered

Clause == [symbol : Symbol, module : ModName]

Outcomes == {"Resolved", "SymbolNotDefined", "ModuleNotFound", "Cycle"}
Stages == {"direct", "alias", "forwarding", "partial", "unresolved"}
NoMode == "none"
Modes == {"Direct", "Alias", "Forwarded", "Partial", "Unresolved", "Cycle", NoMode}

ASSUME ImportsAssumption ==
  /\ MacroNames \subseteq Symbol
  /\ NoName \notin ModName
  /\ AliasOf \in [ModName -> ModName \cup {NoName}]
  /\ NoMod \notin Nat
  /\ \A w \in Worlds :
       /\ w.modules # <<>> /\ w.constrained \in BOOLEAN
       /\ w.modules \in Seq([name : ModName, imports : Seq(Clause),
                             defs : SUBSET Symbol, updated : Timestamps])

VARIABLES
  world,        \* the input: the modules and allow_constrained_fallbacks
  phase,        \* "imports", "recorded", "collapsed" or "copied"
  mod,          \* the module whose imports are being resolved
  todo,         \* its clauses in the groups not yet resolved
  stage,        \* how the first of these groups is being resolved
  cands,        \* versions of the named module not yet tried as forwarders
  syms,         \* clauses of the group not yet traversed at this stage
  found,        \* the paths found for the clauses of the group so far
  stack,        \* the traversal in progress, innermost call last
  imports,      \* module_imports
  modes,        \* import_resolution_modes
  paths,        \* import_selected_paths
  attempts,     \* import_resolution_attempts
  unresolved,   \* unresolved_imports
  duplicates,   \* ImportDuplicate diagnostics
  provenance    \* import_resolutions of the resolved modules

result == <<imports, modes, paths, attempts, unresolved>>
search == <<cands, syms, found, stack>>
vars == <<world, phase, mod, todo, stage, search, result, duplicates, provenance>>

Mods == DOMAIN world.modules
Clauses(m) == world.modules[m].imports
Defs(m) == world.modules[m].defs

\* module_index: the versions loaded under a name.
Versions(name) == {m \in Mods : world.modules[m].name = name}

IsFirst(m, i) == \A j \in 1 .. i - 1 : Clauses(m)[j].symbol # Clauses(m)[i].symbol

\* Of the clauses for one symbol the first counts.
Firsts(m) == {i \in DOMAIN Clauses(m) : IsFirst(m, i)}

\* Mutant: of the clauses for one symbol a forwarder follows the last.
LastSource(m, s) ==
  LET is == {i \in DOMAIN Clauses(m) : Clauses(m)[i].symbol = s}
  IN IF is = {} THEN NoName ELSE Clauses(m)[Max(is)].module

\* candidate_import_source_module
Source(m, s) == IF \E i \in Firsts(m) : Clauses(m)[i].symbol = s
                THEN Clauses(m)[CHOOSE i \in Firsts(m) : Clauses(m)[i].symbol = s].module
                ELSE NoName

Stamp(m) == normalize_timestamp(world.modules[m].updated)

\* The sorts by LAST-UPDATED are stable: ties keep the order of the index.
Newest(ms) == CHOOSE m \in ms :
  \A n \in ms \ {m} : Later(Stamp(m), Stamp(n)) \/ (Stamp(m) = Stamp(n) /\ m < n)

FromModule == Clauses(mod)[Min(todo)].module
Group == {i \in todo : Clauses(mod)[i].module = FromModule}
SymbolAt(i) == Clauses(mod)[i].symbol

\* Mutant: one macro in a group hides the whole group.
GroupWithoutMacro == IF \E i \in Group : SymbolAt(i) \in MacroNames THEN {} ELSE Group

NonMacro == {i \in Group : SymbolAt(i) \notin MacroNames}

InProgress == phase = "imports" /\ todo # {}

PerSymbol(e) == [m \in Mods |-> [s \in Symbol |-> e]]

NoRecord == [mode |-> NoMode, target |-> NoMod]

Init ==
  /\ world \in Worlds
  /\ phase = "imports" /\ mod = 0 /\ todo = {} /\ stage = "direct"
  /\ cands = {} /\ syms = {} /\ found = <<>> /\ stack = <<>>
  /\ imports = PerSymbol(NoMod) /\ modes = PerSymbol(NoMode)
  /\ paths = PerSymbol(<<>>) /\ attempts = PerSymbol({})
  /\ unresolved = {} /\ duplicates = {} /\ provenance = PerSymbol(NoRecord)

NextModule ==
  /\ phase = "imports" /\ todo = {} /\ mod < Len(world.modules)
  /\ mod' = mod + 1
  /\ todo' = Firsts(mod + 1)
  /\ duplicates' = duplicates \cup
       {<<mod + 1, i>> : i \in {j \in DOMAIN Clauses(mod + 1) :
          Source(mod + 1, Clauses(mod + 1)[j].symbol) # Clauses(mod + 1)[j].module}}
  /\ UNCHANGED <<world, phase, stage, search, result, provenance>>

EndGroup ==
  /\ todo' = todo \ Group /\ stage' = "direct"
  /\ cands' = {} /\ syms' = {} /\ found' = <<>> /\ stack' = <<>>

MacrosOnly ==
  /\ InProgress /\ stage = "direct" /\ NonMacro = {}
  /\ EndGroup
  /\ UNCHANGED <<world, phase, mod, result, duplicates, provenance>>

------------------------------------------------------------------------------
(* Results of a group. *)

\* The table with the entries of f in the row of the importing module.
Put(table, f) ==
  [table EXCEPT ![mod] = [s \in Symbol |-> IF s \in DOMAIN f THEN f[s] ELSE @[s]]]

Attempt(path, missing, outcome) ==
  [stage |-> stage, path |-> path, missing |-> missing, outcome |-> outcome,
   selected |-> FALSE]

\* record_live_attempts, the new ones given by symbol.
With(new) == Put(attempts, [s \in DOMAIN new |-> attempts[mod][s] \cup new[s]])

\* record_selected_path: the latest attempt with the path is of this stage.
Select(tried, path) ==
  {[a EXCEPT !.selected = @ \/ (a.outcome = "Resolved" /\ a.path = path /\ a.stage = stage)] :
     a \in tried}

\* Mutant: the module that forwards a symbol stands for the one that defines it.
ForwarderOf(path) == path[1]

Target(path) == path[Len(path)]

\* The symbols of DOMAIN route are imported, each along its path.
Take(route, mode, tried) ==
  /\ imports' = Put(imports, [s \in DOMAIN route |-> Target(route[s])])
  /\ modes' = Put(modes, [s \in DOMAIN route |-> mode])
  /\ paths' = Put(paths, route)
  /\ attempts' = [tried EXCEPT ![mod] =
       [s \in Symbol |-> IF s \in DOMAIN route THEN Select(@[s], route[s]) ELSE @[s]]]

Symbols(is) == {SymbolAt(i) : i \in is}

Lost(ss, reason) ==
  unresolved' = unresolved \cup
    {[module |-> mod, symbol |-> s, reason |-> reason] : s \in ss}

------------------------------------------------------------------------------
(* One module with the whole group: find_candidate_with_all_symbols. *)

Complete(cs) == {c \in cs : Symbols(NonMacro) \subseteq Defs(c)}

Scored(cs) == With([s \in Symbols(NonMacro) |->
  {Attempt(<<c>>, NoName, IF s \in Defs(c) THEN "Resolved" ELSE "SymbolNotDefined") :
     c \in cs}])

FoundWhole(cs, mode) ==
  /\ Complete(cs) # {}
  /\ Take([s \in Symbols(NonMacro) |-> <<Newest(Complete(cs))>>], mode, Scored(cs))
  /\ EndGroup
  /\ UNCHANGED <<world, phase, mod, unresolved, duplicates, provenance>>

Direct == /\ InProgress /\ stage = "direct" /\ NonMacro # {}
          /\ FoundWhole(Versions(FromModule), "Direct")

DirectFails ==
  /\ InProgress /\ stage = "direct" /\ NonMacro # {}
  /\ Complete(Versions(FromModule)) = {}
  /\ attempts' = Scored(Versions(FromModule))
  /\ stage' = IF world.constrained /\ AliasOf[FromModule] # NoName
              THEN "alias" ELSE "forwarding"
  /\ cands' = Versions(FromModule) /\ syms' = NonMacro
  /\ UNCHANGED <<world, phase, mod, todo, found, stack, imports, modes, paths,
                 unresolved, duplicates, provenance>>

Alias == /\ InProgress /\ stage = "alias"
         /\ FoundWhole(Versions(AliasOf[FromModule]), "Alias")

AliasFails ==
  /\ InProgress /\ stage = "alias"
  /\ Complete(Versions(AliasOf[FromModule])) = {}
  /\ attempts' = Scored(Versions(AliasOf[FromModule]))
  /\ stage' = "forwarding"
  /\ UNCHANGED <<world, phase, mod, todo, search, imports, modes, paths,
                 unresolved, duplicates, provenance>>

------------------------------------------------------------------------------
(* The traversal of one symbol: explore_import_candidate.  A frame holds a  *)
(* module on the path and the candidates still to explore from it; the      *)
(* first frame holds the versions of the named module.                      *)

Sought == SymbolAt(Min(syms))
Top == stack[Len(stack)]

\* The caller takes its candidates in the order of the index, the recursion the
\* newest first (ordered_import_candidates).
Pick == IF Len(stack) = 1 THEN Min(Top.rest) ELSE Newest(Top.rest)

Path == [k \in 1 .. Len(stack) |-> IF k < Len(stack) THEN stack[k + 1].at ELSE Pick]

Active == {stack[k].at : k \in 2 .. Len(stack)}

Exploring == InProgress /\ stack # <<>> /\ Top.rest # {}

Tried(missing, outcome) ==
  With([s \in {Sought} |-> {Attempt(Path, missing, outcome)}])

Traverse ==
  /\ InProgress /\ stage \in {"forwarding", "partial"}
  /\ stack = <<>> /\ syms # {} /\ cands # {}
  /\ stack' = <<[at |-> NoMod,
                 rest |-> IF stage = "forwarding" THEN {Min(cands)} ELSE cands]>>
  /\ UNCHANGED <<world, phase, mod, todo, stage, cands, syms, found, result,
                 duplicates, provenance>>

\* Mutant: the candidate that came to nothing is tried again.
SameAgain(missing, outcome) ==
  /\ attempts' = Tried(missing, outcome)
  /\ UNCHANGED <<world, phase, mod, todo, stage, search, imports, modes, paths,
                 unresolved, duplicates, provenance>>

\* The candidate comes to nothing, and the next one is tried.
DeadEnd(missing, outcome) ==
  /\ attempts' = Tried(missing, outcome)
  /\ stack' = [stack EXCEPT ![Len(stack)].rest = @ \ {Pick}]
  /\ UNCHANGED <<world, phase, mod, todo, stage, cands, syms, found, imports,
                 modes, paths, unresolved, duplicates, provenance>>

Cycle == /\ Exploring /\ Sought \notin Defs(Pick) /\ Pick \in Active
         /\ DeadEnd(NoName, "Cycle")

NotImported == /\ Exploring /\ Sought \notin Defs(Pick) /\ Pick \notin Active
               /\ Source(Pick, Sought) = NoName
               /\ DeadEnd(NoName, "SymbolNotDefined")

SourceMissing == /\ Exploring /\ Sought \notin Defs(Pick) /\ Pick \notin Active
                 /\ Source(Pick, Sought) # NoName
                 /\ Versions(Source(Pick, Sought)) = {}
                 /\ DeadEnd(Source(Pick, Sought), "ModuleNotFound")

\* Mutant: the recursion follows the newest version of the named module alone.
NewestOnly(name) == LET vs == {m \in Mods : world.modules[m].name = name}
                    IN IF vs = {} THEN {} ELSE {Newest(vs)}

\* The candidates of the recursion.
Onward(name) == Versions(name)

Descend ==
  /\ Exploring /\ Sought \notin Defs(Pick) /\ Pick \notin Active
  /\ Versions(Source(Pick, Sought)) # {}
  /\ stack' = Append([stack EXCEPT ![Len(stack)].rest = @ \ {Pick}],
                     [at |-> Pick, rest |-> Onward(Source(Pick, Sought))])
  /\ UNCHANGED <<world, phase, mod, todo, stage, cands, syms, found, result,
                 duplicates, provenance>>

Backtrack ==
  /\ InProgress /\ Len(stack) > 1 /\ Top.rest = {}
  /\ stack' = SubSeq(stack, 1, Len(stack) - 1)
  /\ UNCHANGED <<world, phase, mod, todo, stage, cands, syms, found, result,
                 duplicates, provenance>>

------------------------------------------------------------------------------
(* try_import_forwarding: one version forwards the whole group, or none does. *)

ForwardFound ==
  /\ Exploring /\ stage = "forwarding" /\ Sought \in Defs(Pick)
  /\ found' = [s \in DOMAIN found \cup {Sought} |-> IF s = Sought THEN Path ELSE found[s]]
  /\ syms' = syms \ {Min(syms)} /\ stack' = <<>>
  /\ attempts' = Tried(NoName, "Resolved")
  /\ UNCHANGED <<world, phase, mod, todo, stage, cands, imports, modes, paths,
                 unresolved, duplicates, provenance>>

TraversalFails == InProgress /\ Len(stack) = 1 /\ Top.rest = {}

ForwarderFails ==
  /\ TraversalFails /\ stage = "forwarding"
  /\ cands' = cands \ {Min(cands)} /\ syms' = NonMacro
  /\ found' = <<>> /\ stack' = <<>>
  /\ UNCHANGED <<world, phase, mod, todo, stage, result, duplicates, provenance>>

Forward ==
  /\ InProgress /\ stage = "forwarding" /\ stack = <<>> /\ syms = {}
  /\ Take(found, "Forwarded", attempts)
  /\ EndGroup
  /\ UNCHANGED <<world, phase, mod, unresolved, duplicates, provenance>>

NoForwarder == InProgress /\ stage = "forwarding" /\ cands = {} /\ syms # {}

------------------------------------------------------------------------------
(* try_partial_resolution, symbol by symbol. *)

Partial ==
  /\ NoForwarder /\ Versions(FromModule) # {}
  /\ stage' = "partial" /\ cands' = Versions(FromModule)
  /\ UNCHANGED <<world, phase, mod, todo, syms, found, stack, result, duplicates,
                 provenance>>

PartialFound ==
  /\ Exploring /\ stage = "partial" /\ Sought \in Defs(Pick)
  /\ Take([s \in {Sought} |-> Path], "Partial", Tried(NoName, "Resolved"))
  /\ syms' = syms \ {Min(syms)} /\ stack' = <<>>
  /\ UNCHANGED <<world, phase, mod, todo, stage, cands, found, unresolved,
                 duplicates, provenance>>

NotExported ==
  /\ TraversalFails /\ stage = "partial"
  /\ modes' = Put(modes, [s \in {Sought} |-> "Partial"])
  /\ Lost({Sought}, "SymbolNotExported")
  /\ syms' = syms \ {Min(syms)} /\ stack' = <<>>
  /\ UNCHANGED <<world, phase, mod, todo, stage, cands, found, imports, paths,
                 attempts, duplicates, provenance>>

PartialDone ==
  /\ InProgress /\ stage = "partial" /\ syms = {}
  /\ EndGroup
  /\ UNCHANGED <<world, phase, mod, result, duplicates, provenance>>

\* Every fallback is exhausted, and no version of the named module is loaded.
ModuleNotFound ==
  /\ NoForwarder /\ Versions(FromModule) = {}
  /\ modes' = Put(modes, [s \in Symbols(NonMacro) |-> "Unresolved"])
  /\ attempts' = With([s \in Symbols(NonMacro) |->
       {[Attempt(<<>>, FromModule, "ModuleNotFound") EXCEPT !.stage = "unresolved"]}])
  /\ Lost(Symbols(NonMacro), "ModuleNotFound")
  /\ EndGroup
  /\ UNCHANGED <<world, phase, mod, imports, paths, duplicates, provenance>>

------------------------------------------------------------------------------
(* Provenance, and the collapse of import chains. *)

PublicMode(m, s) ==
  IF imports[m][s] = NoMod /\ \E a \in attempts[m][s] : a.outcome = "Cycle"
  THEN "Cycle" ELSE modes[m][s]

\* copy_import_provenance_to_modules
Record ==
  /\ phase = "imports" /\ todo = {} /\ mod = Len(world.modules)
  /\ phase' = "recorded"
  /\ provenance' = [m \in Mods |-> [s \in Symbol |->
       IF modes[m][s] = NoMode THEN NoRecord
       ELSE [mode |-> PublicMode(m, s), target |-> imports[m][s]]]]
  /\ UNCHANGED <<world, mod, todo, stage, search, result, duplicates>>

\* resolve_ultimate_definer follows the resolved imports up to the first module
\* that defines the symbol, and gives up at one it has been to.
Chains(m, s) ==
  {c \in UNION {[1 .. n -> Mods] : n \in 1 .. Len(world.modules)} :
     LET n == Len(c) IN
       /\ c[1] = imports[m][s] /\ s \in Defs(c[n])
       /\ \A k \in 1 .. n - 1 : s \notin Defs(c[k]) /\ c[k + 1] = imports[c[k]][s]}

Definer(m, s) == IF Chains(m, s) = {} THEN NoMod
                 ELSE LET c == CHOOSE c \in Chains(m, s) : TRUE IN c[Len(c)]

\* resolve_transitive_imports
Collapse ==
  /\ phase = "recorded"
  /\ phase' = "collapsed"
  /\ imports' = [m \in Mods |-> [s \in Symbol |->
       IF imports[m][s] = NoMod THEN NoMod ELSE Definer(m, s)]]
  /\ unresolved' = unresolved \cup
       {[module |-> p[1], symbol |-> p[2], reason |-> "SymbolNotExported"] :
          p \in {q \in Mods \X Symbol :
            imports[q[1]][q[2]] # NoMod /\ Definer(q[1], q[2]) = NoMod}}
  /\ UNCHANGED <<world, mod, todo, stage, search, modes, paths, attempts,
                 duplicates, provenance>>

\* copy_resolved_imports_to_modules
CopyResolved ==
  /\ phase = "collapsed"
  /\ phase' = "copied"
  /\ provenance' = [m \in Mods |-> [s \in Symbol |->
       [provenance[m][s] EXCEPT !.target = imports[m][s]]]]
  /\ UNCHANGED <<world, mod, todo, stage, search, result, duplicates>>

Next ==
  \/ NextModule \/ MacrosOnly \/ Direct \/ DirectFails \/ Alias \/ AliasFails
  \/ Traverse \/ Cycle \/ NotImported \/ SourceMissing \/ Descend \/ Backtrack
  \/ ForwardFound \/ ForwarderFails \/ Forward
  \/ Partial \/ PartialFound \/ NotExported \/ PartialDone \/ ModuleNotFound
  \/ Record \/ Collapse \/ CopyResolved

\* The resolver is single-threaded and keeps taking the step it can take.
Spec == Init /\ [][Next]_vars /\ WF_vars(Next)

------------------------------------------------------------------------------
(* Properties. *)

Tables ==
  /\ imports \in [Mods -> [Symbol -> Mods \cup {NoMod}]]
  /\ modes \in [Mods -> [Symbol -> Modes]]
  /\ paths \in [Mods -> [Symbol -> Seq(Mods)]]
  /\ DOMAIN attempts = Mods
  /\ \A m \in Mods : DOMAIN attempts[m] = Symbol /\ \A s \in Symbol :
       \A a \in attempts[m][s] :
         a \in [stage : Stages, path : Seq(Mods), missing : ModName \cup {NoName},
                outcome : Outcomes, selected : BOOLEAN]
  /\ \A u \in unresolved :
       u \in [module : Mods, symbol : Symbol,
              reason : {"ModuleNotFound", "SymbolNotExported"}]
  /\ duplicates \subseteq UNION {{m} \X DOMAIN Clauses(m) : m \in Mods}
  /\ provenance \in [Mods -> [Symbol -> [mode : Modes, target : Mods \cup {NoMod}]]]

TypeOK ==
  /\ world \in Worlds
  /\ phase \in {"imports", "recorded", "collapsed", "copied"}
  /\ mod \in 0 .. Len(world.modules)
  /\ stage \in {"direct", "alias", "forwarding", "partial"}
  /\ cands \subseteq Mods
  /\ IF mod = 0 THEN todo = {} ELSE todo \subseteq Firsts(mod)
  /\ syms \subseteq (IF todo = {} THEN {} ELSE NonMacro)
  /\ DOMAIN found \subseteq Symbol /\ \A s \in DOMAIN found : found[s] \in Seq(Mods)
  /\ stack \in Seq([at : Mods \cup {NoMod}, rest : SUBSET Mods])
  /\ Tables

\* At every moment of the phase an import leads to a module that defines the
\* symbol, however many modules forward it, so that the chains are collapsed
\* before resolve_transitive_imports runs.
AtDefiner ==
  \A m \in Mods, s \in Symbol : imports[m][s] # NoMod => s \in Defs(imports[m][s])

\* The name leads to module n: it is n's, or an alias of n's that may be followed.
LeadsTo(name, n) ==
  LET actual == world.modules[n].name
  IN actual = name \/ (world.constrained /\ AliasOf[name] = actual)

SoundPath(m, s, p) ==
  /\ p # <<>> /\ LeadsTo(Source(m, s), p[1])
  /\ \A k \in 1 .. Len(p) - 1 : /\ world.modules[p[k + 1]].name = Source(p[k], s)
                                /\ s \notin Defs(p[k])
  /\ \A j, k \in 1 .. Len(p) : p[j] = p[k] => j = k

\* The provenance of an import is true: its path starts at the module named by
\* the importer's clause, goes on from each module to one its own clause for the
\* symbol names, through no module twice and none that defines the symbol, and
\* ends at the target.
PathSound ==
  \A m \in Mods, s \in Symbol : imports[m][s] # NoMod =>
    LET p == paths[m][s] IN SoundPath(m, s, p) /\ p[Len(p)] = imports[m][s]

\* A set of modules that holds the versions of the named module and with a module
\* that does not define the symbol the versions of the one its clause names.
ClosedUnderImports(ms, m, s) ==
  /\ Versions(Source(m, s)) \subseteq ms
  /\ \A n \in ms : s \notin Defs(n) => Versions(Source(n, s)) \subseteq ms

\* Cutting cycles loses nothing: a symbol is reported as not exported only when no
\* chain of imports from the named module leads to a definition of it.
NoFalseMissing ==
  \A u \in unresolved : u.reason = "SymbolNotExported" =>
    \E ms \in SUBSET Mods : /\ ClosedUnderImports(ms, u.module, u.symbol)
                            /\ \A n \in ms : u.symbol \notin Defs(n)

\* "an unresolved import cannot retain a target" (trace.rs, unreachable!), and an
\* import that retains one has the attempt that selected it.
TargetOnlyIfResolved ==
  \A m \in Mods, s \in Symbol :
    LET r == provenance[m][s] IN
      /\ r.mode \in {"Unresolved", "Cycle"} => r.target = NoMod
      /\ r.mode \in {"Direct", "Alias", "Forwarded"} => r.target # NoMod
      /\ r.target # NoMod <=> \E a \in attempts[m][s] : a.selected /\ a.path = paths[m][s]

\* At the end every symbol a module imports, macros excepted, is imported or
\* reported, and not both, and what a trace of it will read agrees.
Accounted ==
  /\ phase = "copied" =>
       \A m \in Mods : \A i \in Firsts(m) :
         LET s == Clauses(m)[i].symbol IN
           s \notin MacroNames =>
             (imports[m][s] = NoMod) <=> \E u \in unresolved : u.module = m /\ u.symbol = s
  /\ phase # "imports" => TargetOnlyIfResolved

\* Cycles and all, the phase ends.
Terminates == <>(phase = "copied")

\* "The resolver handles this by checking ACME-MIB's own IMPORTS, finding that it
\* declares AcmeStatus FROM ACME-TC, and following that chain" (lib.rs): what a
\* module itself could import can be imported from it.
ForwardsItsImports ==
  phase = "copied" =>
    \A u \in unresolved : \A n \in Versions(Source(u.module, u.symbol)) :
      imports[n][u.symbol] = NoMod

==============================================================================
