------------------------------ MODULE OidResolve ------------------------------
(***************************************************************************)
(* Phase 4 of the resolver, resolve_oids of src/src/mib/resolver/oids.rs:  *)
(* the definitions with an OID are put in dependency order, and each is    *)
(* resolved component by component, growing the OID tree and naming its    *)
(* nodes; then the TRAP-TYPE definitions are.  A node of the tree is the   *)
(* path of arcs that leads to it; the root is the empty path.              *)
(*                                                                         *)
(* A world is what the earlier phases hand over:                           *)
(*   facts        what should_prefer_module looks at, by module            *)
(*   defs         the definitions with an OID, in the order of the modules *)
(*                and of the source, each with the index of its module,    *)
(*                name, kind, OID components and whether it has a text     *)
(*   traps        the TRAP-TYPE definitions without an OID                 *)
(*   imports      ctx.module_imports: the module an imported name is from  *)
(*   constrained  strictness Normal or Permissive                          *)
(***************************************************************************)
EXTENDS Preference, Sequences, FiniteSets

CONSTANTS
  Name,         \* the names definitions and components use
  NoName,       \* the empty name of a node
  NoPath,       \* no node
  RootArc,      \* the arcs of the well-known roots, by name
  MaxArc,       \* u32::MAX
  SnmpTraps,    \* the OID of snmpTraps
  Smi,          \* the module SNMPv2-SMI, NoModule when it is not loaded
  Rfc,          \* the module RFC1155-SMI, NoModule when it is not loaded
  Worlds

Arc == 0 .. MaxArc
Path == Seq(Arc)

Forms == {"Number", "Name", "NamedNumber", "QualifiedName", "QualifiedNamedNumber"}
Component == {c \in [form : Forms, module : Module \cup {NoModule},
                     name : Name \cup {NoName}, value : Arc] :
                c.form # "Number" => c.name \in Name}
DefKinds == {"ObjectType", "ModuleIdentity", "ObjectIdentity", "Notification",
             "ValueAssignment", "Group", "Compliance", "Capability"}
Definition == [mod : Module, name : Name, kind : DefKinds, oid : Seq(Component),
               described : BOOLEAN]
Trap == [mod : Module, name : Name, enterprise : Name, number : Arc]
World == [facts : [Module -> ModuleFacts], defs : Seq(Definition),
          traps : Seq(Trap), constrained : BOOLEAN,
          imports : [Module -> [Name -> Module \cup {NoModule}]]]

ASSUME OidAssumption ==
  /\ MaxArc \in Nat
  /\ NoName \notin Name
  /\ NoPath \notin Path
  /\ {Smi, Rfc} \subseteq Module \cup {NoModule}
  /\ \E R \in SUBSET Name : RootArc \in [R -> Arc]
  /\ SnmpTraps \in Path
  /\ \A w \in Worlds : w \in World

VARIABLES
  world,      \* the input
  phase,      \* "cycles", "defs", "traps" or "done"
  cyclic,     \* the symbols on a cycle
  done,       \* the symbols whose turn has come
  cur,        \* the definition being resolved, 0 between two of them
  comp,       \* its next component
  at,         \* the node its components have led to
  node,       \* the OID tree: what is known of each existing node
  sym,        \* module_symbol_to_node
  used,       \* used_imports
  index,      \* Mib.name_to_nodes
  moduleOid,  \* the OID of a module's MODULE-IDENTITY
  reports,    \* unresolved references and OID diagnostics
  listed,     \* the nodes of each module: Module.add_node
  identities, \* the definitions added to their module's identities
  placed      \* for a definition finalized, its node

vars == <<world, phase, cyclic, done, cur, comp, at, node, sym, used, index, moduleOid,
          reports, listed, identities, placed>>

------------------------------------------------------------------------------
(* The dependency graph. *)

Def(i) == world.defs[i]
DefIdx == 1 .. Len(world.defs)
SymbolOf(i) == <<Def(i).mod, Def(i).name>>
Symbols == {SymbolOf(i) : i \in DefIdx}

\* sym_to_gn_idx and gn_to_idx keep the last definition of a symbol.
IsKept(i) == \A j \in DefIdx : SymbolOf(j) = SymbolOf(i) => j <= i
KeptOf(s) == CHOOSE i \in DefIdx : SymbolOf(i) = s /\ IsKept(i)

\* module_def_names, and is_smi_global_root_symbol.
Defines(m, n) == \/ <<m, n>> \in Symbols
                 \/ \E t \in 1 .. Len(world.traps) :
                      world.traps[t].mod = m /\ world.traps[t].name = n
IsSmiGlobalRoot(n) == <<Smi, n>> \in Symbols \/ <<Rfc, n>> \in Symbols

IsNamed(c) == c.form \in {"Name", "NamedNumber"}
IsQualified(c) == c.form \in {"QualifiedName", "QualifiedNamedNumber"}
IsRoot(c) == IsNamed(c) /\ c.name \in DOMAIN RootArc

\* first_component_dep_symbol: the symbol, if any, a component of module m names.
DepSymbols(m, c) ==
  IF IsQualified(c) THEN {<<c.module, c.name>>}
  ELSE IF ~ IsNamed(c) \/ IsRoot(c) THEN {}
  ELSE IF Defines(m, c.name) THEN {<<m, c.name>>}
  ELSE IF world.imports[m][c.name] # NoModule
       THEN {<<world.imports[m][c.name], c.name>>}
  ELSE IF world.constrained /\ IsSmiGlobalRoot(c.name) THEN {<<Smi, c.name>>}
  ELSE {}

\* Mutant of Deps: the definitions of the same module are taken as they come.
DepsOutside(s) == {d \in Symbols :
                     /\ d[1] # s[1]
                     /\ \E i \in DefIdx : /\ SymbolOf(i) = s /\ Def(i).oid # <<>>
                                          /\ d \in DepSymbols(Def(i).mod, Def(i).oid[1])}

\* The edges of the graph: the first component only.
Deps(s) == {d \in Symbols :
             \E i \in DefIdx : /\ SymbolOf(i) = s /\ Def(i).oid # <<>>
                               /\ d \in DepSymbols(Def(i).mod, Def(i).oid[1])}

Reached(S) ==
  LET R[k \in 0 .. Cardinality(Symbols)] ==
        IF k = 0 THEN S ELSE R[k - 1] \cup UNION {Deps(s) : s \in R[k - 1]}
  IN R[Cardinality(Symbols)]

\* Mutant of OnCycle: of the cycles only the self-loops are seen.
SelfLoops == {s \in Symbols : s \in Deps(s)}

OnCycle == {s \in Symbols : s \in Reached(Deps(s))}

Waiting == {i \in DefIdx : SymbolOf(i) \notin done \cup cyclic}

\* Tarjan's algorithm visits the symbols in the order they were added and emits
\* one once all it depends on is emitted.
Ready ==
  {s \in Reached({SymbolOf(i) : i \in {i \in Waiting : \A j \in Waiting : i <= j}}) :
     s \notin done \cup cyclic /\ Deps(s) \subseteq done \cup cyclic}

------------------------------------------------------------------------------
(* The tree and the lookups. *)

Fresh == [name |-> NoName, module |-> NoModule, kind |-> "Internal",
          range |-> 0, text |-> 0, status |-> 0]

NodeAt(p) == IF p \in DOMAIN node THEN node[p] ELSE Fresh
Put(p, r) == [q \in DOMAIN node \cup {p} |-> IF q = p THEN r ELSE node[q]]
get_or_create_child(p, a) == Put(Append(p, a), NodeAt(Append(p, a)))

Bind(m, n, p) == [sym EXCEPT ![m] = [@ EXCEPT ![n] = p]]

\* The node of n in the first of the modules ms that has one.
FirstIn(ms, n) ==
  IF \E i \in 1 .. Len(ms) : sym[ms[i]][n] # NoPath
  THEN LET i == CHOOSE i \in 1 .. Len(ms) :
                  /\ sym[ms[i]][n] # NoPath
                  /\ \A j \in 1 .. i - 1 : sym[ms[j]][n] = NoPath
       IN sym[ms[i]][n]
  ELSE NoPath

\* lookup_node_global: the first module, in the order of their names.
lookup_node_global(n) ==
  IF \E m \in Module : sym[m][n] # NoPath
  THEN LET m == CHOOSE m \in Module :
                  /\ sym[m][n] # NoPath
                  /\ \A k \in Module : sym[k][n] # NoPath =>
                                         NameOrder[m] <= NameOrder[k]
       IN sym[m][n]
  ELSE NoPath

\* lookup_node_for_module: the module itself, then what it imports the name from.
Scope(m, n) == <<m, world.imports[m][n]>>
Fallback == IF world.constrained THEN <<Smi, Rfc>> ELSE <<>>
\* Mutant of lookup_name: the first module that has the name.
LookupAnywhere(m, n) == lookup_node_global(n)

lookup_name(m, n) == FirstIn(Scope(m, n) \o Fallback, n)

UsedImport(m, n) ==
  IF sym[m][n] = NoPath /\ FirstIn(Scope(m, n), n) # NoPath THEN {<<m, n>>} ELSE {}

------------------------------------------------------------------------------
Init ==
  /\ world \in Worlds
  /\ phase = "cycles"
  /\ cyclic = {} /\ done = {}
  /\ cur = 0 /\ comp = 1 /\ at = <<>>
  /\ node = [p \in {<<>>} |-> Fresh]
  /\ sym = [m \in Module \cup {NoModule} |-> [n \in Name |-> NoPath]]
  /\ used = {}
  /\ index = {}
  /\ moduleOid = [m \in Module |-> NoPath]
  /\ reports = {}
  /\ listed = {} /\ identities = {}
  /\ placed = [i \in DefIdx |-> NoPath]

(* One component after the other: try_resolve_oid_definition. *)

Report(reason, symbol, c) == [reason |-> reason, symbol |-> symbol, comp |-> c]

\* Every definition of a symbol on a cycle is reported and none is resolved.
ReportCycles ==
  /\ phase = "cycles"
  /\ cyclic' = OnCycle
  /\ reports' = {Report("DependencyCycle", s, 0) : s \in OnCycle}
  /\ phase' = "defs"
  /\ UNCHANGED <<world, done, cur, comp, at, node, sym, used, index, moduleOid,
                 listed, identities, placed>>

\* A definition without components comes to nothing, silently.
Begin(i) ==
  /\ phase = "defs" /\ cur = 0
  /\ SymbolOf(i) \in Ready /\ IsKept(i)
  /\ done' = done \cup {SymbolOf(i)}
  /\ cur' = IF Def(i).oid = <<>> THEN 0 ELSE i
  /\ comp' = 1 /\ at' = <<>>
  /\ UNCHANGED <<world, phase, cyclic, node, sym, used, index, moduleOid,
                 reports, listed, identities, placed>>

Resolving == phase = "defs" /\ cur # 0
MoreComponents == Resolving /\ comp <= Len(Def(cur).oid)
C == Def(cur).oid[comp]
M == Def(cur).mod
IsLast == comp = Len(Def(cur).oid)

Advance(p) ==
  /\ at' = p /\ comp' = comp + 1
  /\ UNCHANGED <<world, phase, cyclic, done, cur, moduleOid, reports, identities, placed>>

Number ==
  /\ MoreComponents /\ C.form = "Number"
  /\ node' = get_or_create_child(at, C.value)
  /\ Advance(Append(at, C.value))
  /\ UNCHANGED <<sym, used, index, listed>>

\* A well-known root belongs to SNMPv2-SMI from its first use.
WellKnownRoot ==
  /\ MoreComponents /\ IsRoot(C)
  /\ LET p == <<RootArc[C.name]>>
         r == NodeAt(p)
     IN /\ \/ /\ r.module = NoModule /\ Smi # NoModule
              /\ node' = Put(p, [r EXCEPT !.name = C.name, !.module = Smi,
                                          !.kind = "Node"])
              /\ sym' = Bind(Smi, C.name, p)
              /\ index' = index \cup {<<C.name, p>>}
              /\ listed' = listed \cup {<<Smi, C.name, p>>}
           \/ /\ r.module # NoModule \/ Smi = NoModule
              /\ node' = Put(p, [r EXCEPT !.name = IF @ = NoName THEN C.name
                                                   ELSE @])
              /\ UNCHANGED <<sym, index, listed>>
        /\ Advance(p)
  /\ UNCHANGED used

\* The name leads to its node, whatever the components before it were.
NameFound ==
  /\ MoreComponents /\ IsNamed(C) /\ ~ IsRoot(C)
  /\ lookup_name(M, C.name) # NoPath
  /\ used' = used \cup UsedImport(M, C.name)
  /\ Advance(lookup_name(M, C.name))
  /\ UNCHANGED <<node, sym, index, listed>>

QualifiedFound ==
  /\ MoreComponents /\ IsQualified(C)
  /\ sym[C.module][C.name] # NoPath
  /\ sym' = IF C.form = "QualifiedName" THEN sym
            ELSE Bind(M, C.name, sym[C.module][C.name])
  /\ Advance(sym[C.module][C.name])
  /\ UNCHANGED <<node, used, index, listed>>

\* set_intermediate_node: a component on the way names and may own its node.
Intermediate(r, m, n) ==
  LET prefer == should_prefer_module(world.facts, r.module, m)
  IN [r EXCEPT !.name = IF prefer \/ @ = NoName THEN n ELSE @,
               !.module = IF prefer THEN m ELSE @,
               !.kind = IF @ = "Internal" THEN "Node" ELSE @]

\* A number with a name nothing is known of: the child with that number.
NumberCreated ==
  /\ MoreComponents
  /\ \/ C.form = "NamedNumber" /\ ~ IsRoot(C) /\ lookup_name(M, C.name) = NoPath
     \/ C.form = "QualifiedNamedNumber" /\ sym[C.module][C.name] = NoPath
  /\ LET p == Append(at, C.value)
         r == NodeAt(p)
     IN /\ \/ /\ ~ IsLast
              /\ node' = Put(p, Intermediate(r, M, C.name))
              /\ index' = index \cup {<<C.name, p>>}
           \/ /\ IsLast
              /\ node' = Put(p, [r EXCEPT !.name = IF @ = NoName THEN C.name
                                                   ELSE @])
              /\ UNCHANGED index
        /\ sym' = Bind(M, C.name, p)
        /\ Advance(p)
  /\ UNCHANGED <<used, listed>>

\* Mutant of ComponentNotFound: a name that is not the first component is given
\* up without a report.
ParentNotFound ==
  /\ MoreComponents
  /\ \/ C.form = "Name" /\ ~ IsRoot(C) /\ lookup_name(M, C.name) = NoPath
     \/ C.form = "QualifiedName" /\ sym[C.module][C.name] = NoPath
  /\ reports' = IF comp = 1 /\ C.form = "Name"
                THEN reports \cup {Report("ComponentNotFound", SymbolOf(cur), comp)}
                ELSE reports
  /\ cur' = 0
  /\ UNCHANGED <<world, phase, cyclic, done, comp, at, node, sym, used, index,
                 moduleOid, listed, identities, placed>>

\* A name nothing is known of ends the resolution of the definition.
ComponentNotFound ==
  /\ MoreComponents
  /\ \/ C.form = "Name" /\ ~ IsRoot(C) /\ lookup_name(M, C.name) = NoPath
     \/ C.form = "QualifiedName" /\ sym[C.module][C.name] = NoPath
  /\ reports' = reports \cup {Report("ComponentNotFound", SymbolOf(cur), comp)}
  /\ cur' = 0
  /\ UNCHANGED <<world, phase, cyclic, done, comp, at, node, sym, used, index,
                 moduleOid, listed, identities, placed>>

(* finalize_oid_definition. *)

to_node_kind(kind) == CASE kind = "ObjectType" -> "Scalar"
                        [] kind = "ValueAssignment" -> "Node"
                        [] OTHER -> kind
RegisteredKinds == {"Scalar", "Notification", "Group", "Compliance", "Capability"}
IdentityKinds == {"ModuleIdentity", "ObjectIdentity", "ValueAssignment"}

\* The node of the definition i once its module is preferred.
Taken(r, i) ==
  [r EXCEPT
     !.name = Def(i).name, !.module = Def(i).mod,
     !.kind = to_node_kind(Def(i).kind), !.range = i,
     !.text = IF Def(i).described /\ Def(i).kind \in {"ValueAssignment",
                                                      "ObjectIdentity"}
              THEN i ELSE @,
     !.status = IF Def(i).kind = "ObjectIdentity" THEN i ELSE @]

OidReports(r, i, p) ==
  {Report(IF r.kind \in RegisteredKinds THEN "OidRegistered" ELSE "OidReuse",
          SymbolOf(i), 0) : x \in {r.name} \ {NoName, Def(i).name}}
  \cup
  {Report("LastSubidZero", SymbolOf(i), 0) :
     k \in {k \in {Len(p)} : /\ Def(i).kind \notin IdentityKinds
                             /\ k > 0 /\ p[k] = 0
                             /\ k # 2 \/ p[1] # 0}}

Finalize ==
  /\ Resolving /\ comp > Len(Def(cur).oid)
  /\ LET r == NodeAt(at) IN
       /\ reports' = reports \cup OidReports(r, cur, at)
       /\ \/ /\ should_prefer_module(world.facts, r.module, M)
             /\ node' = Put(at, Taken(r, cur))
             /\ moduleOid' = IF Def(cur).kind = "ModuleIdentity"
                             THEN [moduleOid EXCEPT ![M] = at] ELSE moduleOid
          \/ /\ ~ should_prefer_module(world.facts, r.module, M)
             /\ node' = Put(at, [r EXCEPT !.name = IF @ = NoName
                                                   THEN Def(cur).name ELSE @])
             /\ UNCHANGED moduleOid
  /\ sym' = Bind(M, Def(cur).name, at)
  /\ index' = index \cup {<<Def(cur).name, at>>}
  /\ listed' = IF Def(cur).kind \in IdentityKinds
               THEN listed \cup {<<M, Def(cur).name, at>>} ELSE listed
  /\ identities' = IF Def(cur).kind \in IdentityKinds
                   THEN identities \cup {cur} ELSE identities
  /\ placed' = [placed EXCEPT ![cur] = at]
  /\ cur' = 0
  /\ UNCHANGED <<world, phase, cyclic, done, comp, at, used>>

(* resolve_trap_type_definitions; cur is the trap. *)

BeginTraps ==
  /\ phase = "defs" /\ cur = 0 /\ Waiting = {}
  /\ phase' = "traps" /\ cur' = 1
  /\ UNCHANGED <<world, cyclic, done, comp, at, node, sym, used, index, moduleOid,
                 reports, listed, identities, placed>>

T == world.traps[cur]
EnterpriseNode ==
  LET scoped == FirstIn(Scope(T.mod, T.enterprise), T.enterprise)
  IN IF scoped = NoPath /\ world.constrained
     THEN lookup_node_global(T.enterprise) ELSE scoped

NextTrap ==
  /\ phase = "traps" /\ cur <= Len(world.traps)
  /\ used' = used \cup UsedImport(T.mod, T.enterprise)
  /\ cur' = cur + 1
  /\ UNCHANGED <<world, phase, cyclic, done, comp, at, moduleOid, listed,
                 identities, placed>>

TrapUnresolved ==
  /\ NextTrap
  /\ \/ /\ EnterpriseNode = NoPath
        /\ reports' = reports \cup
             {Report("EnterpriseNotFound", <<T.mod, T.name>>, 0)}
     \/ /\ EnterpriseNode = SnmpTraps /\ T.number = MaxArc
        /\ reports' = reports \cup
             {Report("TrapNumberOverflow", <<T.mod, T.name>>, 0)}
  /\ UNCHANGED <<node, sym, index>>

\* The node of the trap and the one above it that is made with it (RFC 3584).
ZeroNodes == IF EnterpriseNode = SnmpTraps THEN {} ELSE {Append(EnterpriseNode, 0)}
TrapPath == IF EnterpriseNode = SnmpTraps
            THEN Append(EnterpriseNode, T.number + 1)
            ELSE Append(Append(EnterpriseNode, 0), T.number)

TrapNode(r) ==
  IF should_prefer_module(world.facts, r.module, T.mod)
  THEN [r EXCEPT !.name = T.name, !.module = T.mod, !.kind = "Notification"]
  ELSE [r EXCEPT !.name = IF @ = NoName THEN T.name ELSE @]

TrapPlaced ==
  /\ NextTrap
  /\ EnterpriseNode # NoPath
  /\ EnterpriseNode # SnmpTraps \/ T.number # MaxArc
  /\ node' = [q \in DOMAIN node \cup ZeroNodes \cup {TrapPath} |->
                IF q = TrapPath THEN TrapNode(NodeAt(q)) ELSE NodeAt(q)]
  /\ sym' = Bind(T.mod, T.name, TrapPath)
  /\ index' = index \cup {<<T.name, TrapPath>>}
  /\ UNCHANGED reports

End ==
  /\ phase = "traps" /\ cur > Len(world.traps)
  /\ phase' = "done"
  /\ UNCHANGED <<world, cyclic, done, cur, comp, at, node, sym, used, index,
                 moduleOid, reports, listed, identities, placed>>

Next == \/ ReportCycles
        \/ \E i \in DefIdx : Begin(i)
        \/ Number \/ WellKnownRoot \/ NameFound \/ QualifiedFound
        \/ NumberCreated \/ ComponentNotFound \/ Finalize
        \/ BeginTraps \/ TrapUnresolved \/ TrapPlaced \/ End

\* The resolver is single-threaded and keeps taking the step it can take.
Spec == Init /\ [][Next]_vars /\ WF_vars(Next)

------------------------------------------------------------------------------
(* Properties. *)

Kinds == {"Internal", "Node", "Scalar"} \cup DefKinds
NodeRecord == [name : Name \cup {NoName}, module : Module \cup {NoModule},
               kind : Kinds, range : 0 .. Len(world.defs),
               text : 0 .. Len(world.defs), status : 0 .. Len(world.defs)]

\* Every node but the root has its parent.
TreeOK ==
  /\ DOMAIN node \subseteq Path /\ <<>> \in DOMAIN node
  /\ node \in [DOMAIN node -> NodeRecord]
  /\ \A p \in DOMAIN node \ {<<>>} : \E q \in DOMAIN node, a \in Arc : p = Append(q, a)

\* The tables lead to nodes of the tree.
TablesOK ==
  /\ sym \in [Module \cup {NoModule} -> [Name -> DOMAIN node \cup {NoPath}]]
  /\ \A n \in Name : sym[NoModule][n] = NoPath
  /\ index \subseteq Name \X DOMAIN node
  /\ listed \subseteq Module \X Name \X DOMAIN node
  /\ moduleOid \in [Module -> DOMAIN node \cup {NoPath}]
  /\ placed \in [DefIdx -> DOMAIN node \cup {NoPath}]
  /\ at \in DOMAIN node

\* The tree is a tree, and no lookup leads out of it.
TypeOK ==
  /\ world \in Worlds
  /\ phase \in {"cycles", "defs", "traps", "done"}
  /\ cyclic \subseteq Symbols /\ done \subseteq Symbols
  /\ cur \in Nat /\ comp \in Nat \ {0}
  /\ TreeOK /\ TablesOK
  /\ used \subseteq Module \X Name
  /\ identities \subseteq DefIdx

\* Ownership does not depend on the order of resolution: of the modules with a
\* definition at a node, the owner is the preferred one, or one preferred to all.
OwnerPreferred ==
  \A i \in DefIdx : placed[i] # NoPath =>
    LET owner == node[placed[i]].module IN
      owner # NoModule /\ ~ Overrules(world.facts, Def(i).mod, owner)

\* Every definition a named component refers to ends where the component led:
\* the numeric OID of a definition extends that of the definition its parent
\* names, whichever of the two was resolved first, unless a number given to a name or
\* a qualified reference rebinds that name (LocalDefsFirst).
ParentsAgree ==
  \A i \in DefIdx : placed[i] # NoPath =>
    \A k \in 1 .. Len(Def(i).oid) : \A s \in DepSymbols(Def(i).mod, Def(i).oid[k]) :
      s \in Symbols /\ placed[KeptOf(s)] # NoPath =>
        placed[KeptOf(s)] =
          SubSeq(placed[i], 1, Len(placed[i]) - (Len(Def(i).oid) - k))

\* A parent reported as unknown is unknown: no definition that the first component
\* names is ever placed, before the report or after it.
NoFalseOrphan ==
  \A r \in reports : r.reason = "ComponentNotFound" /\ r.comp = 1 =>
    LET d == Def(KeptOf(r.symbol)) IN
      \A s \in DepSymbols(d.mod, d.oid[1]) \cap Symbols : placed[KeptOf(s)] = NoPath

\* At the end every symbol has its node or a report that says why not.
Accounted ==
  phase = "done" =>
    \A s \in Symbols :
      \/ Def(KeptOf(s)).oid = <<>>
      \/ placed[KeptOf(s)] # NoPath
      \/ \E r \in reports : /\ r.symbol = s
                            /\ r.reason \in {"DependencyCycle", "ComponentNotFound"}

\* Cycles and all, the phase ends.
Terminates == <>(phase = "done")

\* "The node's kind, name, range, description, and module all reflect the preferred
\* module" (oids.rs, above the preference check of finalize_oid_definition): a node
\* whose owner defines it carries a definition of its owner.
NodeInSync ==
  cur = 0 => \A i \in DefIdx :
    placed[i] # NoPath /\ node[placed[i]].module = Def(i).mod =>
      \E j \in DefIdx : /\ placed[j] = placed[i] /\ Def(j).mod = Def(i).mod
                        /\ node[placed[i]].range = j

\* "Look up a node by name within a module's scope (local defs, then imports)"
\* (context.rs, lookup_node_for_module): in the module of a definition that has its
\* node, the definition's name leads to that node.
LocalDefsFirst ==
  \A i \in DefIdx : placed[i] # NoPath /\ i = KeptOf(SymbolOf(i)) =>
    lookup_name(Def(i).mod, Def(i).name) = placed[i]

==============================================================================
