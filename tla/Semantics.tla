------------------------------ MODULE Semantics ------------------------------
(***************************************************************************)
(* Phase 5 of the resolver, resolve_semantics of                           *)
(* src/src/mib/resolver/semantics.rs: the nodes of the OID tree are        *)
(* classified, and objects, notifications, groups, compliances and         *)
(* capabilities are created, attached to their nodes and linked to each    *)
(* other by name.  Every pass goes through the definitions in the order of *)
(* the modules; an entity is named by the index of its definition.         *)
(*                                                                         *)
(* A world is what the earlier phases hand over:                           *)
(*   facts       what should_prefer_module looks at, by module             *)
(*   defs        the definitions of the five sorts                         *)
(*   sequences   the fields of the SEQUENCE types of each module           *)
(*   symbols     module_symbol_to_node                                     *)
(*   imports     ctx.module_imports                                        *)
(*   named       Mib.name_to_nodes                                         *)
(*   kind        the kind the OID phase gave each node                     *)
(*   permissive  strictness Permissive: global fallbacks are allowed       *)
(***************************************************************************)
EXTENDS Preference, ObjectStructure, FiniteSets

CONSTANTS
  BareTypes,     \* names that index by a type: is_bare_index_type
  Order,         \* the modules in the order of the load
  Worlds

Sorts == {"Object", "Notification", "Group", "Compliance", "Capability"}
ObjectKinds == {"Table", "Row", "Column", "Scalar"}
Kinds == ObjectKinds \cup {"Node", "Notification", "Group", "Compliance", "Capability"}

\* The OID phase knows every object as a scalar.
PlainKinds == Kinds \ {"Table", "Row", "Column"}

\* What the passes look at of a definition.
Status == {"current", "mandatory", "optional", "deprecated", "obsolete"}
Clause == [module : Module \cup {NoModule}, groups : Seq(Name), objects : Seq(Name)]
Variation == [module : Module, name : Name, shaped : BOOLEAN, requires : Seq(Name),
              access : {"none", "not-implemented", "other"}]
Component == [module : Module \cup {NoModule}, name : Name \cup {NoName}]
Definition == [module : Module, name : Name, sort : Sorts, status : Status,
               table : BOOLEAN, index : Seq(Name), augments : Name \cup {NoName},
               syntax : Name \cup {NoName}, path : Seq(Component),
               notAccessible : BOOLEAN, objects : Seq(Name), members : Seq(Name),
               notifications : BOOLEAN, clauses : Seq(Clause), variations : Seq(Variation)]

World == [facts : [Module -> ModuleFacts], defs : Seq(Definition),
          sequences : [Module -> [Name -> Seq(Name)]],
          symbols : [Module -> [Name -> Node \cup {NoNode}]],
          imports : [Module -> [Name -> Module \cup {NoModule}]],
          named : [Name -> Seq(Node)], kind : [Node -> PlainKinds], permissive : BOOLEAN]

\* The fields of other sorts are empty, and a SEQUENCE OF names the type of its entries.
AsParsed(d) ==
  /\ d.table => d.sort = "Object" /\ d.syntax # NoName
  /\ d.sort # "Object" => d.index = <<>> /\ d.augments = NoName
  /\ d.sort # "Notification" => d.objects = <<>>
  /\ d.sort # "Group" => d.members = <<>>
  /\ d.sort # "Compliance" => d.clauses = <<>>

ASSUME SemanticsAssumption ==
  /\ NoName \notin Name /\ NoNode \notin Node /\ BareTypes \subseteq Name
  /\ Parent \in [Node -> Node \cup {NoNode}]
  /\ Order \in Seq(Module) /\ Module = {Order[k] : k \in DOMAIN Order}
  /\ \A w \in Worlds : w \in World /\ \A d \in DOMAIN w.defs : AsParsed(w.defs[d])

VARIABLES
  world,        \* the input
  pass,         \* the pass that runs
  todo,         \* the definitions it has not come to
  structures,   \* what each module declares: DeclaredObjectStructure
  kind,         \* the kind of each node
  kindModule,   \* the module whose OBJECT-TYPE gave it
  rowNodes,     \* the nodes some OBJECT-TYPE classified as a row
  created,      \* the entities
  attached,     \* for a sort and a node, the entity it carries, or 0
  index,        \* the entries of an object's INDEX
  augments,     \* the row an object augments, or 0
  augmentedBy,  \* the rows that augment it
  refs,         \* the objects of a notification, the members of a group, the
                \* notification variations of a capability
  used,         \* ctx.used_imports
  reports       \* diagnostics and unresolved references

vars == <<world, pass, todo, structures, kind, kindModule, rowNodes, created, attached, index,
          augments, augmentedBy, refs, used, reports>>

Defs == DOMAIN world.defs
Def(d) == world.defs[d]
NodeOf(d) == world.symbols[Def(d).module][Def(d).name]

------------------------------------------------------------------------------
(* Lookups. *)

First(S) == IF S = {} THEN 0 ELSE CHOOSE d \in S : \A e \in S : d <= e

\* Module.objects_by_name: the first definition of a name is found.
ModuleObject(m, n) ==
  First({d \in created : Def(d).sort = "Object" /\ Def(d).module = m /\ Def(d).name = n})

FromImport(m, n) == world.imports[m][n] # NoModule

\* lookup_object_for_module
ScopeObject(m, n) ==
  IF ModuleObject(m, n) # 0 THEN ModuleObject(m, n)
  ELSE IF FromImport(m, n) THEN ModuleObject(world.imports[m][n], n) ELSE 0

\* lookup_node_for_module
ScopeNode(m, n) ==
  IF world.symbols[m][n] # NoNode THEN world.symbols[m][n]
  ELSE IF FromImport(m, n) THEN world.symbols[world.imports[m][n]][n] ELSE NoNode

\* Mib::object_by_name: one that its node carries, else the first one.
object_by_name(n) ==
  LET candidates == {d \in created : Def(d).sort = "Object" /\ Def(d).name = n}
      nodes      == world.named[n]
      carrying   == {k \in DOMAIN nodes : attached["Object"][nodes[k]] \in candidates}
  IN IF carrying # {} THEN attached["Object"][nodes[First(carrying)]] ELSE First(candidates)

lookup_node_global(n) ==
  LET defining == {k \in DOMAIN Order : world.symbols[Order[k]][n] # NoNode}
  IN IF defining = {} THEN NoNode ELSE world.symbols[Order[First(defining)]][n]

lookup_object_by_name(m, n) ==
  IF ScopeObject(m, n) # 0 THEN ScopeObject(m, n)
  ELSE IF world.permissive THEN object_by_name(n) ELSE 0

\* The imports these lookups mark as used.
ObjectUse(m, n) == IF ModuleObject(m, n) = 0 /\ ScopeObject(m, n) # 0 THEN {<<m, n>>} ELSE {}
NodeUse(m, n) == IF world.symbols[m][n] = NoNode /\ ScopeNode(m, n) # NoNode
                 THEN {<<m, n>>} ELSE {}

Report(code, d, n) == [code |-> code, def |-> d, name |-> n]

------------------------------------------------------------------------------
(* The passes. *)

Passes == <<"structures", "kinds", "columns", "objects", "validate", "link", "nesting",
            "Notification", "Group", "Compliance", "Capability", "done">>

\* The definitions a pass goes through.
Work(p) ==
  {d \in Defs :
     CASE p \in {"kinds", "objects", "link"} -> Def(d).sort = "Object"
       [] p = "validate" -> Def(d).sort = "Object" /\ (Def(d).index # <<>> \/ Def(d).augments # NoName)
       [] p = "nesting"  -> Def(d).sort = "Object" /\ Def(d).augments # NoName
       [] OTHER          -> Def(d).sort = p}

StartPass(p) == pass' = p /\ todo' = Work(p)

NextPass ==
  /\ todo = {} /\ pass \notin {"structures", "columns", "done"}
  /\ \E k \in DOMAIN Passes : Passes[k] = pass /\ StartPass(Passes[k + 1])
  /\ UNCHANGED <<world, structures, kind, kindModule, rowNodes, created, attached, index, augments,
                 augmentedBy, refs, used, reports>>

\* The pass comes to its next definition.
Comes(p, d) == pass = p /\ todo # {} /\ d = First(todo) /\ todo' = todo \ {d} /\ UNCHANGED pass

Indexed(d) == Def(d).index # <<>> \/ Def(d).augments # NoName

\* declared_local_parent: the last component of an OID that names an object of its own
\* module; a component that is a number alone has no name.
declared_local_parent(d) ==
  LET objects == {Def(e).name : e \in {o \in Defs : Def(o).module = Def(d).module
                                                   /\ Def(o).sort = "Object"}}
      local(k) == /\ Def(d).path[k].module \in {NoModule, Def(d).module}
                  /\ Def(d).path[k].name \in objects
      found == {k \in DOMAIN Def(d).path : local(k)}
  IN IF found = {} THEN NoName ELSE Def(d).path[CHOOSE k \in found : \A j \in found : j <= k].name

ShapeOfDef(d) == [name |-> Def(d).name, table |-> Def(d).table, indexed |-> Indexed(d),
                  syntax |-> Def(d).syntax, under |-> declared_local_parent(d), node |-> NodeOf(d)]
Shapes(m) ==
  LET own == {d \in Defs : Def(d).module = m /\ Def(d).sort = "Object"}
      ds  == Filtered([d \in Defs |-> d], own)
  IN [k \in DOMAIN ds |-> ShapeOfDef(ds[k])]

\* collect_declared_object_structures; an object that is created carries what its module's
\* structure says of its name.
CollectStructures ==
  /\ pass = "structures"
  /\ structures' = [m \in Module |->
                      collect_module_object_structure(Shapes(m), world.sequences[m])]
  /\ StartPass("kinds")
  /\ UNCHANGED <<world, kind, kindModule, rowNodes, created, attached, index, augments,
                 augmentedBy, refs, used, reports>>

ObjectKind(d) == IF Def(d).table THEN "Table" ELSE IF Indexed(d) THEN "Row" ELSE "Scalar"

\* Mutant: the last module to define a node classifies it.
InferLast(d) ==
  /\ Comes("kinds", d)
  /\ IF NodeOf(d) = NoNode THEN UNCHANGED <<kind, kindModule, rowNodes>>
     ELSE /\ kind' = [kind EXCEPT ![NodeOf(d)] = ObjectKind(d)]
          /\ kindModule' = [kindModule EXCEPT ![NodeOf(d)] = Def(d).module]
          /\ rowNodes' = IF ObjectKind(d) = "Row" THEN rowNodes \cup {NodeOf(d)} ELSE rowNodes
  /\ UNCHANGED <<world, structures, created, attached, index, augments, augmentedBy, refs, used, reports>>

\* infer_node_kinds, first loop: a preferred module classifies a node anew, but a row
\* stays listed.
InferKind(d) ==
  /\ Comes("kinds", d)
  /\ LET n == NodeOf(d)
     IN IF n = NoNode THEN UNCHANGED <<kind, kindModule, rowNodes>>
        ELSE IF ~ should_prefer_module(world.facts, kindModule[n], Def(d).module)
        THEN UNCHANGED <<kind, kindModule, rowNodes>>
        ELSE /\ kind' = [kind EXCEPT ![n] = ObjectKind(d)]
             /\ kindModule' = [kindModule EXCEPT ![n] = Def(d).module]
             /\ rowNodes' = IF ObjectKind(d) = "Row" THEN rowNodes \cup {n} ELSE rowNodes
  /\ UNCHANGED <<world, structures, created, attached, index, augments, augmentedBy, refs, used, reports>>

\* infer_node_kinds, second loop.
ReclassifyColumns ==
  /\ pass = "columns"
  /\ kind' = [n \in Node |-> IF kind[n] = "Scalar" /\ Parent[n] \in rowNodes
                             THEN "Column" ELSE kind[n]]
  /\ StartPass("objects")
  /\ UNCHANGED <<world, structures, kindModule, rowNodes, created, attached, index, augments,
                 augmentedBy, refs, used, reports>>

\* A node carries the entity of the preferred module, sort by sort.
Attach(d, n) ==
  LET s == Def(d).sort
      holder == attached[s][n]
  IN attached' =
       IF holder = 0 \/ should_prefer_module(world.facts, Def(holder).module, Def(d).module)
       THEN [attached EXCEPT ![s][n] = d] ELSE attached

\* create_resolved_objects: also an object without a node is created.
CreateObject(d) ==
  /\ Comes("objects", d)
  /\ created' = created \cup {d}
  /\ IF NodeOf(d) = NoNode THEN UNCHANGED attached ELSE Attach(d, NodeOf(d))
  /\ UNCHANGED <<world, structures, kind, kindModule, rowNodes, index, augments, augmentedBy, refs,
                 used, reports>>

------------------------------------------------------------------------------
(* INDEX and AUGMENTS. *)

\* What is said of a name that stands for no object: it names a node, or nothing.
Complaint(d, n, notObject, notFound) ==
  IF lookup_object_by_name(Def(d).module, n) # 0 THEN {}
  ELSE {Report(IF ScopeNode(Def(d).module, n) # NoNode THEN notObject ELSE notFound, d, n)}

Uses(m, names) == UNION {ObjectUse(m, n) : n \in names}

IndexComplaints(d) ==
  UNION {Complaint(d, n, "IndexNotObject", "IndexUnresolved") :
           n \in NamesOf(Def(d).index) \ BareTypes}
AugmentsComplaints(d) ==
  IF Def(d).augments = NoName THEN {}
  ELSE Complaint(d, Def(d).augments, "AugmentsNotObject", "AugmentsTargetNotFound")

\* Mutant: only an object with a node is looked at.
ValidatePlaced(d) ==
  /\ Comes("validate", d)
  /\ reports' = reports \cup (IF NodeOf(d) = NoNode THEN {}
                              ELSE IndexComplaints(d) \cup AugmentsComplaints(d))
  /\ used' = used \cup Uses(Def(d).module, (NamesOf(Def(d).index) \ BareTypes)
                                            \cup ({Def(d).augments} \ {NoName}))
  /\ UNCHANGED <<world, structures, kind, kindModule, rowNodes, created, attached, index, augments,
                 augmentedBy, refs>>

\* validate_table_semantics
ValidateTable(d) ==
  /\ Comes("validate", d)
  /\ reports' = reports \cup IndexComplaints(d) \cup AugmentsComplaints(d)
  /\ used' = used \cup Uses(Def(d).module, (NamesOf(Def(d).index) \ BareTypes)
                                            \cup ({Def(d).augments} \ {NoName}))
  /\ UNCHANGED <<world, structures, kind, kindModule, rowNodes, created, attached, index, augments,
                 augmentedBy, refs>>

\* resolve_index_entry
Entry(m, n) == [name |-> n,
                object |-> IF n \in BareTypes THEN 0 ELSE lookup_object_by_name(m, n)]

\* Mutant: the augmented row does not learn of it.
LinkOneWay(d) ==
  /\ Comes("link", d)
  /\ LET m == Def(d).module
         o == ScopeObject(m, Def(d).name)
     IN /\ index' = IF Def(d).index = <<>> THEN index
                    ELSE [index EXCEPT ![o] = [k \in DOMAIN Def(d).index |-> Entry(m, Def(d).index[k])]]
        /\ augments' = IF Def(d).augments = NoName THEN augments
                       ELSE [augments EXCEPT ![o] = lookup_object_by_name(m, Def(d).augments)]
  /\ UNCHANGED <<world, structures, kind, kindModule, rowNodes, created, attached, augmentedBy, refs, used, reports>>

\* link_object_indexes: the clauses of a definition go to the object its name finds.
LinkIndexes(d) ==
  /\ Comes("link", d)
  /\ LET m == Def(d).module
         o == ScopeObject(m, Def(d).name)
         entries == [k \in DOMAIN Def(d).index |-> Entry(m, Def(d).index[k])]
         target  == IF Def(d).augments = NoName THEN 0
                    ELSE lookup_object_by_name(m, Def(d).augments)
     IN /\ index' = IF Def(d).index = <<>> THEN index ELSE [index EXCEPT ![o] = entries]
        /\ IF target = 0 THEN UNCHANGED <<augments, augmentedBy>>
           ELSE /\ augments' = [augments EXCEPT ![o] = target]
                /\ augmentedBy' = [augmentedBy EXCEPT ![target] = Append(@, o)]
        /\ used' = used \cup Uses(m, (NamesOf(Def(d).index) \ BareTypes)
                                      \cup ({Def(d).augments} \ {NoName}))
  /\ UNCHANGED <<world, structures, kind, kindModule, rowNodes, created, attached, refs, reports>>

\* check_augments_nesting
CheckNesting(d) ==
  /\ Comes("nesting", d)
  /\ LET target == augments[ScopeObject(Def(d).module, Def(d).name)]
     IN reports' = IF target # 0 /\ augments[target] # 0
                   THEN reports \cup {Report("AugmentNested", d, Def(d).augments)} ELSE reports
  /\ UNCHANGED <<world, structures, kind, kindModule, rowNodes, created, attached, index, augments,
                 augmentedBy, refs, used>>

------------------------------------------------------------------------------
(* Notifications, groups, compliances and capabilities: created with a node. *)

Skip(d) == /\ NodeOf(d) = NoNode
           /\ UNCHANGED <<created, attached, refs, used, reports>>

Create(d) == NodeOf(d) # NoNode /\ created' = created \cup {d} /\ Attach(d, NodeOf(d))

\* lookup_notification_object: an object in scope, then any node of the name, and only
\* then the node in scope.
NotificationNode(m, n) ==
  IF world.permissive /\ lookup_node_global(n) # NoNode THEN lookup_node_global(n)
  ELSE ScopeNode(m, n)
NotificationObject(m, n) ==
  IF ScopeObject(m, n) # 0 THEN ScopeObject(m, n)
  ELSE IF NotificationNode(m, n) = NoNode THEN 0 ELSE attached["Object"][NotificationNode(m, n)]
NotificationUse(m, n) ==
  IF ScopeObject(m, n) # 0 THEN ObjectUse(m, n)
  ELSE IF world.permissive /\ lookup_node_global(n) # NoNode THEN {} ELSE NodeUse(m, n)

NotificationReports(d, n) ==
  LET o == NotificationObject(Def(d).module, n)
  IN IF o # 0
     THEN IF Def(o).notAccessible THEN {Report("NotifObjectAccess", d, n)} ELSE {}
     ELSE {Report(IF NotificationNode(Def(d).module, n) # NoNode
                  THEN "NotifObjectNotObject" ELSE "NotifObjectUnresolved", d, n)}

CreateNotification(d) ==
  /\ Comes("Notification", d)
  /\ LET m     == Def(d).module
         names == Def(d).objects
     IN \/ Skip(d)
        \/ /\ Create(d)
           /\ refs' = [refs EXCEPT ![d] = Filtered([k \in DOMAIN names |->
                                            NotificationObject(m, names[k])], Defs)]
           /\ used' = used \cup UNION {NotificationUse(m, n) : n \in NamesOf(names)}
           /\ reports' = reports \cup UNION {NotificationReports(d, n) : n \in NamesOf(names)}
  /\ UNCHANGED <<world, structures, kind, kindModule, rowNodes, index, augments, augmentedBy>>

\* lookup_member_node
MemberNode(m, n) == IF ScopeNode(m, n) # NoNode THEN ScopeNode(m, n)
                    ELSE IF world.permissive THEN lookup_node_global(n) ELSE NoNode

\* What is said of a group's member, by the kind of its node.
MemberReports(d, n) ==
  LET x == MemberNode(Def(d).module, n)
      o == attached["Object"][x]
  IN IF x = NoNode THEN {Report("GroupMemberUnresolved", d, n)}
     ELSE IF Def(d).notifications
     THEN IF kind[x] \in ObjectKinds THEN {Report("GroupNotificationsObject", d, n)} ELSE {}
     ELSE (IF kind[x] = "Notification" THEN {Report("GroupObjectsNotification", d, n)} ELSE {})
          \cup (IF o # 0 THEN IF Def(o).notAccessible THEN {Report("GroupNotAccessible", d, n)}
                              ELSE {}
                ELSE {})

status_ord(s) == CASE s = "deprecated" -> 1 [] s = "obsolete" -> 2 [] OTHER -> 0

\* member_node_status, of the object a node carries rather than of its notification.
MemberStatus(x) ==
  IF attached["Object"][x] # 0 THEN {Def(attached["Object"][x]).status}
  ELSE IF attached["Notification"][x] # 0 THEN {Def(attached["Notification"][x]).status} ELSE {}

\* check_group_member_status: a member is not further on its way out than its group;
\* the words of SMIv1 are not compared.
StatusReports(d, n) ==
  LET x == MemberNode(Def(d).module, n)
      compared(s) == s \notin {"mandatory", "optional"}
  IN IF x # NoNode /\ \E s \in MemberStatus(x) :
                         /\ compared(s) /\ compared(Def(d).status)
                         /\ status_ord(s) > status_ord(Def(d).status)
     THEN {Report("GroupObjectStatus", d, n)} ELSE {}

\* A group has objects and notifications.
Mixed(m, names) ==
  LET nodes == {MemberNode(m, n) : n \in names} \ {NoNode}
  IN /\ \E x \in nodes : kind[x] \in ObjectKinds
     /\ \E x \in nodes : kind[x] = "Notification"

CreateGroup(d) ==
  /\ Comes("Group", d)
  /\ LET m     == Def(d).module
         names == Def(d).members
     IN \/ Skip(d)
        \/ /\ Create(d)
           /\ refs' = [refs EXCEPT ![d] = Filtered([k \in DOMAIN names |->
                                            MemberNode(m, names[k])], Node)]
           /\ used' = used \cup UNION {NodeUse(m, n) : n \in NamesOf(names)}
           /\ reports' = reports \cup (UNION {MemberReports(d, n) \cup StatusReports(d, n) :
                                                  n \in NamesOf(names)})
                           \cup (IF Mixed(m, NamesOf(names))
                                 THEN {Report("GroupMemberMixed", d, Def(d).name)} ELSE {})
  /\ UNCHANGED <<world, structures, kind, kindModule, rowNodes, index, augments, augmentedBy>>

\* A clause about no module by name is about the module of the compliance; only the
\* groups and objects of such clauses are looked up.
Own(d) == {c \in NamesOf(Def(d).clauses) : c.module \in {NoModule, Def(d).module}}
ClauseUses(m, c) ==
  (UNION {NodeUse(m, n) : n \in NamesOf(c.groups)}) \cup Uses(m, NamesOf(c.objects))

\* create_resolved_compliances; what it requires of its own module counts as used,
\* whether or not the compliance has a node.
CreateCompliance(d) ==
  /\ Comes("Compliance", d)
  /\ used' = used \cup UNION {ClauseUses(Def(d).module, c) : c \in Own(d)}
  /\ IF NodeOf(d) = NoNode THEN UNCHANGED <<created, attached>> ELSE Create(d)
  /\ UNCHANGED <<world, structures, kind, kindModule, rowNodes, index, augments, augmentedBy, refs, reports>>

\* is_notification_variation: by the module it supports, by scope, by any module, and
\* else by what the variation says.
VariationNode(m, v) ==
  IF world.symbols[v.module][v.name] # NoNode THEN world.symbols[v.module][v.name]
  ELSE MemberNode(m, v.name)
IsNotification(m, v) ==
  IF VariationNode(m, v) # NoNode THEN kind[VariationNode(m, v)] = "Notification"
  ELSE ~ v.shaped

\* What a variation of an object requires is looked up like the variation itself.
RequiredUses(m, v) ==
  UNION {NodeUse(m, n) : n \in {r \in NamesOf(v.requires) : world.symbols[v.module][r] = NoNode}}

CreateCapability(d) ==
  /\ Comes("Capability", d)
  /\ LET m == Def(d).module
         notified(v) == IsNotification(m, v)
         variations  == NamesOf(Def(d).variations)
         accessible  == {v \in variations : notified(v) /\ v.access = "other"}
     IN \/ Skip(d)
        \/ /\ Create(d)
           /\ refs' = [refs EXCEPT ![d] = SelectSeq(Def(d).variations, notified)]
           /\ used' = used \cup UNION {RequiredUses(m, v) : v \in {w \in variations : ~ notified(w)}}
           /\ reports' = reports \cup {Report("VariationAccessNotifOnly", d, v.name) :
                                          v \in accessible}
  /\ UNCHANGED <<world, structures, kind, kindModule, rowNodes, index, augments, augmentedBy>>

------------------------------------------------------------------------------

Init ==
  /\ world \in Worlds
  /\ pass = "structures" /\ todo = {} /\ structures = [m \in Module |-> Unlinked(<<>>)]
  /\ kind = world.kind /\ kindModule = [n \in Node |-> NoModule] /\ rowNodes = {}
  /\ created = {} /\ attached = [s \in Sorts |-> [n \in Node |-> 0]]
  /\ index = [d \in Defs |-> <<>>] /\ augments = [d \in Defs |-> 0]
  /\ augmentedBy = [d \in Defs |-> <<>>] /\ refs = [d \in Defs |-> <<>>]
  /\ used = {} /\ reports = {}

Next ==
  \/ CollectStructures \/ NextPass \/ ReclassifyColumns
  \/ \E d \in Defs :
       \/ InferKind(d) \/ CreateObject(d)
       \/ ValidateTable(d) \/ LinkIndexes(d) \/ CheckNesting(d)
       \/ CreateNotification(d) \/ CreateGroup(d) \/ CreateCompliance(d) \/ CreateCapability(d)

Spec == Init /\ [][Next]_vars

------------------------------------------------------------------------------

Rank(p) == CHOOSE k \in DOMAIN Passes : Passes[k] = p
After(p) == Rank(pass) > Rank(p)

\* No other definition of its module has the name of d.
AloneInName(d) ==
  \A e \in Defs : Def(e).sort = Def(d).sort /\ Def(e).module = Def(d).module
                    /\ Def(e).name = Def(d).name => e = d

\* The kind of a node is that of the object it carries, though two passes decide about
\* them: a node keeps no classification from a module whose object was overruled.  Below
\* a row a scalar is a column; this is exact unless a row was overruled, because a node
\* stays listed as a row (semantics.rs:92).
KindOfOwner ==
  After("objects") =>
    \A n \in Node : attached["Object"][n] # 0 =>
      LET own == ObjectKind(attached["Object"][n])
      IN /\ own # "Scalar" => kind[n] = own
         /\ own = "Scalar" => kind[n] \in {"Scalar", "Column"}
         /\ own = "Scalar" /\ (\A r \in rowNodes : kind[r] = "Row") =>
              (kind[n] = "Column" <=> Parent[n] # NoNode /\ kind[Parent[n]] = "Row")

\* A row is listed once by the row it augments, and by no other; a name that a module
\* defines twice is left out, since its clauses all go to the first definition and each
\* adds an entry (semantics.rs:1090).
AugmentsInverse ==
  \A o \in created, t \in created : Def(o).sort = "Object" /\ AloneInName(o) =>
    Cardinality({k \in DOMAIN augmentedBy[t] : augmentedBy[t][k] = o})
      = IF augments[o] = t THEN 1 ELSE 0

\* What INDEX and AUGMENTS could not be linked to was reported, and nothing else was:
\* the reports come from a pass of their own (semantics.rs:961), for objects with and
\* without a node.
UnlinkedIsReported ==
  After("link") =>
    \A d \in created : Def(d).sort = "Object" /\ AloneInName(d) =>
      LET reported(codes) == {r.name : r \in {q \in reports : q.def = d /\ q.code \in codes}}
      IN /\ {e.name : e \in {f \in NamesOf(index[d]) : f.object = 0}} \ BareTypes
             = reported({"IndexNotObject", "IndexUnresolved"})
         /\ (augments[d] = 0 /\ Def(d).augments # NoName)
             <=> reported({"AugmentsNotObject", "AugmentsTargetNotFound"}) # {}

\* What a structure marks no error on is whole.  A table has one row, no other table's,
\* and nothing else below it that could be one; the fields of that type and what is declared
\* below the row are columns, of this row and no other.
DeclaredWhole ==
  pass # "structures" =>
    \A m \in Module :
      LET s       == structures[m]
          objects == Shapes(m)
          unmarked(k) == {n \in Declared(objects) \ s.errors : s.kind[n] = k}
      IN /\ \A t, r \in Name : s.rowOf[t] = r <=> s.tableOf[r] = t
         /\ \A r, c \in Name : s.rowOfColumn[c] = r <=> c \in NamesOf(s.columnsOf[r])
         /\ \A c \in Name : s.rowOfColumn[c] # NoName =>
              s.kind[c] = "Column" /\ s.kind[s.rowOfColumn[c]] = "Row"
         /\ \A t \in unmarked("Table") :
              LET r == s.rowOf[t]
              IN /\ r # NoName /\ s.kind[r] = "Row"
                 /\ \A q \in Declared(objects) \ {r} :
                      ShapeOf(objects, q).under = t
                        => ShapeOf(objects, q).syntax # ShapeOf(objects, t).syntax
                 /\ r \notin s.errors =>
                      NamesOf(world.sequences[m][ShapeOf(objects, t).syntax])
                        \subseteq NamesOf(s.columnsOf[r])
         /\ \A r \in unmarked("Row"), n \in Declared(objects) :
              ShapeOf(objects, n).under = r => n \in NamesOf(s.columnsOf[r])

==============================================================================
