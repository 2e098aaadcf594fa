---------------------------- MODULE ObjectChecks ----------------------------
(***************************************************************************)
(* The checks of src/src/mib/resolver/checks.rs about single definitions   *)
(* and their place in the OID tree, and about the groups, compliances and  *)
(* agent capabilities that list them.  Each is the set of the reports that *)
(* the function of its name emits.                                         *)
(***************************************************************************)
EXTENDS ResolvedMib

SimpleParents == {"Node", "Internal", "Unknown", "ModuleIdentity", "ObjectIdentity"}
Counters == {"Counter32", "Counter64"}

\* The kind and the type are those of the node, which another module may own.
check_access_and_status ==
  LET placed(S)    == {d \in S : HasNode(d)}
      v1           == placed(UserIn("ObjectType", "SMIv1"))
      v2           == placed(UserIn("ObjectType", "SMIv2"))
      writeOnly(S) == {d \in S : Def(d).access = "write-only"}
      exposed(k)   == {d \in placed(User("ObjectType")) :
                         Kind(d) = k /\ Def(d).access # "not-accessible"}
  IN UNION {
       Report("MaxAccessInSMIv1", {d \in v1 : Def(d).keyword = "MAX-ACCESS"}),
       Report("AccessWriteOnlySMIv1", writeOnly(v1)),
       Report("AccessInSMIv2", {d \in v2 : Def(d).keyword = "ACCESS"}),
       Report("AccessWriteOnlySMIv2", writeOnly(v2)),
       Report("AccessTableIllegal", exposed("Table")),
       Report("AccessRowIllegal", exposed("Row")),
       Report("AccessCounterIllegal",
              {d \in placed(User("ObjectType")) :
                 /\ NodeBase(d) \in Counters
                 /\ Def(d).access \notin {"read-only", "accessible-for-notify"}})}

\* A node below the root arcs; the root itself is no parent to complain of.
HasParent(d) == HasNode(d) /\ Len(NodeOf(d)) > 1
Illplaced(d) == HasParent(d) /\ ParentKind(NodeOf(d)) \notin SimpleParents

ParentCode(sort) ==
  CASE sort = "Notification" -> "ParentNotification"
    [] sort \in {"ObjectIdentity", "ModuleIdentity", "ValueAssignment"} -> "ParentNode"
    [] sort \in {"ObjectGroup", "NotificationGroup"} -> "ParentGroup"
    [] sort = "ModuleCompliance" -> "ParentCompliance"
    [] sort = "AgentCapabilities" -> "ParentCapabilities"

check_node_parent_kinds ==
  LET objects == {d \in User("ObjectType") : HasParent(d)}
      of(k)   == {d \in objects : Kind(d) = k}
      under(k, S) == {d \in S : ParentKind(NodeOf(d)) = k}
      others  == {"Notification", "ObjectIdentity", "ModuleIdentity", "ValueAssignment",
                  "ObjectGroup", "NotificationGroup", "ModuleCompliance", "AgentCapabilities"}
  IN UNION {
       Report("ParentTable", {d \in of("Table") : Illplaced(d)}),
       Report("ParentRow", of("Row") \ under("Table", of("Row"))),
       Report("RowSubidentifierOne", {d \in under("Table", of("Row")) : Last(NodeOf(d)) # 1}),
       Report("ParentColumn", of("Column") \ under("Row", of("Column"))),
       Report("ParentScalar", {d \in of("Scalar") : Illplaced(d)}),
       UNION {Report(ParentCode(s), {d \in User(s) : Illplaced(d)}) : s \in others}}

check_table_row_naming ==
  LET of(k) == {d \in User("ObjectType") : HasNode(d) /\ Kind(d) = k}
      ends(d, e) == Spelled(Def(d).name).ending = e
      differs(d) ==
        LET parent == Front(NodeOf(d))
            table  == WithoutEnding(Tree(parent).name, "Table")
            row    == WithoutEnding(Def(d).name, "Entry")
        IN Tree(parent).kind = "Table" /\ "" \notin {table, row} /\ table # row
  IN UNION {
       Report("TableNameTable", {d \in of("Table") : ~ ends(d, "Table")}),
       Report("RowNameEntry", {d \in of("Row") : ~ ends(d, "Entry")}),
       Report("RowNameTableName", {d \in of("Row") : NodeOf(d) # Root /\ differs(d)})}

check_description_missing ==
  Report("DescriptionMissing", {d \in UserIn("ObjectType", "SMIv2") : ~ Def(d).described})

check_integer_misuse ==
  Report("IntegerInSMIv2", {d \in SMIv2(Syntactic) :
                              /\ Def(d).syntax.form = "TypeRef"
                              /\ Def(d).syntax.name = "INTEGER"})

check_trap_in_smiv2 == Report("TrapInSMIv2", {d \in UserIn("Notification", "SMIv2") : Def(d).trap})

check_opaque_smiv2 ==
  Report("OpaqueSMIv2", {d \in UserIn("ObjectType", "SMIv2") :
                           HasNode(d) /\ NodeBase(d) = "Opaque"})

Exempt == {<<"SNMPv2-MIB", "coldStart">>, <<"SNMPv2-MIB", "warmStart">>,
           <<"SNMPv2-MIB", "authenticationFailure">>,
           <<"IF-MIB", "linkDown">>, <<"IF-MIB", "linkUp">>}

check_notification_reversibility ==
  LET notifications == {d \in UserIn("Notification", "SMIv2") : ~ Def(d).trap /\ HasNode(d)}
      parentArc(d)  == LET p == Front(NodeOf(d)) IN IF p = Root THEN 0 ELSE Last(p)
  IN UNION {
       Report("NotifIdTooLarge", {d \in notifications :
                                    NodeOf(d) # Root /\ Last(NodeOf(d)) > IntMax}),
       Report("NotifNotReversible", {d \in notifications :
                                       /\ <<ModuleName(d), Def(d).name>> \notin Exempt
                                       /\ NodeOf(d) # Root /\ parentArc(d) # 0})}

\* Unnamed inner nodes, but for the three arcs that ASN.1 gives below the root.
check_node_implicit ==
  {[code |-> "NodeImplicit", module |-> 0, def |-> 0, node |-> n] :
     n \in {k \in Nodes \ {Root} :
              /\ Tree(k).kind = "Internal" /\ Tree(k).name = "" /\ Children(k) # {}
              /\ ~ (Front(k) = Root /\ Last(k) <= 2)}}

\* The first of the names that fold together is not reported, the others are, once.
check_identifier_case_match ==
  LET named(m) == {d \in DOMAIN mib.defs : Def(d).module = m /\ ~ IsSequence(d)}
      folds(d, e) == Spelled(Def(d).name).folded = Spelled(Def(e).name).folded
      before(d) == {e \in named(Def(d).module) : e < d /\ folds(d, e)}
  IN Report("IdentifierCaseMatch",
            {d \in UNION {named(m) : m \in UserModules} :
               /\ before(d) # {}
               /\ \A e \in before(d) : Def(e).name # Def(d).name})

check_status_per_version ==
  LET stated == (UNION {User(s) : s \in {"ObjectType", "ObjectIdentity", "ObjectGroup",
                                        "NotificationGroup", "ModuleCompliance",
                                        "AgentCapabilities"}})
                \cup {d \in User("Notification") : ~ Def(d).trap}
                \cup {d \in User("TypeDef") : Def(d).tc}
      says(l, S) == {d \in stated : Language(d) = l /\ Def(d).status \in S}
  IN UNION {
       Report("StatusInvalidSMIv1", says("SMIv1", {"current"})),
       Report("StatusInvalidSMIv2", says("SMIv2", {"mandatory", "optional"})),
       Report("AccessInvalidSMIv1",
              {d \in UserIn("ObjectType", "SMIv1") :
                 Def(d).access \in {"accessible-for-notify", "read-create"}}),
       Report("ScalarNotCreatable",
              {d \in User("ObjectType") :
                 HasNode(d) /\ Kind(d) = "Scalar" /\ Def(d).access = "read-create"})}

\* Only mgmt is controlled, and only below mib-2 is it free.
check_module_identity_registration ==
  LET mgmt == <<1, 3, 6, 1, 2>>
      misregistered(n) == \/ Len(n) < 2
                          \/ IsPrefixOf(mgmt, n) /\ ~ IsPrefixOf(Append(mgmt, 1), n)
  IN Report("ModuleIdentityReg", {d \in User("ModuleIdentity") :
       /\ ScopeNode(Def(d).module, Def(d).name) # NoNode
       /\ misregistered(ScopeNode(Def(d).module, Def(d).name))})

check_smiv2_identifier_hyphens ==
  Report("IdentifierHyphenSMIv2",
         {d \in DOMAIN mib.defs :
            /\ IsUser(d) /\ Language(d) = "SMIv2" /\ Def(d).registered
            /\ Spelled(Def(d).name).hyphen})

check_hyphen_in_label ==
  Report("HyphenInLabel", {d \in SMIv2(Syntactic) :
           \E n \in Elements(Def(d).syntax.numbers) : Spelled(n.label).hyphen})

check_capabilities_status ==
  Report("StatusInvalidCapabilities",
         {d \in User("AgentCapabilities") : Def(d).status \notin {"current", "obsolete"}})

\* The status of an object's type matters whatever the object's own is.
check_type_status_usage ==
  LET using(status) == {d \in Objects : /\ IsUser(d) /\ Typed(d)
                                        /\ mib.types[Def(d).typ].status = status}
  IN Report("TypeStatusDeprecated", using("deprecated"))
     \cup Report("TypeStatusObsolete", using("obsolete"))

check_ip_address_deprecation ==
  Report("IpAddressInSyntax", {d \in Objects \cap UserIn("ObjectType", "SMIv2") :
                                 Typed(d) /\ Base(Def(d).typ) = "IpAddress"})

------------------------------------------------------------------------------
(* Imports: check_unused_imports, check_obsolete_imports and               *)
(* check_basetype_imports of imports.rs and types.rs.                      *)

MacroSymbols == {"MODULE-IDENTITY", "OBJECT-IDENTITY", "OBJECT-TYPE", "NOTIFICATION-TYPE",
                 "TEXTUAL-CONVENTION", "OBJECT-GROUP", "NOTIFICATION-GROUP",
                 "MODULE-COMPLIANCE", "AGENT-CAPABILITIES", "TRAP-TYPE"}

\* An import that did not resolve has been reported already.
check_unused_imports ==
  ReportModule("ImportUnused", {m \in UserModules :
    \E i \in mib.modules[m].symbols :
      i[2] \in DOMAIN mib.modules[m].imports \ (MacroSymbols \cup mib.modules[m].used)})

Obsolete(i) == \/ i[1] \in {"RFC1155-SMI", "RFC1065-SMI"}
               \/ i \in {<<"RFC1213-MIB", "mib-2">>, <<"RFC1213-MIB", "DisplayString">>}

check_obsolete_imports ==
  ReportModule("ObsoleteImport", {m \in Modules :
    mib.modules[m].language = "SMIv2" /\ \E i \in mib.modules[m].symbols : Obsolete(i)})

SmiBaseTypes == {"Integer32", "Counter32", "Counter64", "Gauge32", "Unsigned32", "TimeTicks",
                 "IpAddress", "Opaque"}

\* Importing such a name from any module is enough.
check_basetype_imports ==
  LET needs(m) == {Def(d).syntax.name : d \in {e \in SMIv2(Syntactic) :
                     Def(e).module = m /\ Def(e).syntax.form \in {"TypeRef", "IntegerEnum"}}}
  IN ReportModule("BasetypeNotImported", {m \in UserModules :
       (needs(m) \cap SmiBaseTypes) \ {i[2] : i \in mib.modules[m].symbols} # {}})

------------------------------------------------------------------------------
(* Groups *)

GroupsOf(m, sort) == {g \in Groups : Def(g).module = m /\ Def(g).sort = sort}
Grouped(m) == UNION {Def(g).members : g \in GroupsOf(m, "ObjectGroup")
                                            \cup GroupsOf(m, "NotificationGroup")}

\* A module that groups any of its objects groups them all, and notifications likewise.
check_group_membership ==
  LET grouping(d, sort) == IsUser(d) /\ GroupsOf(Def(d).module, sort) # {}
      left(d) == NodeOf(d) \notin Grouped(Def(d).module)
  IN Report("GroupMembership",
            {d \in Objects : /\ grouping(d, "ObjectGroup")
                             /\ Kind(d) \in {"Scalar", "Column"}
                             /\ Def(d).access # "not-accessible" /\ left(d)}
            \cup {d \in Notifications : grouping(d, "NotificationGroup") /\ left(d)})

\* The names a group lists, whether or not they were resolved.
check_group_member_locality ==
  Report("ComplianceMemberNotLocal",
         {g \in All("ObjectGroup") \cup All("NotificationGroup") :
            \E n \in Elements(Def(g).names) : SymbolNode(Def(g).module, n) = NoNode})

IncludedNames ==
  (UNION {UNION {Elements(c.mandatory) \cup Elements(c.groups) : c \in Elements(Def(d).modules)} :
           d \in All("ModuleCompliance")})
  \cup UNION {UNION {Elements(s.includes) : s \in Elements(Def(d).supports)} :
                d \in All("AgentCapabilities")}

\* A name counts wherever it is referred to, whichever module was meant.
check_group_unreferenced ==
  Report("GroupUnreferenced", {g \in User("ObjectGroup") \cup User("NotificationGroup") :
                                 Def(g).name \notin IncludedNames})

------------------------------------------------------------------------------
(* Compliances: a clause is about one module, itself if it names none. *)

Repeats(s) == \E i, j \in DOMAIN s : i < j /\ s[i] = s[j]

\* collect_compliance_group_member_names
MemberNames(m, clause) ==
  LET node(g) == IF clause.module = "" THEN ScopeNode(m, g) ELSE NodeIn(clause.module, g)
      listed  == Elements(clause.mandatory) \cup Elements(clause.groups)
      nodes   == {node(g) : g \in listed} \ {NoNode}
      groups  == {Tree(n).group : n \in nodes} \ {0}
  IN {Tree(n).name : n \in UNION {Def(g).members : g \in groups}} \ {""}

Refined(clause) == [k \in DOMAIN clause.objects |-> clause.objects[k].name]

ClauseCodes(m, clause) ==
  LET codes == [ComplianceGroupInvalid |-> Elements(clause.mandatory) \cap Elements(clause.groups) # {},
                OptionalGroupExists |-> Repeats(clause.groups),
                RefinementExists |-> Repeats(Refined(clause)),
                RefinementNotListed |-> ~ Elements(Refined(clause)) \subseteq MemberNames(m, clause)]
  IN {c \in DOMAIN codes : codes[c]}

ByClause(Codes(_, _), compliances) ==
  UNION {{Emitted(c, d) :
            c \in UNION {Codes(d, k) : k \in Elements(Def(d).modules)}} : d \in compliances}

check_compliance_structure ==
  ByClause(LAMBDA d, k : ClauseCodes(Def(d).module, k), All("ModuleCompliance"))

SMIv1Status == {"mandatory", "optional"}
status_ord(s) == CASE s = "deprecated" -> 1 [] s = "obsolete" -> 2 [] OTHER -> 0
Older(s, t) == s \notin SMIv1Status /\ status_ord(s) > status_ord(t)

\* The status of what a node carries: its object before its notification.
MemberStatus(n) ==
  IF Tree(n).object # 0 THEN {Def(Tree(n).object).status}
  ELSE IF Tree(n).notification # 0 THEN {Def(Tree(n).notification).status} ELSE {}
GroupStatus(n) == IF Tree(n).group = 0 THEN {} ELSE {Def(Tree(n).group).status}

\* A compliance does not rest on what is further on its way out than itself.
ClauseStatusCodes(d, clause) ==
  LET node(n) == ConformanceNode(Def(d).module, clause.module, n)
      nodes(S) == {node(n) : n \in S} \ {NoNode}
      older(S) == \E s \in S : Older(s, Def(d).status)
      groups == nodes(Elements(clause.mandatory) \cup Elements(clause.groups))
  IN (IF older(UNION {GroupStatus(n) : n \in groups}) THEN {"ComplianceGroupStatus"} ELSE {})
     \cup (IF older(UNION {MemberStatus(n) : n \in nodes(Elements(Refined(clause)))})
           THEN {"ComplianceObjectStatus"} ELSE {})

check_compliance_status ==
  ByClause(ClauseStatusCodes, {d \in User("ModuleCompliance") : Def(d).status \notin SMIv1Status})

------------------------------------------------------------------------------
(* Capabilities: a list of names in the scope of a SUPPORTS clause. *)

\* The declaring module has an entity of the name, of the kind that is asked for.
Provides(m, n, entities) == \E e \in entities : Def(e).module = m /\ Def(e).name = n

Unresolved(m, supports, names, entities) ==
  \E n \in Elements(names) : ~ Provides(Declaring(m, supports, n), n, entities)

SupportsClauses == UNION {{d} \X Elements(Def(d).supports) : d \in All("AgentCapabilities")}

check_includes_groups ==
  LET bad(Of(_)) == {c[1] : c \in {k \in SupportsClauses : Of(k)}}
  IN Report("IncludesDuplicate", bad(LAMBDA c : Repeats(c[2].includes)))
     \cup Report("IncludesUnresolved",
                 bad(LAMBDA c : Unresolved(Def(c[1]).module, c[2].module, c[2].includes, Groups)))

check_creation_requires ==
  LET bad(Of(_, _)) == {c[1] : c \in {k \in SupportsClauses :
                                        \E v \in Elements(k[2].variations) : Of(k, v.requires)}}
  IN Report("CreationRequiresDuplicate", bad(LAMBDA c, names : Repeats(names)))
     \cup Report("CreationRequiresUnresolved",
                 bad(LAMBDA c, names :
                       Unresolved(Def(c[1]).module, c[2].module, names, Objects)))

==============================================================================
