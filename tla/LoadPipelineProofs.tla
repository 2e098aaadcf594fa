-------------------------- MODULE LoadPipelineProofs --------------------------
(***************************************************************************)
(* Proofs about LoadPipeline, for every request, whatever modules it asks  *)
(* for and whatever they hold.                                             *)
(***************************************************************************)
EXTENDS LoadPipeline, SequenceTheorems, FiniteSetTheorems, WellFoundedInduction, TLAPS

------------------------------------------------------------------------------
(* Severities *)

LEMMA RankIs ==
  ASSUME NEW s \in Severity
  PROVE  Rank(s) \in 1 .. 7 /\ Severities[Rank(s)] = s
<1>1. \E k \in DOMAIN Severities : Severities[k] = s
  BY DEF Severity
<1>2. Rank(s) \in DOMAIN Severities /\ Severities[Rank(s)] = s
  BY <1>1 DEF Rank
<1>3. DOMAIN Severities = 1 .. 7
  BY DEF Severities
<1> QED
  BY <1>2, <1>3

\* Every code that there is has a severity.
LEMMA DefaultSeverityType ==
  ASSUME NEW code \in Codes
  PROVE  DefaultSeverity(code) \in Severity
<1>1. DefaultSeverity(code) \in {"Severe", "Error", "Minor", "Warning", "Style"}
  BY DEF DefaultSeverity, Codes
<1>2. /\ Severities[2] = "Severe" /\ Severities[3] = "Error" /\ Severities[4] = "Minor"
      /\ Severities[5] = "Style" /\ Severities[6] = "Warning"
      /\ DOMAIN Severities = 1 .. 7
  BY DEF Severities
<1> QED
  BY <1>1, <1>2 DEF Severity

LEMMA AtLeastTransitive ==
  ASSUME NEW s \in Severity, NEW t \in Severity, NEW u \in Severity, AtLeast(s, t), AtLeast(t, u)
  PROVE  AtLeast(s, u)
<1>1. Rank(s) \in Int /\ Rank(t) \in Int /\ Rank(u) \in Int
  BY RankIs
<1> QED
  BY <1>1 DEF AtLeast

\* Only "Fatal" is as bad as "Fatal".
LEMMA FatalIsWorst ==
  ASSUME NEW s \in Severity, AtLeast(s, "Fatal")
  PROVE  s = "Fatal"
<1>1. Severities[1] = "Fatal" /\ DOMAIN Severities = 1 .. 7
  BY DEF Severities
<1>2. \A k \in 2 .. 7 : Severities[k] # "Fatal"
  BY DEF Severities
<1>3. "Fatal" \in Severity
  BY <1>1 DEF Severity
<1>4. Rank("Fatal") \in 1 .. 7 /\ Severities[Rank("Fatal")] = "Fatal"
  BY <1>3, RankIs
<1>5. Rank("Fatal") = 1
  BY <1>2, <1>4
<1>6. Rank(s) \in 1 .. 7 /\ Severities[Rank(s)] = s
  BY RankIs
<1>7. Rank(s) = 1
  BY <1>5, <1>6 DEF AtLeast
<1> QED
  BY <1>1, <1>6, <1>7

\* What is reported at some severity is reported at every worse one.
LEMMA ReportedUpwards ==
  ASSUME NEW c, NEW s \in Severity, NEW t \in Severity, c.reporting \in Levels,
         AtLeast(s, t), should_report(c, t)
  PROVE  should_report(c, s)
<1>1. CASE t = "Fatal"
  BY <1>1, FatalIsWorst DEF should_report
<1>2. CASE t # "Fatal"
  <2>1. PICK max \in max_reported_severity(c.reporting) : AtLeast(t, max)
    BY <1>2 DEF should_report
  <2>2. max_reported_severity(c.reporting) \subseteq Severity
    <3>1. {"Info", "Minor", "Error"} \subseteq Severity
      <4>1. /\ Severities[7] = "Info" /\ Severities[3] = "Error" /\ Severities[4] = "Minor"
            /\ DOMAIN Severities = 1 .. 7
        BY DEF Severities
      <4> QED
        BY <4>1 DEF Severity
    <3> QED
      BY <3>1 DEF max_reported_severity, Levels
  <2>3. AtLeast(s, max)
    BY <2>1, <2>2, AtLeastTransitive
  <2> QED
    BY <2>1, <2>3 DEF should_report
<1> QED
  BY <1>1, <1>2

------------------------------------------------------------------------------
(* Every code that is emitted is one of DiagCode. *)

Known(reports) == \A r \in reports : r.code \in Codes

LEMMA ReportKnown ==
  ASSUME NEW code \in Codes, NEW S
  PROVE  Known(Report(code, S))
BY DEF Known, Report, Emitted

LEMMA ReportModuleKnown ==
  ASSUME NEW code \in Codes, NEW S
  PROVE  Known(ReportModule(code, S))
BY DEF Known, ReportModule

LEMMA EmittedKnown ==
  ASSUME NEW code \in Codes, NEW d
  PROVE  Emitted(code, d).code \in Codes
BY DEF Emitted

\* What the checks with codes of their own emit.
LEMMA RangeDiagsKnown ==
  ASSUME NEW syntax, NEW base
  PROVE  collect_range_diags(syntax, base) \subseteq Codes
<1>1. {"SizeIllegal", "RangeIllegal", "CounterRangeIllegal", "TimeticksRangeIllegal",
       "RangeExchanged", "RangeBounds", "RangeAscending", "RangeOverlap"} \subseteq Codes
  BY DEF Codes, ErrorCodes, WarningCodes
<1>2. Misapplied(syntax.constraint, base) \subseteq Codes
  BY <1>1 DEF Misapplied
<1>3. \A ranges, bounds : RangeCodes(ranges, bounds) \subseteq Codes
  BY <1>1 DEF RangeCodes
<1> QED
  BY <1>2, <1>3 DEF collect_range_diags

LEMMA PairingKnown ==
  ASSUME NEW module, NEW types, NEW specifics, NEW codes,
         codes.pairing \in Codes, codes.subtyped \in Codes, codes.specific \in Codes
  PROVE  Known(check_address_type_pairing(module, types, specifics, codes))
BY ReportKnown DEF check_address_type_pairing, Known

LEMMA DefvalCodesKnown ==
  ASSUME NEW d
  PROVE  DefvalCodes(d) \subseteq Codes
<1>1. {"CounterDefvalIllegal", "DefvalBasetype", "DefvalRange", "DefvalEnum", "DefvalBits"}
        \subseteq Codes
  BY DEF Codes, WarningCodes
<1>2. \A v : NumberCodes(v, d) \subseteq Codes
  BY <1>1 DEF NumberCodes
<1> QED
  BY <1>1, <1>2 DEF DefvalCodes

LEMMA EntryCodesKnown ==
  ASSUME NEW language, NEW o
  PROVE  EntryCodes(language, o) \subseteq Codes
<1>1. {"IndexAccessible", "IndexNotAccessible", "IndexCounterIllegal", "IndexIllegalBasetype",
       "IndexNegativeRange", "IndexIntegerNoRange", "IndexElementNoSize", "IndexDefval"}
        \subseteq Codes
  BY DEF Codes, SevereCodes, ErrorCodes, MinorCodes, WarningCodes
<1>2. AccessCodes(language, o) \subseteq Codes
  BY <1>1 DEF AccessCodes
<1>3. \A base : BaseCodes(base) \subseteq Codes
  BY <1>1 DEF BaseCodes
<1>4. IntegerCodes(o) \subseteq Codes
  BY <1>1 DEF IntegerCodes
<1>5. ElementCodes(o) \subseteq Codes
  BY <1>1, <1>3, <1>4 DEF ElementCodes
<1> QED
  BY <1>1, <1>2, <1>5 DEF EntryCodes

LEMMA ClauseCodesKnown ==
  ASSUME NEW m, NEW clause
  PROVE  ClauseCodes(m, clause) \subseteq Codes
<1>1. {"ComplianceGroupInvalid", "OptionalGroupExists", "RefinementExists",
       "RefinementNotListed"} \subseteq Codes
  BY DEF Codes, WarningCodes
<1> QED
  BY <1>1 DEF ClauseCodes

LEMMA ClauseStatusKnown ==
  ASSUME NEW d, NEW clause
  PROVE  ClauseStatusCodes(d, clause) \subseteq Codes
<1>1. {"ComplianceGroupStatus", "ComplianceObjectStatus"} \subseteq Codes
  BY DEF Codes, WarningCodes
<1> QED
  BY <1>1 DEF ClauseStatusCodes

\* The reports of the checks of the imports.
LEMMA ImportReportsKnown == Known(ImportReports)
<1>1. Known(check_unused_imports)
  <2>1. "ImportUnused" \in Codes
    BY DEF Codes, StyleCodes
  <2> QED
    BY <2>1, ReportModuleKnown DEF check_unused_imports
<1>2. Known(check_obsolete_imports)
  <2>1. "ObsoleteImport" \in Codes
    BY DEF Codes, WarningCodes
  <2> QED
    BY <2>1, ReportModuleKnown DEF check_obsolete_imports
<1> QED
  BY <1>1, <1>2 DEF ImportReports, Known

\* The reports of the checks of single definitions.
LEMMA ObjectReportsKnown == Known(ObjectReports)
<1>1. Known(check_access_and_status)
  <2>1. {"MaxAccessInSMIv1", "AccessWriteOnlySMIv1", "AccessInSMIv2",
         "AccessWriteOnlySMIv2", "AccessTableIllegal", "AccessRowIllegal",
         "AccessCounterIllegal"} \subseteq Codes
    BY DEF Codes, ErrorCodes, MinorCodes, StyleCodes
  <2> QED
    BY <2>1, ReportKnown DEF check_access_and_status, Known
<1>2. Known(check_node_parent_kinds)
  <2>1. {"ParentTable", "ParentRow", "RowSubidentifierOne", "ParentColumn", "ParentScalar"}
          \subseteq Codes
    BY DEF Codes, ErrorCodes
  <2>2. \A s \in {"Notification", "ObjectIdentity", "ModuleIdentity", "ValueAssignment",
                 "ObjectGroup", "NotificationGroup", "ModuleCompliance", "AgentCapabilities"} :
          ParentCode(s) \in Codes
    BY DEF ParentCode, Codes, ErrorCodes
  <2> QED
    BY <2>1, <2>2, ReportKnown DEF check_node_parent_kinds, Known
<1>3. Known(check_table_row_naming)
  <2>1. {"TableNameTable", "RowNameEntry", "RowNameTableName"} \subseteq Codes
    BY DEF Codes, StyleCodes
  <2> QED
    BY <2>1, ReportKnown DEF check_table_row_naming, Known
<1>4. Known(check_description_missing)
  <2>1. "DescriptionMissing" \in Codes
    BY DEF Codes, MinorCodes
  <2> QED
    BY <2>1, ReportKnown DEF check_description_missing
<1>5. Known(check_integer_misuse)
  <2>1. "IntegerInSMIv2" \in Codes
    BY DEF Codes, WarningCodes
  <2> QED
    BY <2>1, ReportKnown DEF check_integer_misuse
<1>6. Known(check_trap_in_smiv2)
  <2>1. "TrapInSMIv2" \in Codes
    BY DEF Codes, WarningCodes
  <2> QED
    BY <2>1, ReportKnown DEF check_trap_in_smiv2
<1>7. Known(check_opaque_smiv2)
  <2>1. "OpaqueSMIv2" \in Codes
    BY DEF Codes, WarningCodes
  <2> QED
    BY <2>1, ReportKnown DEF check_opaque_smiv2
<1>8. Known(check_notification_reversibility)
  <2>1. {"NotifIdTooLarge", "NotifNotReversible"} \subseteq Codes
    BY DEF Codes, WarningCodes
  <2> QED
    BY <2>1, ReportKnown DEF check_notification_reversibility, Known
<1>9. Known(check_node_implicit)
  <2>1. "NodeImplicit" \in Codes
    BY DEF Codes, StyleCodes
  <2> DEFINE N == {k \in Nodes \ {Root} :
                    /\ Tree(k).kind = "Internal" /\ Tree(k).name = "" /\ Children(k) # {}
                    /\ ~ (Front(k) = Root /\ Last(k) <= 2)}
  <2>2. check_node_implicit =
          {[code |-> "NodeImplicit", module |-> 0, def |-> 0, node |-> n] : n \in N}
    BY DEF check_node_implicit
  <2> HIDE DEF N
  <2> QED
    BY <2>1, <2>2 DEF Known
<1>10. Known(check_identifier_case_match)
  <2>1. "IdentifierCaseMatch" \in Codes
    BY DEF Codes, StyleCodes
  <2> QED
    BY <2>1, ReportKnown DEF check_identifier_case_match
<1>11. Known(check_status_per_version)
  <2>1. {"StatusInvalidSMIv1", "StatusInvalidSMIv2", "AccessInvalidSMIv1",
         "ScalarNotCreatable"} \subseteq Codes
    BY DEF Codes, ErrorCodes, MinorCodes
  <2> QED
    BY <2>1, ReportKnown DEF check_status_per_version, Known
<1>12. Known(check_module_identity_registration)
  <2>1. "ModuleIdentityReg" \in Codes
    BY DEF Codes, WarningCodes
  <2> QED
    BY <2>1, ReportKnown DEF check_module_identity_registration
<1>13. Known(check_smiv2_identifier_hyphens)
  <2>1. "IdentifierHyphenSMIv2" \in Codes
    BY DEF Codes, WarningCodes
  <2> QED
    BY <2>1, ReportKnown DEF check_smiv2_identifier_hyphens
<1>14. Known(check_hyphen_in_label)
  <2>1. "HyphenInLabel" \in Codes
    BY DEF Codes, StyleCodes
  <2> QED
    BY <2>1, ReportKnown DEF check_hyphen_in_label
<1>15. Known(check_capabilities_status)
  <2>1. "StatusInvalidCapabilities" \in Codes
    BY DEF Codes, ErrorCodes
  <2> QED
    BY <2>1, ReportKnown DEF check_capabilities_status
<1>16. Known(check_type_status_usage)
  <2>1. {"TypeStatusDeprecated", "TypeStatusObsolete"} \subseteq Codes
    BY DEF Codes, WarningCodes
  <2> QED
    BY <2>1, ReportKnown DEF check_type_status_usage, Known
<1>17. Known(check_ip_address_deprecation)
  <2>1. "IpAddressInSyntax" \in Codes
    BY DEF Codes, StyleCodes
  <2> QED
    BY <2>1, ReportKnown DEF check_ip_address_deprecation
<1> QED
  BY <1>1, <1>2, <1>3, <1>4, <1>5, <1>6, <1>7, <1>8, <1>9, <1>10, <1>11, <1>12, <1>13,
     <1>14, <1>15, <1>16, <1>17 DEF ObjectReports, Known

\* The reports of the checks of types.
LEMMA TypeReportsKnown == Known(TypeReports)
<1>1. Known(check_type_unreferenced)
  <2>1. "TypeUnreferenced" \in Codes
    BY DEF Codes, StyleCodes
  <2> QED
    BY <2>1, ReportKnown DEF check_type_unreferenced
<1>2. Known(check_named_number_ordering)
  <2>1. "NamedNumbersAscending" \in Codes
    BY DEF Codes, StyleCodes
  <2> QED
    BY <2>1, ReportKnown DEF check_named_number_ordering
<1>3. Known(check_range_constraints)
  <2>1. "ConstraintEmptyIntersection" \in Codes
    BY DEF Codes, WarningCodes
  <2>2. \A r \in check_range_constraints :
          \/ \E d : \E c \in collect_range_diags(Def(d).syntax, CheckedBase(d)) : r = Emitted(c, d)
          \/ \E S : r \in Report("ConstraintEmptyIntersection", S)
    BY DEF check_range_constraints
  <2>3. \A S : Known(Report("ConstraintEmptyIntersection", S))
    BY <2>1, ReportKnown
  <2> QED
    BY <2>2, <2>3, RangeDiagsKnown, EmittedKnown DEF Known
<1>4. Known(check_type_assignment_smiv2)
  <2>1. "TypeAssignmentSMIv2" \in Codes
    BY DEF Codes, StyleCodes
  <2> QED
    BY <2>1, ReportKnown DEF check_type_assignment_smiv2
<1>5. Known(check_tc_nested)
  <2>1. "TCNested" \in Codes
    BY DEF Codes, StyleCodes
  <2> QED
    BY <2>1, ReportKnown DEF check_tc_nested
<1>6. Known(check_enum_subtyping)
  <2>1. {"SubtypeBitsIllegal", "SubtypeEnumIllegal"} \subseteq Codes
    BY DEF Codes, ErrorCodes
  <2> QED
    BY <2>1, ReportKnown DEF check_enum_subtyping, Known
<1>7. Known(check_format_hints)
  <2>1. {"InvalidFormat", "TypeWithoutFormat"} \subseteq Codes
    BY DEF Codes, ErrorCodes, StyleCodes
  <2> QED
    BY <2>1, ReportKnown DEF check_format_hints, Known
<1>8. Known(check_row_status_defaults)
  <2>1. {"RowStatusAccess", "RowStatusDefault"} \subseteq Codes
    BY DEF Codes, StyleCodes
  <2> QED
    BY <2>1, ReportKnown DEF check_row_status_defaults, Known
<1>9. Known(check_storage_type_defaults)
  <2>1. "StorageTypeDefault" \in Codes
    BY DEF Codes, StyleCodes
  <2> QED
    BY <2>1, ReportKnown DEF check_storage_type_defaults
<1> QED
  BY <1>1, <1>2, <1>3, <1>4, <1>5, <1>6, <1>7, <1>8, <1>9 DEF TypeReports, Known

\* The reports of the checks of tables.
LEMMA TableReportsKnown == Known(TableReports)
<1>1. Known(check_sequence_fields)
  <2>1. {"SequenceNoColumn", "SequenceMissingColumn", "SequenceOrder",
         "SequenceTypeMismatch"} \subseteq Codes
    BY DEF Codes, ErrorCodes, MinorCodes, WarningCodes
  <2> QED
    BY <2>1, ReportKnown DEF check_sequence_fields, Known
<1>2. Known(check_taddress_tdomain)
  <2>1. "TAddressTDomain" \in Codes
    BY DEF Codes, WarningCodes
  <2> QED
    BY <2>1, ReportKnown DEF check_taddress_tdomain, Known
<1>3. Known(check_inet_address_pairing)
  <2>1. {"InetAddressPairing", "InetAddressTypeSubtyped", "InetAddressSpecific"}
          \subseteq Codes
    BY DEF Codes, WarningCodes, StyleCodes
  <2> QED
    BY <2>1, PairingKnown DEF check_inet_address_pairing
<1>4. Known(check_transport_address_pairing)
  <2>1. {"TransportAddressPairing", "TransportAddressTypeSubtyped", "TransportAddressSpecific"}
          \subseteq Codes
    BY DEF Codes, WarningCodes, StyleCodes
  <2> QED
    BY <2>1, PairingKnown DEF check_transport_address_pairing
<1>5. Known(check_defval_constraints)
  BY DefvalCodesKnown, EmittedKnown DEF check_defval_constraints, Known
<1>6. Known(check_index_constraints)
  <2>1. "IndexExceedsTooLarge" \in Codes
    BY DEF Codes, WarningCodes
  <2>2. \A r \in check_index_constraints :
          \/ \E d, l, o : \E c \in EntryCodes(l, o) : r = Emitted(c, d)
          \/ \E S : r \in Report("IndexExceedsTooLarge", S)
    BY DEF check_index_constraints
  <2>3. \A S : Known(Report("IndexExceedsTooLarge", S))
    BY <2>1, ReportKnown
  <2> QED
    BY <2>2, <2>3, EntryCodesKnown, EmittedKnown DEF Known
<1> QED
  BY <1>1, <1>2, <1>3, <1>4, <1>5, <1>6 DEF TableReports, Known

\* The reports of the checks of groups, compliances and capabilities.
LEMMA ConformanceReportsKnown == Known(ConformanceReports)
<1>1. Known(check_group_membership)
  <2>1. "GroupMembership" \in Codes
    BY DEF Codes, MinorCodes
  <2> QED
    BY <2>1, ReportKnown DEF check_group_membership
<1>2. Known(check_group_member_locality)
  <2>1. "ComplianceMemberNotLocal" \in Codes
    BY DEF Codes, WarningCodes
  <2> QED
    BY <2>1, ReportKnown DEF check_group_member_locality
<1>3. Known(check_compliance_structure)
  BY ClauseCodesKnown, EmittedKnown DEF check_compliance_structure, ByClause, Known
<1>4. Known(check_compliance_status)
  BY ClauseStatusKnown, EmittedKnown DEF check_compliance_status, ByClause, Known
<1>5. Known(check_group_unreferenced)
  <2>1. "GroupUnreferenced" \in Codes
    BY DEF Codes, StyleCodes
  <2> QED
    BY <2>1, ReportKnown DEF check_group_unreferenced
<1>6. Known(check_includes_groups)
  <2>1. {"IncludesDuplicate", "IncludesUnresolved"} \subseteq Codes
    BY DEF Codes, WarningCodes
  <2> QED
    BY <2>1, ReportKnown DEF check_includes_groups, Known
<1>7. Known(check_creation_requires)
  <2>1. {"CreationRequiresDuplicate", "CreationRequiresUnresolved"} \subseteq Codes
    BY DEF Codes, WarningCodes
  <2> QED
    BY <2>1, ReportKnown DEF check_creation_requires, Known
<1> QED
  BY <1>1, <1>2, <1>3, <1>4, <1>5, <1>6, <1>7 DEF ConformanceReports, Known

\* What the lowering emits of a definition and of a module.
LEMMA OwnCodesKnown ==
  ASSUME NEW s, NEW language, NEW base
  PROVE  OwnCodes(s, language, base) \subseteq Codes
<1>1. {"MinMaxRange", "UnknownRangeValue", "TaggedTypeNotAllowed", "ChoiceNotAllowed",
       "EnumNameRedefinition", "EnumValueRedefinition", "BitsNameRedefinition",
       "BitsValueRedefinition", "EnumValueOutOfRange", "EnumZero", "BitsNumberNegative",
       "BitsNumberTooLarge", "BitsNumberLarge"} \subseteq Codes
  BY DEF Codes, ErrorCodes, WarningCodes, StyleCodes
<1>2. \A b : BoundCodes(b) \subseteq Codes
  BY <1>1 DEF BoundCodes
<1>3. \A c : ConstraintCodes(c) \subseteq Codes
  BY <1>2 DEF ConstraintCodes
<1>4. \A numbers, n, v : n \in Codes /\ v \in Codes => Redefinitions(numbers, n, v) \subseteq Codes
  BY DEF Redefinitions
<1>5. \A numbers : EnumCodes(numbers, language) \subseteq Codes
  BY <1>1, <1>4 DEF EnumCodes
<1>6. \A p : PositionCodes(p) \subseteq Codes
  BY <1>1 DEF PositionCodes
<1>7. \A numbers : BitsCodes(numbers) \subseteq Codes
  BY <1>1, <1>4, <1>6 DEF BitsCodes
<1> QED
  BY <1>1, <1>3, <1>5, <1>7 DEF OwnCodes

LEMMA DefinitionCodesKnown ==
  ASSUME NEW d, NEW language, NEW base
  PROVE  DefinitionCodes(d, language, base) \subseteq Codes
<1>1. {"EmptyRevisionDescription", "UnknownTypeSyntax", "MacroNotAllowed"} \subseteq Codes
  BY DEF Codes, WarningCodes, StyleCodes
<1>2. \A clause \in Emptiable(d.sort) : EmptyCode[clause] \in Codes
  <2>1. Emptiable(d.sort) \subseteq {"Description", "Reference", "Units", "Organization",
                                     "Contact", "Format"}
    BY DEF Emptiable
  <2>2. \A clause \in {"Description", "Reference", "Units", "Organization", "Contact",
                       "Format"} : EmptyCode[clause] \in Codes
    BY DEF EmptyCode, Codes, StyleCodes
  <2> QED
    BY <2>1, <2>2
<1>3. \A s : SyntaxCodes(s, language, base) \subseteq Codes
  BY OwnCodesKnown DEF SyntaxCodes
<1> QED
  BY <1>1, <1>2, <1>3 DEF DefinitionCodes

LEMMA DateCodesKnown ==
  ASSUME NEW d
  PROVE  check_module_identity_dates(d) \subseteq Codes
<1>1. {"DateLength", "DateCharacter", "DateMonth", "DateDay", "DateHour", "DateMinutes",
       "DateValue", "DateYear2Digits", "DateInPast", "DateInFuture", "RevisionNotDescending",
       "RevisionAfterUpdate", "RevisionLastUpdated"} \subseteq Codes
  BY DEF Codes, ErrorCodes, MinorCodes, WarningCodes, StyleCodes
<1>2. \A t : Fault(t) \subseteq Codes
  BY <1>1 DEF Fault
<1>3. \A t : DateCodes(t) \subseteq Codes
  BY <1>1, <1>2 DEF DateCodes
<1>4. \A t, dates : RevisionCodes(t, dates) \subseteq Codes
  BY <1>1 DEF RevisionCodes
<1> QED
  BY <1>3, <1>4 DEF check_module_identity_dates

LEMMA ModuleCodesKnown ==
  ASSUME NEW module
  PROVE  ModuleCodes(module) \subseteq Codes
<1>1. {"ModuleNameSuffix", "MissingModuleIdentity", "ModuleIdentityNotFirst",
       "ModuleIdentityMultiple", "MacroNotImported"} \subseteq Codes
  BY DEF Codes, ErrorCodes, MinorCodes, WarningCodes, StyleCodes
<1>2. \A name : check_module_name_suffix(name) \subseteq Codes
  BY <1>1 DEF check_module_name_suffix
<1>3. \A definitions : check_module_identity_structure(definitions) \subseteq Codes
  BY <1>1 DEF check_module_identity_structure
<1>4. \A definitions : check_macro_imports(module, definitions) \subseteq Codes
  BY <1>1 DEF check_macro_imports
<1> QED
  BY <1>2, <1>3, <1>4 DEF ModuleCodes

LEMMA LoweringReportsKnown ==
  ASSUME NEW parsed, \A module \in Elements(parsed) : module.codes \subseteq Codes
  PROVE  Known(LoweringReports(parsed))
<1> SUFFICES ASSUME NEW m \in DOMAIN parsed,
                    NEW k, NEW c,
                    \/ c \in parsed[m].codes \cup ModuleCodes(parsed[m])
                    \/ \E language, base :
                         c \in DefinitionCodes(parsed[m].body[k], language, base)
                    \/ c \in check_module_identity_dates(parsed[m].body[k])
             PROVE  LoweringReport(c, m, k).code \in Codes
  BY DEF LoweringReports, Known
<1>1. parsed[m].codes \subseteq Codes
  BY DEF Elements
<1>2. c \in Codes
  BY <1>1, ModuleCodesKnown, DefinitionCodesKnown, DateCodesKnown
<1> QED
  BY <1>2 DEF LoweringReport

\* What the resolution of the values of objects emits.
LEMMA ValueReportsKnown == Known(ValueReports)
<1>1. {"PrimitiveTypeMissing", "TypeUnknown", "MalformedHexDefval", "MalformedBinDefval",
       "DefvalUnresolved"} \subseteq Codes
  BY DEF Codes, ErrorCodes, WarningCodes
<1>2. \A m, s : SyntaxReports(m, s) \subseteq Codes
  BY <1>1 DEF SyntaxReports
<1>3. \A m, v, t : DefvalReports(m, v, t) \subseteq Codes
  BY <1>1 DEF DefvalReports
<1>4. Known(DefaultReports)
  BY <1>2, <1>3, EmittedKnown DEF DefaultReports, Known
<1>5. Known(RefinementReports)
  BY <1>2, EmittedKnown DEF RefinementReports, Known
<1> QED
  BY <1>4, <1>5 DEF ValueReports, Known

\* A phase emits what it is given, and the types what check_basetype_imports finds.
LEMMA ReportsOfKnown ==
  ASSUME NEW p, request.early[p] \subseteq Codes
  PROVE  Known(ReportsOf(p))
<1>1. "BasetypeNotImported" \in Codes
  BY DEF Codes, MinorCodes
<1>2. Known(check_basetype_imports)
  BY <1>1, ReportModuleKnown DEF check_basetype_imports, Known
<1>3. \A c \in request.early[p] : Known(ReportModule(c, Modules))
  BY ReportModuleKnown
<1> QED
  BY <1>2, <1>3 DEF ReportsOf, Known

------------------------------------------------------------------------------
(* The invariant of the load, in parts.  What the properties say of the    *)
(* reports of one phase holds of all that is reported later, as nothing    *)
(* that was emitted is taken back.                                         *)

KnownCodes == Known(emitted)

\* What is collected is exactly what the configuration asks for of what was emitted.
Collects ==
  collected = {[severity |-> effective_severity(config, r.code), report |-> r] :
                 r \in {e \in emitted : should_collect(config, e.code)}}

\* Nothing is returned before the end, and what is loaded has nothing to fail at.
LoadedClean == IF phase = "done" THEN outcome = "Loaded" => Failing = {} ELSE outcome = "None"

\* What was emitted so far includes the reports of the lowering.
LoweringReported ==
  Registered => LoweringReports(request.parsed) \subseteq emitted

\* No request changes, and each is one of those of the model.
RequestKept == RequestType(request)

DiagnosticsInv ==
  /\ RequestKept /\ KnownCodes /\ Collects /\ LoadedClean /\ LoweringReported

LEMMA FollowingIs ==
  /\ Following("imports") = "types" /\ Following("types") = "oids"
  /\ Following("oids") = "semantics"
<1>1. /\ DOMAIN Phases = 1 .. 7
      /\ Phases[1] = "registration" /\ Phases[2] = "imports" /\ Phases[3] = "types"
      /\ Phases[4] = "oids" /\ Phases[5] = "semantics" /\ Phases[6] = "checks"
      /\ Phases[7] = "result"
  BY DEF Phases
<1>2. \A k \in DOMAIN Phases : k \in {1, 2, 3, 4, 5, 6, 7}
  BY <1>1
<1>3. (CHOOSE k \in DOMAIN Phases : Phases[k] = "imports") = 2
  BY <1>1, <1>2
<1>4. (CHOOSE k \in DOMAIN Phases : Phases[k] = "types") = 3
  BY <1>1, <1>2
<1>5. (CHOOSE k \in DOMAIN Phases : Phases[k] = "oids") = 4
  BY <1>1, <1>2
<1> QED
  BY <1>1, <1>3, <1>4, <1>5 DEF Following

LEMMA DiagnosticsInit == Init => DiagnosticsInv
<1> SUFFICES ASSUME Init PROVE DiagnosticsInv
  OBVIOUS
<1>1. RequestKept
  BY RequestsAssumption DEF Init, RequestKept
<1>2. emitted = {} /\ collected = {} /\ outcome = "None" /\ phase = "load"
  BY DEF Init
<1>3. Collects
  BY <1>2 DEF Collects
<1> QED
  BY <1>1, <1>2, <1>3 DEF DiagnosticsInv, KnownCodes, Known, LoadedClean, LoweringReported,
                          Registered

\* An emission of codes that are known keeps the first three parts.
LEMMA EmitStep ==
  ASSUME DiagnosticsInv, NEW reports, Known(reports), emit(reports), UNCHANGED <<request, outcome>>,
         phase # "done"
  PROVE  RequestKept' /\ KnownCodes' /\ Collects' /\ LoadedClean'
<1>1. RequestKept'
  BY DEF DiagnosticsInv, RequestKept
<1>2. KnownCodes'
  BY DEF DiagnosticsInv, KnownCodes, Known, emit
<1>3. Collects'
  <2>1. collected = {[severity |-> effective_severity(config, r.code), report |-> r] :
                       r \in {e \in emitted : should_collect(config, e.code)}}
    BY DEF DiagnosticsInv, Collects
  <2>2. collected' = collected \cup {[severity |-> effective_severity(config, r.code), report |-> r] :
                       r \in {e \in reports : should_collect(config, e.code)}}
    BY DEF emit
  <2>3. emitted' = emitted \cup reports /\ config' = config
    BY DEF emit, config
  <2>4. collected' = {[severity |-> effective_severity(config, r.code), report |-> r] :
                        r \in {e \in emitted' : should_collect(config, e.code)}}
    BY <2>1, <2>2, <2>3
  <2> QED
    BY <2>3, <2>4 DEF Collects
<1>4. LoadedClean'
  BY DEF DiagnosticsInv, LoadedClean
<1> QED
  BY <1>1, <1>2, <1>3, <1>4

LEMMA DiagnosticsNext == DiagnosticsInv /\ [Next]_vars => DiagnosticsInv'
<1> SUFFICES ASSUME DiagnosticsInv, [Next]_vars PROVE DiagnosticsInv'
  OBVIOUS
<1>1. CASE UNCHANGED vars
  BY <1>1 DEF vars, DiagnosticsInv, RequestKept, KnownCodes, Known, Collects, LoadedClean,
              LoweringReported, Registered, config, Failing
<1>2. ASSUME NEW result, Return(result), phase # "done", result = "Loaded" => Failing = {},
             phase = "result" \/ result \in {"NoSources", "LoadFailed"}
      PROVE  DiagnosticsInv'
  <2>1. RequestKept' /\ KnownCodes' /\ Collects'
    BY <1>2 DEF DiagnosticsInv, RequestKept, KnownCodes, Known, Collects, Return, config
  <2>2. LoadedClean'
    BY <1>2 DEF LoadedClean, Return, Failing, config
  <2>3. LoweringReported'
    BY <1>2 DEF LoadedClean, DiagnosticsInv, LoweringReported, Registered, Return
  <2> QED
    BY <2>1, <2>2, <2>3 DEF DiagnosticsInv
<1>3. CASE NoSources \/ LoaderFails \/ MissingModules \/ DiagnosticThreshold \/ Loaded
  BY <1>2, <1>3 DEF NoSources, LoaderFails, MissingModules, DiagnosticThreshold, Loaded
<1>4. CASE Load
  BY <1>4 DEF Load, DiagnosticsInv, RequestKept, KnownCodes, Known, Collects, LoadedClean,
              LoweringReported, Registered, config
<1>5. \A p \in EarlyPhases : request.early[p] \subseteq Codes
  BY DEF DiagnosticsInv, RequestKept, RequestType
<1>6. CASE Register
  <2>1. Known(ReportsOf("registration"))
    BY <1>5, ReportsOfKnown DEF EarlyPhases
  <2>2. Known(LoweringReports(request.parsed))
    BY LoweringReportsKnown DEF DiagnosticsInv, RequestKept, RequestType
  <2>3. Known(ReportsOf("registration") \cup LoweringReports(request.parsed))
    BY <2>1, <2>2 DEF Known
  <2>4. RequestKept' /\ KnownCodes' /\ Collects' /\ LoadedClean'
    BY <1>6, <2>3, EmitStep DEF Register
  <2>5. LoweringReported'
    BY <1>6 DEF Register, LoweringReported, Registered, emit
  <2> QED
    BY <2>4, <2>5 DEF DiagnosticsInv
<1>7. ASSUME NEW p \in {"imports", "types", "oids"}, Phase(p)
      PROVE  DiagnosticsInv'
  <2>1. Known(ReportsOf(p))
    BY <1>5, ReportsOfKnown DEF EarlyPhases
  <2>2. RequestKept' /\ KnownCodes' /\ Collects' /\ LoadedClean'
    BY <1>7, <2>1, EmitStep DEF Phase
  <2>3. LoweringReported'
    BY <1>7 DEF Phase, DiagnosticsInv, LoweringReported, Registered, emit
  <2> QED
    BY <2>2, <2>3 DEF DiagnosticsInv
<1>8. CASE CreateObjects
  <2>1. Known(ReportsOf("semantics") \cup ValueReports)
    BY <1>5, ReportsOfKnown, ValueReportsKnown DEF EarlyPhases, Known
  <2>2. RequestKept' /\ KnownCodes' /\ Collects' /\ LoadedClean'
    BY <1>8, <2>1, EmitStep DEF CreateObjects
  <2>3. LoweringReported'
    BY <1>8 DEF CreateObjects, DiagnosticsInv, LoweringReported, Registered, emit
  <2> QED
    BY <2>2, <2>3 DEF DiagnosticsInv
<1>9. CASE RunChecks
  <2>1. Known(ImportReports \cup run_checks)
    BY ImportReportsKnown, ObjectReportsKnown, TypeReportsKnown, TableReportsKnown,
       ConformanceReportsKnown DEF run_checks, Known
  <2>2. RequestKept' /\ KnownCodes' /\ Collects' /\ LoadedClean'
    BY <1>9, <2>1, EmitStep DEF RunChecks
  <2>3. LoweringReported'
    BY <1>9 DEF RunChecks, DiagnosticsInv, LoweringReported, Registered, emit
  <2> QED
    BY <2>2, <2>3 DEF DiagnosticsInv
<1> QED
  BY <1>1, <1>3, <1>4, <1>6, <1>7, <1>8, <1>9 DEF Next

THEOREM DiagnosticsKept == Spec => []DiagnosticsInv
<1> QED
  BY DiagnosticsInit, DiagnosticsNext, PTL DEF Spec

\* Where the configuration reports what it fails at, a load that succeeds has met nothing
\* it was to fail at, in whichever phase, but what it was told to ignore: should_collect
\* and should_fail of src/src/types/diagnostic.rs, check_load_result of src/src/load.rs.
THEOREM FailureNotHiddenHolds == Spec => []FailureNotHidden
<1>1. DiagnosticsInv => FailureNotHidden
  <2> SUFFICES ASSUME DiagnosticsInv, outcome = "Loaded", should_report(config, config.failAt),
                      NEW r \in emitted, should_fail(config, effective_severity(config, r.code)),
                      \/ effective_severity(config, r.code) = "Fatal"
                      \/ r.code \notin config.ignored
               PROVE  FALSE
    BY DEF FailureNotHidden
  <2> DEFINE severity == effective_severity(config, r.code)
  <2>1. /\ config.reporting \in Levels /\ config.failAt \in Severity
        /\ \A code \in DOMAIN config.overrides : config.overrides[code] \in Severity
    BY DEF DiagnosticsInv, RequestKept, RequestType, config, Elements
  <2>2. severity \in Severity
    BY <2>1, DefaultSeverityType DEF DiagnosticsInv, KnownCodes, Known, effective_severity
  <2>3. should_report(config, severity)
    BY <2>1, <2>2, ReportedUpwards DEF should_fail
  <2>4. should_collect(config, r.code)
    BY <2>3 DEF should_collect
  <2>5. [severity |-> severity, report |-> r] \in collected
    BY <2>4 DEF DiagnosticsInv, Collects
  <2>6. [severity |-> severity, report |-> r] \in Failing
    BY <2>5 DEF Failing
  <2>7. Failing = {}
    BY DEF DiagnosticsInv, LoadedClean
  <2> QED
    BY <2>6, <2>7
<1> QED
  BY <1>1, DiagnosticsKept, PTL

------------------------------------------------------------------------------
(* Numbers. *)

\* A non-empty set of numbers has a smallest one.
LEMMA SmallestMember ==
  ASSUME NEW S \in SUBSET Nat, S # {}
  PROVE  \E x \in S : \A y \in S : x <= y
<1>1. \A x, y \in Nat : y < x => <<y, x>> \in OpToRel(<, Nat)
  BY DEF OpToRel
<1>2. PICK x \in S : \A y \in S : ~ (<<y, x>> \in OpToRel(<, Nat))
  BY WFMin, NatLessThanWellFounded
<1>3. \A y \in S : ~ (y < x)
  BY <1>1, <1>2
<1> QED
  BY <1>3

\* Induction over the numbers, for a set.
LEMMA Induction ==
  ASSUME NEW S, 0 \in S, \A n \in Nat : n \in S => n + 1 \in S
  PROVE  Nat \subseteq S
<1> SUFFICES ASSUME Nat \ S # {} PROVE FALSE
  OBVIOUS
<1>1. PICK n \in Nat \ S : \A k \in Nat \ S : n <= k
  BY SmallestMember
<1>2. n # 0 /\ n - 1 \in Nat
  BY <1>1
<1>3. n - 1 \in S
  BY <1>1, <1>2
<1> QED
  BY <1>1, <1>2, <1>3

------------------------------------------------------------------------------
(* Dates.  The lowering reads a date of its own, and the order in which it *)
(* puts two of them is the one in which the resolver puts the timestamps.  *)

\* What the fields of a date are that nothing is reported of.
Sound(t) ==
  /\ t \in Timestamps /\ Parsed(t) /\ Valid(t)
  /\ Year(t) = FullYear(t) /\ Year(t) \in Nat
  /\ t.month \in 1 .. 12 /\ t.day \in 1 .. 31 /\ t.hour \in 0 .. 23 /\ t.minute \in 0 .. 59

LEMMA FaultlessIsSound ==
  ASSUME NEW t \in DateTexts, t.length # 0, Fault(t) = {}
  PROVE  Sound(t)
<1>1. t \in Timestamps
  <2>1. [length |-> 0].length = 0
    OBVIOUS
  <2> QED
    BY <2>1 DEF DateTexts
<1>2. /\ t.length \in Nat /\ t.year \in Nat /\ t.month \in Nat /\ t.day \in Nat
      /\ t.hour \in Nat /\ t.minute \in Nat
  BY <1>1 DEF Timestamps
<1>3. /\ t.length \in {11, 13} /\ t.digits /\ t.month \in 1 .. 12 /\ t.day \in 1 .. 31
      /\ ~ (t.hour > 23) /\ ~ (t.minute > 59) /\ ~ (t.day > LastDay(Year(t), t.month))
  BY DEF Fault
<1>4. Year(t) = FullYear(t) /\ Year(t) \in Nat
  BY <1>2 DEF Year, FullYear
<1>5. LastDay(Year(t), t.month) = days_in_month(FullYear(t), t.month)
  BY <1>3, <1>4 DEF LastDay, days_in_month, is_leap_year, LeapYear
<1>6. days_in_month(FullYear(t), t.month) \in Nat
  BY DEF days_in_month
<1>7. t.day <= days_in_month(FullYear(t), t.month)
  BY <1>2, <1>3, <1>5, <1>6
<1>8. t.hour \in 0 .. 23 /\ t.minute \in 0 .. 59
  BY <1>2, <1>3
<1>9. Valid(t)
  BY <1>2, <1>3, <1>7, <1>8 DEF Valid
<1> QED
  BY <1>1, <1>3, <1>4, <1>8, <1>9 DEF Sound, Parsed

\* Lexicographic order of the fields is the order of the numbers made of them.
DateNumber(y, m, d) == d + 100 * (m + 100 * y)
TimeNumber(h, n) == n + 100 * h

DatesAgree(y1, m1, d1, y2, m2, d2) ==
  /\ DateNumber(y1, m1, d1) < DateNumber(y2, m2, d2)
       <=> y1 < y2 \/ (y1 = y2 /\ m1 < m2) \/ (y1 = y2 /\ m1 = m2 /\ d1 < d2)
  /\ DateNumber(y1, m1, d1) = DateNumber(y2, m2, d2) <=> y1 = y2 /\ m1 = m2 /\ d1 = d2

TimesAgree(h1, n1, h2, n2) ==
  TimeNumber(h1, n1) < TimeNumber(h2, n2) <=> h1 < h2 \/ (h1 = h2 /\ n1 < n2)

LEMMA FieldsAsNumbers ==
  ASSUME NEW y1 \in Nat, NEW y2 \in Nat, NEW m1 \in 1 .. 12, NEW m2 \in 1 .. 12,
         NEW d1 \in 1 .. 31, NEW d2 \in 1 .. 31
  PROVE  DatesAgree(y1, m1, d1, y2, m2, d2)
<1>1. CASE y1 < y2
  BY <1>1 DEF DateNumber, DatesAgree
<1>2. CASE y2 < y1
  BY <1>2 DEF DateNumber, DatesAgree
<1>3. CASE y1 = y2 /\ m1 < m2
  BY <1>3 DEF DateNumber, DatesAgree
<1>4. CASE y1 = y2 /\ m2 < m1
  BY <1>4 DEF DateNumber, DatesAgree
<1>5. CASE y1 = y2 /\ m1 = m2
  BY <1>5 DEF DateNumber, DatesAgree
<1> QED
  BY <1>1, <1>2, <1>3, <1>4, <1>5

LEMMA TimesAsNumbers ==
  ASSUME NEW h1 \in 0 .. 23, NEW h2 \in 0 .. 23, NEW n1 \in 0 .. 59, NEW n2 \in 0 .. 59
  PROVE  TimesAgree(h1, n1, h2, n2)
BY DEF TimeNumber, TimesAgree

LEMMA BeforeIsLater ==
  ASSUME NEW a, NEW b, Sound(a), Sound(b)
  PROVE  Before(Reading(a), Reading(b))
           <=> Later(normalize_timestamp(b), normalize_timestamp(a))
<1> DEFINE x == Reading(a)
           y == Reading(b)
<1>1. /\ x[1] = Year(a) /\ x[2] = a.month /\ x[3] = a.day /\ x[4] = a.hour /\ x[5] = a.minute
      /\ y[1] = Year(b) /\ y[2] = b.month /\ y[3] = b.day /\ y[4] = b.hour /\ y[5] = b.minute
  BY DEF Reading
<1>2. /\ Year(a) \in Nat /\ a.month \in 1 .. 12 /\ a.day \in 1 .. 31 /\ a.hour \in 0 .. 23
      /\ a.minute \in 0 .. 59
      /\ Year(b) \in Nat /\ b.month \in 1 .. 12 /\ b.day \in 1 .. 31 /\ b.hour \in 0 .. 23
      /\ b.minute \in 0 .. 59
  BY DEF Sound
<1> HIDE DEF x, y
<1>3. Before(x, y) <=>
        \/ x[1] < y[1]
        \/ x[1] = y[1] /\ x[2] < y[2]
        \/ x[1] = y[1] /\ x[2] = y[2] /\ x[3] < y[3]
        \/ x[1] = y[1] /\ x[2] = y[2] /\ x[3] = y[3] /\ x[4] < y[4]
        \/ x[1] = y[1] /\ x[2] = y[2] /\ x[3] = y[3] /\ x[4] = y[4] /\ x[5] < y[5]
  <2> DEFINE P(k) == x[k] < y[k] /\ \A j \in 1 .. k - 1 : x[j] = y[j]
  <2>1. /\ P(1) <=> x[1] < y[1]
        /\ P(2) <=> x[1] = y[1] /\ x[2] < y[2]
    <3>1. 1 .. 1 - 1 = {} /\ 1 .. 2 - 1 = {1}
      OBVIOUS
    <3> QED
      BY <3>1
  <2>2. P(3) <=> x[1] = y[1] /\ x[2] = y[2] /\ x[3] < y[3]
    <3>1. 1 .. 3 - 1 = {1, 2}
      OBVIOUS
    <3> QED
      BY <3>1
  <2>3. P(4) <=> x[1] = y[1] /\ x[2] = y[2] /\ x[3] = y[3] /\ x[4] < y[4]
    <3>1. 1 .. 4 - 1 = {1, 2, 3}
      OBVIOUS
    <3> QED
      BY <3>1
  <2>4. P(5) <=> x[1] = y[1] /\ x[2] = y[2] /\ x[3] = y[3] /\ x[4] = y[4] /\ x[5] < y[5]
    <3>1. 1 .. 5 - 1 = {1, 2, 3, 4}
      OBVIOUS
    <3> QED
      BY <3>1
  <2>5. Before(x, y) <=> \E k \in {1, 2, 3, 4, 5} : P(k)
    <3>1. 1 .. 5 = {1, 2, 3, 4, 5}
      OBVIOUS
    <3> QED
      BY <3>1 DEF Before
  <2>6. Before(x, y) <=> P(1) \/ P(2) \/ P(3) \/ P(4) \/ P(5)
    <3> HIDE DEF P
    <3> QED
      BY <2>5
  <2> QED
    BY <2>1, <2>2, <2>3, <2>4, <2>6
<1>4. /\ normalize_timestamp(a).date = DateNumber(Year(a), a.month, a.day)
      /\ normalize_timestamp(b).date = DateNumber(Year(b), b.month, b.day)
      /\ normalize_timestamp(a).time = TimeNumber(a.hour, a.minute)
      /\ normalize_timestamp(b).time = TimeNumber(b.hour, b.minute)
  BY DEF Sound, normalize_timestamp, DateNumber, TimeNumber
<1>5. Later(normalize_timestamp(b), normalize_timestamp(a)) <=>
        \/ DateNumber(Year(a), a.month, a.day) < DateNumber(Year(b), b.month, b.day)
        \/ /\ DateNumber(Year(a), a.month, a.day) = DateNumber(Year(b), b.month, b.day)
           /\ TimeNumber(a.hour, a.minute) < TimeNumber(b.hour, b.minute)
  <2>1. \A n \in Nat, m \in 1 .. 12, d \in 1 .. 31 : DateNumber(n, m, d) \in Nat
    BY DEF DateNumber
  <2>2. \A h \in 0 .. 23, n \in 0 .. 59 : TimeNumber(h, n) \in Nat
    BY DEF TimeNumber
  <2>3. /\ DateNumber(Year(a), a.month, a.day) \in Nat /\ DateNumber(Year(b), b.month, b.day) \in Nat
        /\ TimeNumber(a.hour, a.minute) \in Nat /\ TimeNumber(b.hour, b.minute) \in Nat
    BY <1>2, <2>1, <2>2
  <2> QED
    BY <1>4, <2>3 DEF Later
<1>6. Later(normalize_timestamp(b), normalize_timestamp(a)) <=>
        \/ Year(a) < Year(b)
        \/ Year(a) = Year(b) /\ a.month < b.month
        \/ Year(a) = Year(b) /\ a.month = b.month /\ a.day < b.day
        \/ /\ Year(a) = Year(b) /\ a.month = b.month /\ a.day = b.day
           /\ (a.hour < b.hour \/ (a.hour = b.hour /\ a.minute < b.minute))
  <2>1. DatesAgree(Year(a), a.month, a.day, Year(b), b.month, b.day)
    BY <1>2, FieldsAsNumbers
  <2>2. TimesAgree(a.hour, a.minute, b.hour, b.minute)
    BY <1>2, TimesAsNumbers
  <2> QED
    BY <1>5, <2>1, <2>2, Zenon DEF DatesAgree, TimesAgree
<1> QED
  BY <1>1, <1>3, <1>6 DEF x, y

\* What is later than a later one is later.
LEMMA LaterTransitive ==
  ASSUME NEW a \in Timestamps, NEW b \in Timestamps, NEW c \in Timestamps,
         Later(normalize_timestamp(a), normalize_timestamp(b)),
         Later(normalize_timestamp(b), normalize_timestamp(c))
  PROVE  Later(normalize_timestamp(a), normalize_timestamp(c))
<1>1. ASSUME NEW t \in Timestamps
      PROVE  normalize_timestamp(t).date \in Nat /\ normalize_timestamp(t).time \in Nat
  <2>1. FullYear(t) \in Nat
    BY DEF Timestamps, FullYear
  <2> QED
    BY <2>1, SMT DEF Timestamps, normalize_timestamp
<1> QED
  BY <1>1 DEF Later

\* Where each of a list of dates is later than the next, it is later than all that follow.
LEMMA NeighboursDescend ==
  ASSUME NEW dates \in Seq(Timestamps),
         \A k \in 2 .. Len(dates) : Later(normalize_timestamp(dates[k - 1]), normalize_timestamp(dates[k]))
  PROVE  \A i, j \in DOMAIN dates :
           i < j => Later(normalize_timestamp(dates[i]), normalize_timestamp(dates[j]))
<1> DEFINE at(k) == normalize_timestamp(dates[k])
           S == {n \in Nat : \A i \in DOMAIN dates : i + n + 1 \in DOMAIN dates
                                                     => Later(at(i), at(i + n + 1))}
<1>1. DOMAIN dates = 1 .. Len(dates) /\ Len(dates) \in Nat /\ \A k \in DOMAIN dates : dates[k] \in Timestamps
  OBVIOUS
<1>2. 0 \in S
  <2> SUFFICES ASSUME NEW i \in DOMAIN dates, i + 0 + 1 \in DOMAIN dates
               PROVE  Later(at(i), at(i + 0 + 1))
    OBVIOUS
  <2>1. i \in Nat /\ i + 1 \in 2 .. Len(dates) /\ (i + 1) - 1 = i /\ i + 0 + 1 = i + 1
    BY <1>1
  <2> QED
    BY <2>1
<1>3. ASSUME NEW n \in Nat, n \in S
      PROVE  n + 1 \in S
  <2> SUFFICES ASSUME NEW i \in DOMAIN dates, i + (n + 1) + 1 \in DOMAIN dates
               PROVE  Later(at(i), at(i + (n + 1) + 1))
    OBVIOUS
  <2>1. i + n + 1 \in DOMAIN dates /\ i + (n + 1) + 1 \in 2 .. Len(dates)
        /\ (i + (n + 1) + 1) - 1 = i + n + 1
    BY <1>1
  <2>2. Later(at(i), at(i + n + 1))
    BY <1>3, <2>1
  <2>3. Later(at(i + n + 1), at(i + (n + 1) + 1))
    BY <2>1
  <2> QED
    BY <1>1, <2>1, <2>2, <2>3, LaterTransitive
<1>4. Nat \subseteq S
  <2> HIDE DEF S
  <2> QED
    BY <1>2, <1>3, Induction
<1> SUFFICES ASSUME NEW i \in DOMAIN dates, NEW j \in DOMAIN dates, i < j
             PROVE  Later(at(i), at(j))
  OBVIOUS
<1>5. j - i - 1 \in Nat /\ i + (j - i - 1) + 1 = j
  BY <1>1
<1>6. j - i - 1 \in S
  BY <1>4, <1>5
<1> QED
  BY <1>5, <1>6

\* Where nothing is reported of its dates and revisions, a MODULE-IDENTITY was last
\* updated by its first revision: check_module_identity_dates of src/src/lower/dates.rs
\* on the one hand, normalize_timestamp of src/src/mib/resolver/util.rs on the other.
THEOREM LastUpdateIsFirstHolds == Spec => []LastUpdateIsFirst
<1> SUFFICES DiagnosticsInv => LastUpdateIsFirst
  BY DiagnosticsKept, PTL
<1> SUFFICES ASSUME DiagnosticsInv, Registered, NEW mk \in ParsedDefs
             PROVE  LET d == request.parsed[mk[1]].body[mk[2]]
                        dates == RevisionDates(d)
                        at(t) == normalize_timestamp(t)
                    IN d.sort = "ModuleIdentity" /\ (\A t \in {d.updated} \cup Elements(dates) : t.length # 0)
                       /\ ~ ReportedOf(mk[1], mk[2], DateReports \cup RevisionReports)
                       => /\ dates # <<>> /\ at(dates[1]) = at(d.updated)
                          /\ \A i, j \in DOMAIN dates : i < j => Later(at(dates[i]), at(dates[j]))
  BY DEF LastUpdateIsFirst
<1> DEFINE module == request.parsed[mk[1]]
           d == module.body[mk[2]]
           dates == RevisionDates(d)
           at(t) == normalize_timestamp(t)
<1> SUFFICES ASSUME d.sort = "ModuleIdentity", \A t \in {d.updated} \cup Elements(dates) : t.length # 0,
                    ~ ReportedOf(mk[1], mk[2], DateReports \cup RevisionReports)
             PROVE  /\ dates # <<>> /\ at(dates[1]) = at(d.updated)
                    /\ \A i, j \in DOMAIN dates : i < j => Later(at(dates[i]), at(dates[j]))
  OBVIOUS
<1>1. mk[1] \in DOMAIN request.parsed /\ mk[2] \in DOMAIN module.body
  <2>1. PICK m \in DOMAIN request.parsed : mk \in {<<m, k>> : k \in DOMAIN request.parsed[m].body}
    BY DEF ParsedDefs
  <2> QED
    BY <2>1
<1>2. ParsedType(d)
  BY <1>1 DEF DiagnosticsInv, RequestKept, RequestType, Elements
<1> HIDE DEF d, module
<1>3. d.updated \in DateTexts /\ d.revisions \in Seq([date : DateTexts, empty : BOOLEAN])
  BY <1>2 DEF ParsedType
<1>4. dates \in Seq(DateTexts) /\ Len(dates) = Len(d.revisions)
  <2>1. Len(d.revisions) \in Nat /\ DOMAIN d.revisions = 1 .. Len(d.revisions)
    BY <1>3
  <2> DEFINE revisions == d.revisions
  <2>2. \A k \in DOMAIN revisions : revisions[k] \in [date : DateTexts, empty : BOOLEAN]
    <3> DEFINE R == [date : DateTexts, empty : BOOLEAN]
    <3>1. revisions \in Seq(R)
      BY <1>3
    <3> HIDE DEF revisions, R
    <3>2. \A k \in DOMAIN revisions : revisions[k] \in R
      BY <3>1
    <3> QED
      BY <3>2 DEF R
  <2>3. \A k \in DOMAIN revisions : revisions[k].date \in DateTexts
    BY <2>2
  <2>4. dates \in [1 .. Len(d.revisions) -> DateTexts]
    BY <2>1, <2>3 DEF RevisionDates
  <2> QED
    BY <2>1, <2>4, IsASeq, LenProperties
<1> HIDE DEF dates
<1>5. ASSUME NEW c \in check_module_identity_dates(d)
      PROVE  c \notin DateReports \cup RevisionReports
  <2>1. LoweringReport(c, mk[1], mk[2]) \in LoweringReports(request.parsed)
    BY <1>1 DEF LoweringReports, d, module
  <2>2. LoweringReport(c, mk[1], mk[2]) \in emitted
    BY <2>1 DEF DiagnosticsInv, LoweringReported
  <2> QED
    BY <2>2 DEF ReportedOf, LoweringReport
<1>6. /\ \A t \in {d.updated} \cup Elements(dates) : DateCodes(t) \subseteq check_module_identity_dates(d)
      /\ RevisionCodes(d.updated, dates) \subseteq check_module_identity_dates(d)
  BY DEF check_module_identity_dates, dates
<1>7. ASSUME NEW t \in {d.updated} \cup Elements(dates)
      PROVE  Sound(t)
  <2>1. t \in DateTexts
    BY <1>3, <1>4 DEF Elements
  <2>2. Fault(t) \subseteq DateReports
    BY DEF Fault, DateReports
  <2>3. Fault(t) = {}
    BY <1>5, <1>6, <2>2 DEF DateCodes
  <2> QED
    BY <2>1, <2>3, FaultlessIsSound
<1>8. d.updated \in Elements(dates)
  <2>1. "RevisionLastUpdated" \notin RevisionCodes(d.updated, dates)
    BY <1>5, <1>6 DEF RevisionReports
  <2> QED
    BY <2>1 DEF RevisionCodes
<1>9. \A t \in Elements(dates) : ~ Before(Reading(d.updated), Reading(t))
  <2>1. "RevisionAfterUpdate" \notin RevisionCodes(d.updated, dates)
    BY <1>5, <1>6 DEF RevisionReports
  <2> QED
    BY <1>7, <2>1 DEF RevisionCodes, Sound
<1>10. dates \in Seq(Timestamps) /\ \A k \in DOMAIN dates : dates[k] \in Elements(dates)
  BY <1>4, <1>7 DEF Elements, Sound
<1>11. \A k \in 2 .. Len(dates) : Later(at(dates[k - 1]), at(dates[k]))
  <2> SUFFICES ASSUME NEW k \in 2 .. Len(dates) PROVE Later(at(dates[k - 1]), at(dates[k]))
    OBVIOUS
  <2>1. k \in DOMAIN dates /\ k - 1 \in DOMAIN dates
    BY <1>10
  <2>2. Sound(dates[k - 1]) /\ Sound(dates[k])
    BY <1>7, <1>10, <2>1
  <2>3. "RevisionNotDescending" \notin RevisionCodes(d.updated, dates)
    BY <1>5, <1>6 DEF RevisionReports
  <2>4. ~ NotDescending(dates[k - 1], dates[k])
    BY <2>2, <2>3 DEF RevisionCodes, Sound
  <2> QED
    BY <2>2, <2>4, BeforeIsLater DEF NotDescending
<1>12. \A i, j \in DOMAIN dates : i < j => Later(at(dates[i]), at(dates[j]))
  BY <1>10, <1>11, NeighboursDescend
<1>13. PICK j \in DOMAIN dates : dates[j] = d.updated
  BY <1>8 DEF Elements
<1>14. j \in Nat /\ 1 \in DOMAIN dates /\ 1 <= j /\ dates # <<>>
  BY <1>10, <1>13
<1>15. ASSUME 1 < j PROVE FALSE
  <2>1. Later(at(dates[1]), at(d.updated))
    BY <1>12, <1>13, <1>14, <1>15
  <2>2. Before(Reading(d.updated), Reading(dates[1]))
    BY <1>7, <1>10, <1>14, <2>1, BeforeIsLater
  <2> QED
    BY <1>9, <1>10, <1>14, <2>2
<1> QED
  BY <1>12, <1>13, <1>14, <1>15

------------------------------------------------------------------------------
(* The layers of a syntax, and all that lies within one. *)

Layered(f, s, k) ==
  f = [i \in 0 .. k |-> IF i = 0 THEN s ELSE Inside(f[i - 1])]

LEMMA LayeredExists ==
  ASSUME NEW s, NEW k \in Nat
  PROVE  \E f : Layered(f, s, k)
<1> DEFINE S == {n \in Nat : \E f : Layered(f, s, n)}
<1>1. 0 \in S
  <2> DEFINE f == [i \in 0 .. 0 |-> s]
  <2>1. Layered(f, s, 0)
    BY DEF Layered
  <2> QED
    BY <2>1
<1>2. ASSUME NEW n \in Nat, n \in S PROVE n + 1 \in S
  <2>1. PICK g : Layered(g, s, n)
    BY <1>2
  <2> DEFINE last == IF (n + 1) = 0 THEN s ELSE Inside(g[(n + 1) - 1])
             f == [i \in 0 .. n + 1 |-> IF i = n + 1 THEN last ELSE g[i]]
  <2>2. \A i \in 0 .. n : g[i] = IF i = 0 THEN s ELSE Inside(g[i - 1])
    BY <2>1 DEF Layered
  <2>3. \A i \in 0 .. n + 1 : f[i] = IF i = 0 THEN s ELSE Inside(f[i - 1])
    <3>1. TAKE i \in 0 .. n + 1
    <3>2. CASE i = n + 1
      <4>1. f[i] = last /\ i = n + 1 /\ (i # 0 => i - 1 = n /\ f[n] = g[n])
        BY <3>2
      <4> QED
        BY <4>1
    <3>3. CASE i # n + 1
      <4>1. i \in 0 .. n /\ f[i] = g[i]
        BY <3>3
      <4>2. i # 0 => i - 1 \in 0 .. n + 1 /\ i - 1 # n + 1 /\ f[i - 1] = g[i - 1]
        BY <3>3
      <4> QED
        BY <2>2, <4>1, <4>2
    <3> QED
      BY <3>2, <3>3
  <2>4. f = [i \in 0 .. n + 1 |-> IF i = 0 THEN s ELSE Inside(f[i - 1])]
    <3>1. f = [i \in 0 .. n + 1 |-> f[i]]
      OBVIOUS
    <3> HIDE DEF f
    <3> QED
      BY <2>3, <3>1
  <2>5. Layered(f, s, n + 1)
    <3> HIDE DEF f
    <3> QED
      BY <2>4 DEF Layered
  <2> QED
    BY <2>5
<1> QED
  <2> HIDE DEF S
  <2>1. k \in S
    BY <1>1, <1>2, Induction
  <2> QED
    BY <2>1 DEF S

LEMMA LayersAre ==
  ASSUME NEW s
  PROVE  /\ Layers(s)[0] = s
         /\ \A n \in 1 .. MaxNesting : Layers(s)[n] = Inside(Layers(s)[n - 1])
<1> DEFINE g == CHOOSE f : Layered(f, s, MaxNesting)
<1>1. Layered(g, s, MaxNesting)
  BY LayeredExists, LoweringAssumption
<1>2. Layers(s) = g
  BY DEF Layers, Layered
<1> HIDE DEF g
<1>3. \A i \in 0 .. MaxNesting : g[i] = IF i = 0 THEN s ELSE Inside(g[i - 1])
  BY <1>1 DEF Layered
<1> QED
  BY <1>2, <1>3, LoweringAssumption

Nested(f, s, k) ==
  f = [i \in 0 .. k |-> IF i = 0 THEN {s} ELSE f[i - 1] \cup UNION {Below(t) : t \in f[i - 1]}]

LEMMA NestedExists ==
  ASSUME NEW s, NEW k \in Nat
  PROVE  \E f : Nested(f, s, k)
<1> DEFINE S == {n \in Nat : \E f : Nested(f, s, n)}
<1>1. 0 \in S
  <2> DEFINE f == [i \in 0 .. 0 |-> {s}]
  <2>1. Nested(f, s, 0)
    BY DEF Nested
  <2> QED
    BY <2>1
<1>2. ASSUME NEW n \in Nat, n \in S PROVE n + 1 \in S
  <2>1. PICK g : Nested(g, s, n)
    BY <1>2
  <2> DEFINE last == IF (n + 1) = 0 THEN {s} ELSE g[(n + 1) - 1] \cup UNION {Below(t) : t \in g[(n + 1) - 1]}
             f == [i \in 0 .. n + 1 |-> IF i = n + 1 THEN last ELSE g[i]]
  <2>2. \A i \in 0 .. n : g[i] = IF i = 0 THEN {s} ELSE g[i - 1] \cup UNION {Below(t) : t \in g[i - 1]}
    BY <2>1 DEF Nested
  <2>3. \A i \in 0 .. n + 1 : f[i] = IF i = 0 THEN {s} ELSE f[i - 1] \cup UNION {Below(t) : t \in f[i - 1]}
    <3>1. TAKE i \in 0 .. n + 1
    <3>2. CASE i = n + 1
      <4>1. f[i] = last /\ i = n + 1 /\ (i # 0 => i - 1 = n /\ f[n] = g[n])
        BY <3>2
      <4> QED
        BY <4>1
    <3>3. CASE i # n + 1
      <4>1. i \in 0 .. n /\ f[i] = g[i]
        BY <3>3
      <4>2. i # 0 => i - 1 \in 0 .. n + 1 /\ i - 1 # n + 1 /\ f[i - 1] = g[i - 1]
        BY <3>3
      <4> QED
        BY <2>2, <4>1, <4>2
    <3> QED
      BY <3>2, <3>3
  <2>4. f = [i \in 0 .. n + 1 |-> IF i = 0 THEN {s} ELSE f[i - 1] \cup UNION {Below(t) : t \in f[i - 1]}]
    <3>1. f = [i \in 0 .. n + 1 |-> f[i]]
      OBVIOUS
    <3> HIDE DEF f
    <3> QED
      BY <2>3, <3>1
  <2>5. Nested(f, s, n + 1)
    <3> HIDE DEF f
    <3> QED
      BY <2>4 DEF Nested
  <2> QED
    BY <2>5
<1> QED
  <2> HIDE DEF S
  <2>1. k \in S
    BY <1>1, <1>2, Induction
  <2> QED
    BY <2>1 DEF S

LEMMA WithinIs ==
  ASSUME NEW s
  PROVE  \E f : /\ f[0] = {s} /\ Within(s) = f[MaxNesting]
                /\ \A n \in 1 .. MaxNesting : f[n] = f[n - 1] \cup UNION {Below(t) : t \in f[n - 1]}
<1> DEFINE g == CHOOSE f : Nested(f, s, MaxNesting)
<1>1. Nested(g, s, MaxNesting)
  BY NestedExists, LoweringAssumption
<1>2. Within(s) = g[MaxNesting]
  BY DEF Within, Nested
<1> HIDE DEF g
<1>3. \A i \in 0 .. MaxNesting : g[i] = IF i = 0 THEN {s} ELSE g[i - 1] \cup UNION {Below(t) : t \in g[i - 1]}
  BY <1>1 DEF Nested
<1>4. g[0] = {s} /\ \A n \in 1 .. MaxNesting : g[n] = g[n - 1] \cup UNION {Below(t) : t \in g[n - 1]}
  <2>1. 0 \in 0 .. MaxNesting /\ \A n \in 1 .. MaxNesting : n \in 0 .. MaxNesting /\ n # 0
    BY LoweringAssumption
  <2> QED
    BY <1>3, <2>1, Zenon
<1> QED
  BY <1>2, <1>4

\* Every layer lies within the syntax.
LEMMA LayersWithin ==
  ASSUME NEW s, NEW n \in 0 .. MaxNesting
  PROVE  Layers(s)[n] \in Within(s)
<1>1. PICK f : /\ f[0] = {s} /\ Within(s) = f[MaxNesting]
               /\ \A i \in 1 .. MaxNesting : f[i] = f[i - 1] \cup UNION {Below(t) : t \in f[i - 1]}
  BY WithinIs
<1> DEFINE S == {i \in Nat : i <= MaxNesting => \A j \in 0 .. i : Layers(s)[j] \in f[i]}
<1>2. 0 \in S
  BY <1>1, LayersAre
<1>3. ASSUME NEW i \in Nat, i \in S PROVE i + 1 \in S
  <2> SUFFICES ASSUME i + 1 <= MaxNesting, NEW j \in 0 .. i + 1
               PROVE  Layers(s)[j] \in f[i + 1]
    OBVIOUS
  <2>1. i + 1 \in 1 .. MaxNesting /\ (i + 1) - 1 = i /\ i <= MaxNesting
    BY LoweringAssumption
  <2>2. f[i + 1] = f[i] \cup UNION {Below(t) : t \in f[i]}
    BY <1>1, <2>1
  <2>3. CASE j \in 0 .. i
    BY <1>3, <2>1, <2>2, <2>3
  <2>4. CASE j = i + 1
    <3> DEFINE t == Layers(s)[i]
    <3>1. t \in f[i]
      BY <1>3, <2>1
    <3>2. Layers(s)[i + 1] = Inside(t)
      BY <2>1, LayersAre
    <3> HIDE DEF t
    <3>3. Inside(t) = t \/ Inside(t) \in Below(t)
      BY DEF Inside, Below
    <3> QED
      BY <2>2, <2>4, <3>1, <3>2, <3>3
  <2> QED
    BY <2>3, <2>4
<1> HIDE DEF S
<1>4. MaxNesting \in S
  BY <1>2, <1>3, Induction, LoweringAssumption
<1> QED
  BY <1>1, <1>4, LoweringAssumption DEF S

------------------------------------------------------------------------------
(* Named numbers *)

NumberReports == {"EnumValueRedefinition", "BitsValueRedefinition", "BitsNumberNegative",
                  "BitsNumberTooLarge"}

\* A number without a repetition of its value has it alone.
LEMMA UnrepeatedApart ==
  ASSUME NEW numbers \in Seq([label : STRING, value : Int]), ~ Repeated(numbers, ValueOf)
  PROVE  \A i, j \in DOMAIN numbers : numbers[i].value = numbers[j].value => i = j
<1>1. DOMAIN numbers = 1 .. Len(numbers) /\ Len(numbers) \in Nat
  OBVIOUS
<1>2. \A i, j \in DOMAIN numbers : i < j => numbers[i].value # numbers[j].value
  BY DEF Repeated, ValueOf
<1> QED
  BY <1>1, <1>2

\* The numbers of a lowered syntax are those of its innermost layer, and bits get
\* positions that bits can have.
LEMMA LoweredNumbers ==
  ASSUME NEW s
  PROVE  lower_type_syntax(s).numbers =
           IF Innermost(s).form = "Sequence" THEN <<>>
           ELSE IF Innermost(s).form = "Bits" THEN Positions(Innermost(s).numbers)
           ELSE Innermost(s).numbers
<1>1. \A form, name, numbers : /\ Plain(form, name, numbers).numbers = numbers
                               /\ "numbers" \in DOMAIN Plain(form, name, numbers)
  BY DEF Plain
<1>2. "numbers" \in DOMAIN Shape(Innermost(s))
  BY <1>1, Zenon DEF Shape
<1>3. lower_type_syntax(s).numbers = Shape(Innermost(s)).numbers
  BY <1>2 DEF lower_type_syntax
<1>4. CASE Innermost(s).form = "Sequence"
  BY <1>1, <1>3, <1>4, Zenon DEF Shape
<1>5. CASE Innermost(s).form # "Sequence" /\ Innermost(s).form = "Bits"
  <2>1. Shape(Innermost(s)) = Plain("Bits", "", Positions(Innermost(s).numbers))
    BY <1>5 DEF Shape
  <2>2. Plain("Bits", "", Positions(Innermost(s).numbers)).numbers = Positions(Innermost(s).numbers)
    BY DEF Plain
  <2>3. lower_type_syntax(s).numbers = Positions(Innermost(s).numbers)
    BY <1>3, <2>1, <2>2
  <2> QED
    BY <1>5, <2>3
<1>6. CASE Innermost(s).form # "Sequence" /\ Innermost(s).form # "Bits"
  <2>1. Shape(Innermost(s)) = Plain(Innermost(s).form, Innermost(s).name, Innermost(s).numbers)
    BY <1>6, Zenon DEF Shape
  <2> QED
    BY <1>1, <1>3, <1>6, <2>1
<1> QED
  BY <1>3, <1>4, <1>5, <1>6

LEMMA PositionStays ==
  ASSUME NEW bit \in [label : STRING, value : Int],
         PositionCodes(bit.value) \cap NumberReports = {}
  PROVE  Position(bit).value = bit.value
<1>1. bit.value \in Int /\ MaxPosition \in Int
  <2>1. SizeMax \in Int
    BY RangesAssumption
  <2> QED
    BY <2>1 DEF MaxPosition
<1>2. ~ (bit.value < 0) /\ ~ (bit.value > MaxPosition)
  <2>1. bit.value < 0 \/ bit.value > MaxPosition => bit.value \notin LargePosition .. MaxPosition
    BY <1>1, LoweringAssumption
  <2>2. bit.value < 0 \/ bit.value > MaxPosition
          => PositionCodes(bit.value) \in {{"BitsNumberNegative"}, {"BitsNumberTooLarge"}}
    BY <2>1 DEF PositionCodes
  <2> QED
    BY <2>2 DEF NumberReports
<1>3. bit.value \in 0 .. MaxPosition
  BY <1>1, <1>2
<1> QED
  BY <1>3 DEF Position

LEMMA WrittenApart ==
  ASSUME NEW s, WrittenType(s), NEW language, NEW base,
         SyntaxCodes(s, language, base) \cap NumberReports = {}
  PROVE  \A i, j \in DOMAIN lower_type_syntax(s).numbers :
           lower_type_syntax(s).numbers[i].value = lower_type_syntax(s).numbers[j].value => i = j
<1> DEFINE t == Layers(s)[MaxNesting]
           numbers == lower_type_syntax(s).numbers
           Numbers == [label : STRING, value : Int]
<1>1. t \in Within(s)
  BY LayersWithin, LoweringAssumption
<1>2. t.numbers \in Seq(Numbers) /\ (t.form \notin {"IntegerEnum", "Bits"} => t.numbers = <<>>)
  BY <1>1 DEF WrittenType
<1>3. OwnCodes(t, language, base) \cap NumberReports = {}
  BY <1>1 DEF SyntaxCodes
<1>4. Innermost(s) = MissingSyntax \/ (Innermost(s) = t /\ t.form # "Choice")
  BY DEF Innermost
<1>5. MissingSyntax.form = "OctetString" /\ MissingSyntax.numbers = <<>>
  BY DEF MissingSyntax, Plain
<1> HIDE DEF t
<1>6. CASE Innermost(s) = t /\ t.form = "IntegerEnum"
  <2>1. numbers = t.numbers
    BY <1>6, LoweredNumbers
  <2>2. ~ Repeated(t.numbers, ValueOf)
    BY <1>3, <1>6 DEF OwnCodes, EnumCodes, Redefinitions, NumberReports
  <2> QED
    BY <1>2, <2>1, <2>2, UnrepeatedApart
<1>7. CASE Innermost(s) = t /\ t.form = "Bits"
  <2>1. numbers = Positions(t.numbers)
    BY <1>7, LoweredNumbers
  <2>2. ~ Repeated(t.numbers, ValueOf)
    BY <1>3, <1>7 DEF OwnCodes, BitsCodes, Redefinitions, NumberReports
  <2>3. \A b \in Elements(t.numbers) : PositionCodes(b.value) \cap NumberReports = {}
    BY <1>3, <1>7 DEF OwnCodes, BitsCodes
  <2>4. \A k \in DOMAIN t.numbers : t.numbers[k] \in Numbers
    <3> DEFINE q == t.numbers
    <3> HIDE DEF q, Numbers
    <3>1. \A k \in DOMAIN q : q[k] \in Numbers
      BY <1>2 DEF q
    <3> QED
      BY <3>1 DEF q
  <2>5. DOMAIN numbers = DOMAIN t.numbers
        /\ \A k \in DOMAIN t.numbers : numbers[k].value = t.numbers[k].value
    <3>1. \A k \in DOMAIN t.numbers : t.numbers[k] \in Elements(t.numbers)
      BY DEF Elements
    <3>2. \A k \in DOMAIN t.numbers : Position(t.numbers[k]).value = t.numbers[k].value
      BY <2>3, <2>4, <3>1, PositionStays
    <3> QED
      BY <2>1, <3>2 DEF Positions
  <2>6. \A i, j \in DOMAIN t.numbers : t.numbers[i].value = t.numbers[j].value => i = j
    BY <1>2, <2>2, UnrepeatedApart
  <2> QED
    BY <2>5, <2>6
<1>8. CASE ~ (Innermost(s) = t /\ t.form \in {"IntegerEnum", "Bits"})
  <2>1. numbers = <<>>
    BY <1>2, <1>4, <1>5, <1>8, LoweredNumbers
  <2> QED
    BY <2>1
<1> QED
  BY <1>6, <1>7, <1>8

LEMMA DefinitionApart ==
  ASSUME NEW d, ParsedType(d), NEW language, NEW base,
         DefinitionCodes(d, language, base) \cap NumberReports = {}
  PROVE  NumbersApart(d)
<1> SUFFICES ASSUME NEW s \in SyntaxesIn(d)
             PROVE  LET numbers == lower_type_syntax(s).numbers
                    IN \A i, j \in DOMAIN numbers : numbers[i].value = numbers[j].value => i = j
  BY DEF NumbersApart
<1>1. SyntaxCodes(s, language, base) \cap NumberReports = {}
  BY DEF DefinitionCodes
<1>2. WrittenType(s)
  BY DEF ParsedType
<1> QED
  BY <1>1, <1>2, WrittenApart

------------------------------------------------------------------------------
(* What the lowering makes has the shape that the resolver expects. *)

LEMMA ListedIs ==
  ASSUME NEW s
  PROVE  Listed(s) <=> s = [i \in DOMAIN s |-> s[i]] /\ \E n \in Nat : DOMAIN s = 1 .. n
<1> DEFINE S == Elements(s)
<1>1. \A i \in DOMAIN s : s[i] \in S
  BY DEF Elements
<1> HIDE DEF S
<1>2. ASSUME s \in Seq(S)
      PROVE  s = [i \in DOMAIN s |-> s[i]] /\ \E n \in Nat : DOMAIN s = 1 .. n
  BY <1>2
<1>3. ASSUME s = [i \in DOMAIN s |-> s[i]], NEW n \in Nat, DOMAIN s = 1 .. n
      PROVE  s \in Seq(S)
  <2>1. s \in [1 .. n -> S]
    BY <1>1, <1>3
  <2> QED
    BY <2>1, IsASeq
<1> QED
  BY <1>2, <1>3 DEF Listed, S

\* A list with something else in each place is a list.
LEMMA ListedMap ==
  ASSUME NEW s, Listed(s), NEW t, t = [i \in DOMAIN t |-> t[i]], DOMAIN t = DOMAIN s
  PROVE  Listed(t)
BY ListedIs

LEMMA FirstIs ==
  ASSUME NEW S \in SUBSET Nat, S # {}
  PROVE  First(S) \in S /\ \A o \in S : First(S) <= o
<1>1. \E m \in S : \A o \in S : m <= o
  BY SmallestMember
<1> QED
  BY <1>1 DEF First

LEMMA BoundsLowered ==
  ASSUME NEW b \in Bound \cup {AnyName}
  PROVE  lower_range_value(b) \in Bound
BY DEF lower_range_value, Bound

LEMMA ConstraintLowered ==
  ASSUME NEW c, c.kind \in {"Size", "Range"}, Listed(c.ranges),
         \A r \in Elements(c.ranges) : r \in Seq(Bound \cup {AnyName}) /\ r # <<>>
  PROVE  /\ lower_constraint(c).kind = c.kind
         /\ lower_constraint(c).ranges \in Seq(Interval)
<1> DEFINE q == c.ranges
<1>1. \A k \in DOMAIN q : lower_range(q[k]) \in Interval
  <2> SUFFICES ASSUME NEW k \in DOMAIN q PROVE lower_range(q[k]) \in Interval
    OBVIOUS
  <2> DEFINE r == q[k]
             T == Bound \cup {AnyName}
  <2>1. r \in Seq(T) /\ r # <<>>
    BY DEF Elements
  <2> HIDE DEF r, T
  <2>2. Len(r) \in Nat /\ 1 \in 1 .. Len(r) /\ Len(r) \in 1 .. Len(r)
    BY <2>1, EmptySeq
  <2>3. Head(r) = r[1] /\ r[1] \in T /\ r[Len(r)] \in T
    BY <2>1, <2>2
  <2>4. lower_range_value(Head(r)) \in Bound /\ lower_range_value(Last(r)) \in Bound
    BY <2>3, BoundsLowered DEF T, Last
  <2> QED
    BY <2>4 DEF lower_range, Interval, r
<1>2. PICK n \in Nat : DOMAIN q = 1 .. n
  BY ListedIs
<1>3. [k \in DOMAIN q |-> lower_range(q[k])] \in [1 .. n -> Interval]
  BY <1>1, <1>2
<1>4. [k \in DOMAIN q |-> lower_range(q[k])] \in Seq(Interval)
  BY <1>3, IsASeq
<1> QED
  BY <1>4 DEF lower_constraint

LEMMA ShapeFields ==
  ASSUME NEW t
  PROVE  "fields" \in DOMAIN Shape(t) /\ "constraint" \in DOMAIN Shape(t)
<1>1. \A form, name, numbers : /\ "fields" \in DOMAIN Plain(form, name, numbers)
                               /\ "constraint" \in DOMAIN Plain(form, name, numbers)
  BY DEF Plain
<1> QED
  BY <1>1, Zenon DEF Shape

LEMMA UnlimitedType == Unlimited.kind = "None" /\ Unlimited.ranges = <<>> /\ <<>> \in Seq(Interval)
BY DEF Unlimited

LEMMA SyntaxLowered ==
  ASSUME NEW s, WrittenType(s)
  PROVE  LoweredType(lower_type_syntax(s))
<1> DEFINE inner == Innermost(s)
           limiting == {n \in 0 .. MaxNesting : Layers(s)[n].form = "Constrained"}
           fields == [k \in DOMAIN inner.fields |->
                        [name |-> inner.fields[k].name, type |-> FieldType(Innermost(inner.fields[k].syntax))]]
           constraint == IF limiting = {} THEN Unlimited
                         ELSE lower_constraint(Layers(s)[First(limiting)].constraint)
<1>1. lower_type_syntax(s).fields = fields /\ lower_type_syntax(s).constraint = constraint
  BY ShapeFields DEF lower_type_syntax
<1>2. Listed(inner.fields)
  <2>1. Layers(s)[MaxNesting] \in Within(s)
    BY LayersWithin, LoweringAssumption
  <2>2. Listed(Layers(s)[MaxNesting].fields)
    BY <2>1 DEF WrittenType
  <2>3. MissingSyntax.fields = <<>>
    BY DEF MissingSyntax, Plain
  <2>4. Listed(<<>>)
    BY DEF Listed
  <2> QED
    BY <2>2, <2>3, <2>4 DEF Innermost
<1>3. Listed(fields)
  <2>1. fields = [i \in DOMAIN fields |-> fields[i]] /\ DOMAIN fields = DOMAIN inner.fields
    OBVIOUS
  <2> HIDE DEF fields, inner
  <2> QED
    BY <1>2, <2>1, ListedMap
<1>4. /\ constraint.ranges \in Seq(Interval)
      /\ constraint.kind = "None" => constraint.ranges = <<>>
  <2>1. CASE limiting = {}
    BY <2>1, UnlimitedType
  <2>2. CASE limiting # {}
    <3> DEFINE n == First(limiting)
               t == Layers(s)[n]
    <3>1. limiting \in SUBSET Nat
      BY LoweringAssumption
    <3>2. n \in limiting
      <4> HIDE DEF limiting
      <4> QED
        BY <2>2, <3>1, FirstIs
    <3>3. n \in 0 .. MaxNesting /\ t.form = "Constrained"
      BY <3>2
    <3> HIDE DEF n
    <3>4. t \in Within(s)
      BY <3>3, LayersWithin
    <3>5. /\ t.constraint.kind \in {"Size", "Range"} /\ Listed(t.constraint.ranges)
          /\ \A r \in Elements(t.constraint.ranges) : r \in Seq(Bound \cup {AnyName}) /\ r # <<>>
      BY <3>3, <3>4 DEF WrittenType
    <3>6. constraint = lower_constraint(t.constraint)
      BY <2>2 DEF n
    <3> HIDE DEF t, constraint
    <3> QED
      BY <3>5, <3>6, ConstraintLowered
  <2> QED
    BY <2>1, <2>2
<1> QED
  BY <1>1, <1>3, <1>4 DEF LoweredType

\* The parts of DefType that the lowering of a definition does not leave to others.
Shaped(x) ==
  /\ {"module", "sort", "syntax", "typ", "sizes", "ranges", "enums", "bits", "defval", "default"}
       \subseteq DOMAIN x
  /\ LoweredType(x.syntax) /\ DefvalType(x.defval)

LEMMA PlainLowered ==
  ASSUME NEW form, NEW name, NEW numbers
  PROVE  LoweredType(Plain(form, name, numbers))
<1>1. Listed(<<>>)
  BY DEF Listed
<1>2. Plain(form, name, numbers).constraint = Unlimited /\ Plain(form, name, numbers).fields = <<>>
  BY DEF Plain
<1> QED
  BY <1>1, <1>2, UnlimitedType DEF LoweredType

LEMMA DefinitionShaped ==
  ASSUME NEW d, ParsedType(d), NEW sort
  PROVE  Shaped(Definition(d, sort))
<1> DEFINE v == d.defval
           w == [v EXCEPT !.k = "None"]
<1>1. {"k", "value"} \subseteq DOMAIN v
  BY DEF ParsedType, DefvalType
<1>2. DefvalType(w)
  BY <1>1 DEF DefvalType
<1>3. LoweredType(NoSyntax)
  BY PlainLowered DEF NoSyntax
<1>4. Definition(d, sort).syntax = NoSyntax /\ Definition(d, sort).defval = w
  BY DEF Definition
<1>5. {"module", "sort", "syntax", "typ", "sizes", "ranges", "enums", "bits", "defval", "default"}
        \subseteq DOMAIN Definition(d, sort)
  BY DEF Definition
<1> QED
  BY <1>2, <1>3, <1>4, <1>5 DEF Shaped

\* A default value stays one, whatever a lone name in it is taken for.
LEMMA DefvalLowered ==
  ASSUME NEW v, DefvalType(v)
  PROVE  DefvalType(lower_defval(v))
<1>1. /\ DOMAIN lower_defval(v) = DOMAIN v /\ lower_defval(v).value = v.value
      /\ lower_defval(v).k = CASE v.k = "Identifier" -> "Enum"
                               [] v.k = "ObjectIdentifier" -> "OidValue"
                               [] OTHER -> v.k
  BY DEF lower_defval, DefvalType
<1>2. lower_defval(v).k \in {"Int", "Uint"} => v.k \in {"Int", "Uint"}
  BY <1>1
<1> QED
  BY <1>1, <1>2 DEF DefvalType

LEMMA DefinitionLowered ==
  ASSUME NEW d, ParsedType(d), d.sort \notin {"MacroDefinition", "Error"}
  PROVE  Shaped(lower_definition(d))
<1>1. \A sort : /\ {"module", "sort", "syntax", "typ", "sizes", "ranges", "enums", "bits",
                    "defval", "default"} \subseteq DOMAIN Definition(d, sort)
                /\ LoweredType(Definition(d, sort).syntax) /\ DefvalType(Definition(d, sort).defval)
  BY DefinitionShaped DEF Shaped
<1>2. d.syntax # <<>> => LoweredType(lower_type_syntax(d.syntax[1]))
  <2> SUFFICES ASSUME d.syntax # <<>> PROVE WrittenType(d.syntax[1])
    BY SyntaxLowered
  <2> DEFINE q == d.syntax
  <2>1. Listed(q) /\ q # <<>>
    BY DEF ParsedType
  <2>2. PICK n \in Nat : DOMAIN q = 1 .. n /\ q = [i \in DOMAIN q |-> q[i]]
    BY <2>1, ListedIs
  <2>3. n # 0
    <3>1. ASSUME n = 0 PROVE FALSE
      <4>1. q \in [1 .. 0 -> Elements(q)]
        BY <2>2, <3>1
      <4>2. q \in Seq(Elements(q)) /\ Len(q) = 0
        BY <4>1, IsASeq, LenProperties
      <4> QED
        BY <2>1, <4>2, EmptySeq
    <3> QED
      BY <3>1
  <2>4. q[1] \in Elements(q)
    BY <2>2, <2>3 DEF Elements
  <2> QED
    BY <2>4 DEF ParsedType, SyntaxesIn
<1>3. DefvalType(lower_defval(d.defval))
  BY DefvalLowered DEF ParsedType
<1>4. LoweredType(MissingSyntax)
  BY PlainLowered DEF MissingSyntax
<1>5. d.sort = "ObjectType" => Shaped(lower_object_type(d))
  <2> DEFINE x == Definition(d, "ObjectType")
             y == IF d.syntax = <<>> THEN MissingSyntax ELSE lower_type_syntax(d.syntax[1])
  <2>1. /\ DOMAIN lower_object_type(d) = DOMAIN x
        /\ lower_object_type(d).syntax = y
        /\ lower_object_type(d).defval = lower_defval(d.defval)
    BY <1>1 DEF lower_object_type
  <2> QED
    BY <1>1, <1>2, <1>3, <1>4, <2>1 DEF Shaped
<1>6. Shaped(lower_notification_type(d)) /\ Shaped(lower_trap_type(d))
  BY <1>1 DEF lower_notification_type, lower_trap_type, Shaped
<1>7. d.sort = "TextualConvention" => Shaped(lower_textual_convention(d))
  <2>1. d.sort = "TextualConvention" => d.syntax # <<>>
    BY DEF ParsedType
  <2> QED
    BY <1>1, <1>2, <2>1 DEF lower_textual_convention, Shaped
<1>8. d.sort = "TypeAssignment" => Shaped(lower_type_assignment(d))
  <2>1. d.sort = "TypeAssignment" => d.syntax # <<>>
    BY DEF ParsedType
  <2> QED
    BY <1>1, <1>2, <2>1 DEF lower_type_assignment, Shaped
<1>9. Shaped(lower_group(d)) /\ Shaped(lower_module_compliance(d)) /\ Shaped(lower_agent_capabilities(d))
  BY <1>1 DEF lower_group, lower_module_compliance, lower_agent_capabilities, Shaped
<1>10. Shaped(Definition(d, d.sort)) /\ Shaped(lower_object_identity(d)) /\ Shaped(lower_value_assignment(d))
  BY <1>1 DEF lower_object_identity, lower_value_assignment, Shaped
<1>11. d.sort \in ParsedSorts \ {"MacroDefinition", "Error"}
  BY DEF ParsedType
<1> QED
  BY <1>5, <1>6, <1>7, <1>8, <1>9, <1>10, <1>11 DEF lower_definition, ParsedSorts

------------------------------------------------------------------------------
(* What a filter keeps, and what a list of lists holds. *)

Filtering(f, s, S, k) ==
  f = [i \in 0 .. k |-> IF i = 0 THEN <<>> ELSE IF s[i] \in S THEN Append(f[i - 1], s[i]) ELSE f[i - 1]]

LEMMA FilteringExists ==
  ASSUME NEW s, NEW S, NEW k \in Nat
  PROVE  \E f : Filtering(f, s, S, k)
<1> DEFINE N == {n \in Nat : \E f : Filtering(f, s, S, n)}
<1>1. 0 \in N
  <2> DEFINE f == [i \in 0 .. 0 |-> <<>>]
  <2>1. Filtering(f, s, S, 0)
    BY DEF Filtering
  <2> QED
    BY <2>1
<1>2. ASSUME NEW n \in Nat, n \in N PROVE n + 1 \in N
  <2>1. PICK g : Filtering(g, s, S, n)
    BY <1>2
  <2> DEFINE last == IF (n + 1) = 0 THEN <<>> ELSE IF s[(n + 1)] \in S THEN Append(g[(n + 1) - 1], s[(n + 1)]) ELSE g[(n + 1) - 1]
             f == [i \in 0 .. n + 1 |-> IF i = n + 1 THEN last ELSE g[i]]
  <2>2. \A i \in 0 .. n : g[i] = IF i = 0 THEN <<>> ELSE IF s[i] \in S THEN Append(g[i - 1], s[i]) ELSE g[i - 1]
    BY <2>1 DEF Filtering
  <2>3. \A i \in 0 .. n + 1 : f[i] = IF i = 0 THEN <<>> ELSE IF s[i] \in S THEN Append(f[i - 1], s[i]) ELSE f[i - 1]
    <3>1. TAKE i \in 0 .. n + 1
    <3>2. CASE i = n + 1
      <4>1. f[i] = last /\ i = n + 1 /\ (i # 0 => i - 1 = n /\ f[n] = g[n])
        BY <3>2
      <4> QED
        BY <4>1
    <3>3. CASE i # n + 1
      <4>1. i \in 0 .. n /\ f[i] = g[i]
        BY <3>3
      <4>2. i # 0 => i - 1 \in 0 .. n + 1 /\ i - 1 # n + 1 /\ f[i - 1] = g[i - 1]
        BY <3>3
      <4> QED
        BY <2>2, <4>1, <4>2
    <3> QED
      BY <3>2, <3>3
  <2>4. f = [i \in 0 .. n + 1 |-> IF i = 0 THEN <<>> ELSE IF s[i] \in S THEN Append(f[i - 1], s[i]) ELSE f[i - 1]]
    <3>1. f = [i \in 0 .. n + 1 |-> f[i]]
      OBVIOUS
    <3> HIDE DEF f
    <3> QED
      BY <2>3, <3>1
  <2>5. Filtering(f, s, S, n + 1)
    <3> HIDE DEF f
    <3> QED
      BY <2>4 DEF Filtering
  <2> QED
    BY <2>5
<1> QED
  <2> HIDE DEF N
  <2>1. k \in N
    BY <1>1, <1>2, Induction
  <2> QED
    BY <2>1 DEF N

LEMMA FilteredIs ==
  ASSUME NEW s, Len(s) \in Nat, NEW S
  PROVE  \E f : /\ f[0] = <<>> /\ Filtered(s, S) = f[Len(s)]
                /\ \A k \in 1 .. Len(s) :
                     f[k] = IF s[k] \in S THEN Append(f[k - 1], s[k]) ELSE f[k - 1]
<1> DEFINE g == CHOOSE f : Filtering(f, s, S, Len(s))
<1>1. Filtering(g, s, S, Len(s))
  BY FilteringExists
<1>2. Filtered(s, S) = g[Len(s)]
  BY DEF Filtered, Filtering
<1> HIDE DEF g
<1>3. \A i \in 0 .. Len(s) : g[i] = IF i = 0 THEN <<>>
                                    ELSE IF s[i] \in S THEN Append(g[i - 1], s[i]) ELSE g[i - 1]
  BY <1>1 DEF Filtering
<1>4. 0 \in 0 .. Len(s) /\ \A k \in 1 .. Len(s) : k \in 0 .. Len(s) /\ k # 0
  OBVIOUS
<1>5. /\ g[0] = <<>>
      /\ \A k \in 1 .. Len(s) : g[k] = IF s[k] \in S THEN Append(g[k - 1], s[k]) ELSE g[k - 1]
  BY <1>3, <1>4, Zenon
<1> QED
  BY <1>2, <1>5

\* It keeps members of the set, and all of them where nothing else is in the list.
LEMMA FilteredKeeps ==
  ASSUME NEW s, Listed(s), NEW S
  PROVE  /\ Filtered(s, S) \in Seq(Elements(s) \cap S)
         /\ Elements(s) \subseteq S => Filtered(s, S) = s
<1> DEFINE T == Elements(s) \cap S
<1>1. s \in Seq(Elements(s)) /\ Len(s) \in Nat /\ \A k \in 1 .. Len(s) : s[k] \in Elements(s)
  BY DEF Listed
<1>2. PICK f : /\ f[0] = <<>> /\ Filtered(s, S) = f[Len(s)]
               /\ \A k \in 1 .. Len(s) : f[k] = IF s[k] \in S THEN Append(f[k - 1], s[k]) ELSE f[k - 1]
  BY <1>1, FilteredIs
<1> HIDE DEF T
<1> DEFINE A == {k \in Nat : k <= Len(s) => f[k] \in Seq(T)}
           B == {k \in Nat : k <= Len(s) => /\ f[k] \in Seq(Elements(s)) /\ Len(f[k]) = k
                                            /\ \A i \in 1 .. k : f[k][i] = s[i]}
<1>3. 0 \in A
  <2>1. <<>> \in Seq(T)
    BY EmptySeq
  <2> QED
    BY <1>2, <2>1
<1>4. ASSUME NEW k \in Nat, k \in A PROVE k + 1 \in A
  <2> SUFFICES ASSUME k + 1 <= Len(s) PROVE f[k + 1] \in Seq(T)
    OBVIOUS
  <2>1. k + 1 \in 1 .. Len(s) /\ (k + 1) - 1 = k /\ f[k] \in Seq(T)
    BY <1>1, <1>4
  <2>2. f[k + 1] = IF s[k + 1] \in S THEN Append(f[k], s[k + 1]) ELSE f[k]
    BY <1>2, <2>1
  <2>3. s[k + 1] \in S => s[k + 1] \in T
    BY <1>1, <2>1 DEF T
  <2>4. s[k + 1] \in S => Append(f[k], s[k + 1]) \in Seq(T)
    BY <2>1, <2>3, AppendProperties
  <2> QED
    BY <2>1, <2>2, <2>4
<1>5. Filtered(s, S) \in Seq(T)
  <2> HIDE DEF A
  <2>1. Len(s) \in A
    BY <1>1, <1>3, <1>4, Induction
  <2> QED
    BY <1>1, <1>2, <2>1 DEF A
<1>6. ASSUME Elements(s) \subseteq S PROVE Filtered(s, S) = s
  <2>1. 0 \in B
    <3>1. <<>> \in Seq(Elements(s)) /\ Len(<<>>) = 0 /\ 1 .. 0 = {}
      BY EmptySeq
    <3> QED
      BY <1>2, <3>1
  <2>2. ASSUME NEW k \in Nat, k \in B PROVE k + 1 \in B
    <3> SUFFICES ASSUME k + 1 <= Len(s)
                 PROVE  /\ f[k + 1] \in Seq(Elements(s)) /\ Len(f[k + 1]) = k + 1
                        /\ \A i \in 1 .. k + 1 : f[k + 1][i] = s[i]
      OBVIOUS
    <3>1. /\ k + 1 \in 1 .. Len(s) /\ (k + 1) - 1 = k
          /\ f[k] \in Seq(Elements(s)) /\ Len(f[k]) = k /\ \A i \in 1 .. k : f[k][i] = s[i]
      BY <1>1, <2>2
    <3>2. s[k + 1] \in Elements(s) /\ f[k + 1] = Append(f[k], s[k + 1])
      BY <1>1, <1>2, <1>6, <3>1
    <3> DEFINE g == f[k]
               e == s[k + 1]
               E == Elements(s)
    <3>3. g \in Seq(E) /\ e \in E /\ Len(g) = k
      BY <3>1, <3>2
    <3>4. /\ Append(g, e) \in Seq(E) /\ Len(Append(g, e)) = k + 1
          /\ \A i \in 1 .. k : Append(g, e)[i] = g[i]
          /\ Append(g, e)[k + 1] = e
      <4> HIDE DEF g, e, E
      <4> QED
        BY <3>3, AppendProperties
    <3> QED
      BY <3>1, <3>2, <3>4
  <2>3. Len(s) \in B
    <3> HIDE DEF B
    <3> QED
      BY <1>1, <2>1, <2>2, Induction
  <2>4. /\ f[Len(s)] \in Seq(Elements(s)) /\ Len(f[Len(s)]) = Len(s)
        /\ \A i \in 1 .. Len(s) : f[Len(s)][i] = s[i]
    BY <1>1, <2>3
  <2> QED
    BY <1>1, <1>2, <2>4, SeqEqual
<1> QED
  BY <1>5, <1>6 DEF T

Flattening(f, seqs, k) ==
  f = [i \in 1 .. k |-> IF i = 1 THEN seqs[i] ELSE f[i - 1] \o seqs[i]]

LEMMA FlatteningExists ==
  ASSUME NEW seqs, NEW k \in Nat
  PROVE  \E f : Flattening(f, seqs, k)
<1> DEFINE S == {n \in Nat : \E f : Flattening(f, seqs, n)}
<1>1. 0 \in S
  <2> DEFINE f == [i \in 1 .. 0 |-> <<>>]
  <2>1. Flattening(f, seqs, 0)
    BY DEF Flattening
  <2> QED
    BY <2>1
<1>2. ASSUME NEW n \in Nat, n \in S PROVE n + 1 \in S
  <2>1. PICK g : Flattening(g, seqs, n)
    BY <1>2
  <2> DEFINE last == IF (n + 1) = 1 THEN seqs[(n + 1)] ELSE g[(n + 1) - 1] \o seqs[(n + 1)]
             f == [i \in 1 .. n + 1 |-> IF i = n + 1 THEN last ELSE g[i]]
  <2>2. \A i \in 1 .. n : g[i] = IF i = 1 THEN seqs[i] ELSE g[i - 1] \o seqs[i]
    BY <2>1 DEF Flattening
  <2>3. \A i \in 1 .. n + 1 : f[i] = IF i = 1 THEN seqs[i] ELSE f[i - 1] \o seqs[i]
    <3>1. TAKE i \in 1 .. n + 1
    <3>2. CASE i = n + 1
      <4>1. f[i] = last /\ i = n + 1 /\ (i # 1 => i - 1 = n /\ f[n] = g[n])
        BY <3>2
      <4> QED
        BY <4>1
    <3>3. CASE i # n + 1
      <4>1. i \in 1 .. n /\ f[i] = g[i]
        BY <3>3
      <4>2. i # 1 => i - 1 \in 1 .. n + 1 /\ i - 1 # n + 1 /\ f[i - 1] = g[i - 1]
        BY <3>3
      <4> QED
        BY <2>2, <4>1, <4>2
    <3> QED
      BY <3>2, <3>3
  <2>4. f = [i \in 1 .. n + 1 |-> IF i = 1 THEN seqs[i] ELSE f[i - 1] \o seqs[i]]
    <3>1. f = [i \in 1 .. n + 1 |-> f[i]]
      OBVIOUS
    <3> HIDE DEF f
    <3> QED
      BY <2>3, <3>1
  <2>5. Flattening(f, seqs, n + 1)
    <3> HIDE DEF f
    <3> QED
      BY <2>4 DEF Flattening
  <2> QED
    BY <2>5
<1> QED
  <2> HIDE DEF S
  <2>1. k \in S
    BY <1>1, <1>2, Induction
  <2> QED
    BY <2>1 DEF S

LEMMA FlattenType ==
  ASSUME NEW T, NEW n \in Nat, NEW seqs, seqs \in [1 .. n -> Seq(T)]
  PROVE  Seqs!FlattenSeq(seqs) \in Seq(T)
<1>1. seqs \in Seq(Seq(T)) /\ Len(seqs) = n
  BY IsASeq, LenProperties
<1>2. CASE n = 0
  <2>1. seqs = <<>>
    BY <1>1, <1>2, EmptySeq
  <2>2. Seqs!FlattenSeq(seqs) = seqs
    BY <1>1, <1>2 DEF Seqs!FlattenSeq
  <2> QED
    BY <2>1, <2>2, EmptySeq
<1>3. CASE n # 0
  <2> DEFINE g == CHOOSE f : Flattening(f, seqs, n)
  <2>1. Flattening(g, seqs, n)
    BY FlatteningExists
  <2>2. Seqs!FlattenSeq(seqs) = g[n]
    BY <1>1, <1>3 DEF Seqs!FlattenSeq, Flattening
  <2> HIDE DEF g
  <2>3. \A i \in 1 .. n : g[i] = IF i = 1 THEN seqs[i] ELSE g[i - 1] \o seqs[i]
    BY <2>1 DEF Flattening
  <2> DEFINE A == {k \in Nat : k \in 1 .. n => g[k] \in Seq(T)}
  <2>4. 0 \in A
    OBVIOUS
  <2>5. ASSUME NEW k \in Nat, k \in A PROVE k + 1 \in A
    <3> SUFFICES ASSUME k + 1 \in 1 .. n PROVE g[k + 1] \in Seq(T)
      OBVIOUS
    <3>1. seqs[k + 1] \in Seq(T)
      OBVIOUS
    <3>2. CASE k = 0
      BY <2>3, <3>1, <3>2
    <3>3. CASE k # 0
      <4>1. k \in 1 .. n /\ (k + 1) - 1 = k /\ k + 1 # 1
        BY <3>3
      <4>2. g[k + 1] = g[k] \o seqs[k + 1] /\ g[k] \in Seq(T)
        BY <2>3, <2>5, <4>1
      <4> QED
        BY <3>1, <4>2, ConcatProperties
    <3> QED
      BY <3>2, <3>3
  <2> HIDE DEF A
  <2>6. n \in A
    BY <2>4, <2>5, Induction
  <2> QED
    BY <1>3, <2>2, <2>6 DEF A
<1> QED
  BY <1>2, <1>3

LEMMA LoweredDefsType ==
  ASSUME NEW body, Listed(body), \A d \in Elements(body) : ParsedType(d), NEW modules, NEW m \in modules
  PROVE  /\ Listed(LoweredDefs(body, m))
         /\ \A x \in Elements(LoweredDefs(body, m)) : DefType(x, modules)
<1> DEFINE S == {d \in Elements(body) : d.sort \notin {"MacroDefinition", "Error"}}
           kept == Kept(body)
           lowered == LoweredDefs(body, m)
<1>1. kept \in Seq(Elements(body) \cap S)
  BY FilteredKeeps DEF Kept
<1>2. \A k \in DOMAIN kept : kept[k] \in S
  <2> HIDE DEF kept, S
  <2> QED
    BY <1>1
<1> HIDE DEF kept
<1>3. lowered = [k \in DOMAIN kept |-> [lower_definition(kept[k]) EXCEPT !.module = m]]
  BY DEF LoweredDefs, kept
<1>4. Listed(kept)
  <2> DEFINE E == Elements(body) \cap S
  <2>1. kept \in Seq(E)
    BY <1>1
  <2> HIDE DEF E
  <2>2. kept = [i \in DOMAIN kept |-> kept[i]] /\ DOMAIN kept = 1 .. Len(kept) /\ Len(kept) \in Nat
    BY <2>1
  <2> QED
    BY <2>2, ListedIs
<1>5. Listed(lowered)
  <2>1. lowered = [i \in DOMAIN lowered |-> lowered[i]] /\ DOMAIN lowered = DOMAIN kept
    BY <1>3
  <2> HIDE DEF lowered
  <2> QED
    BY <1>4, <2>1, ListedMap
<1>6. ASSUME NEW k \in DOMAIN kept
      PROVE  DefType([lower_definition(kept[k]) EXCEPT !.module = m], modules)
  <2>1. Shaped(lower_definition(kept[k]))
    BY <1>2, DefinitionLowered
  <2> DEFINE x == lower_definition(kept[k])
  <2> HIDE DEF x
  <2>2. Shaped(x)
    BY <2>1 DEF x
  <2>3. DefType([x EXCEPT !.module = m], modules)
    BY <2>2 DEF Shaped, DefType
  <2> QED
    BY <2>3 DEF x
<1> QED
  BY <1>3, <1>5, <1>6 DEF Elements

LEMMA LowerType ==
  ASSUME MibType(mib), NEW parsed, Listed(parsed), DOMAIN parsed = DOMAIN mib.modules,
         \A module \in Elements(parsed) :
           Listed(module.body) /\ \A d \in Elements(module.body) : ParsedType(d)
  PROVE  MibType(lower(parsed))
<1> DEFINE w == lower(parsed)
           modules == DOMAIN mib.modules
           types == DOMAIN mib.types
           lists == [m \in DOMAIN parsed |-> LoweredDefs(parsed[m].body, m)]
           T == UNION {Elements(LoweredDefs(parsed[m].body, m)) : m \in DOMAIN parsed}
<1>1. \A m \in DOMAIN parsed : /\ Listed(parsed[m].body)
                               /\ \A d \in Elements(parsed[m].body) : ParsedType(d)
  BY DEF Elements
<1>2. \A m \in DOMAIN parsed : Listed(LoweredDefs(parsed[m].body, m))
  BY <1>1, LoweredDefsType
<1>3. \A x \in T : DefType(x, modules)
  BY <1>1, LoweredDefsType
<1>4. PICK n \in Nat : DOMAIN parsed = 1 .. n
  BY ListedIs
<1>5. lists \in [1 .. n -> Seq(T)]
  <2>1. ASSUME NEW m \in DOMAIN parsed PROVE LoweredDefs(parsed[m].body, m) \in Seq(T)
    <3> DEFINE q == LoweredDefs(parsed[m].body, m)
    <3>1. Listed(q)
      BY <1>2
    <3>2. Elements(q) \subseteq T
      OBVIOUS
    <3> HIDE DEF q, T
    <3>3. PICK k \in Nat : DOMAIN q = 1 .. k /\ q = [i \in DOMAIN q |-> q[i]]
      BY <3>1, ListedIs
    <3>4. q \in [1 .. k -> T]
      BY <3>2, <3>3 DEF Elements
    <3>5. q \in Seq(T)
      BY <3>4, IsASeq
    <3> QED
      BY <3>5 DEF q
  <2> QED
    BY <1>4, <2>1
<1>6. Seqs!FlattenSeq(lists) \in Seq(T)
  <2> HIDE DEF lists, T
  <2> QED
    BY <1>5, FlattenType
<1>7. {"modules", "defs", "tree", "types", "fallbackTypes"} \subseteq DOMAIN mib
  BY DEF MibType
<1>8. /\ DOMAIN w = DOMAIN mib
      /\ w.defs = Seqs!FlattenSeq(lists) /\ w.tree = mib.tree /\ w.types = mib.types
      /\ w.fallbackTypes = mib.fallbackTypes
      /\ w.modules = [m \in DOMAIN parsed |->
           [mib.modules[m] EXCEPT !.name = parsed[m].name,
                                  !.language = detect_language(parsed[m]),
                                  !.base = is_base_module(parsed[m].name),
                                  !.symbols = lower_imports(parsed[m].imports)]]
  BY <1>7 DEF lower
<1> HIDE DEF w, lists, T
<1>9. \A m \in DOMAIN w.modules : ModuleType(w.modules[m], modules, types)
  <2> SUFFICES ASSUME NEW m \in modules PROVE ModuleType(w.modules[m], modules, types)
    BY <1>8
  <2> DEFINE x == mib.modules[m]
  <2>1. ModuleType(x, modules, types)
    BY DEF MibType
  <2> HIDE DEF x
  <2> DEFINE a == parsed[m].name
             b == detect_language(parsed[m])
             c == is_base_module(parsed[m].name)
             e == lower_imports(parsed[m].imports)
  <2>2. w.modules[m] = [x EXCEPT !.name = a, !.language = b, !.base = c, !.symbols = e]
    BY <1>8 DEF x
  <2> HIDE DEF a, b, c, e
  <2> DEFINE y == [x EXCEPT !.name = a, !.language = b, !.base = c, !.symbols = e]
  <2>3. DOMAIN y = DOMAIN x /\ y.types = x.types /\ y.imports = x.imports
    BY <2>1 DEF ModuleType
  <2> HIDE DEF y
  <2>4. ModuleType(y, modules, types)
    BY <2>1, <2>3 DEF ModuleType
  <2> QED
    BY <2>2, <2>4 DEF y
<1>10. Listed(w.defs) /\ \A d \in DOMAIN w.defs : DefType(w.defs[d], modules)
  <2> DEFINE q == w.defs
  <2>1. q \in Seq(T)
    BY <1>6, <1>8
  <2> HIDE DEF q
  <2>2. /\ q = [i \in DOMAIN q |-> q[i]] /\ DOMAIN q = 1 .. Len(q) /\ Len(q) \in Nat
        /\ \A i \in DOMAIN q : q[i] \in T
    BY <2>1
  <2>3. Listed(q) /\ \A d \in DOMAIN q : DefType(q[d], modules)
    BY <1>3, <2>2, ListedIs
  <2> QED
    BY <2>3 DEF q
<1>11. DOMAIN w.modules = modules /\ Listed(w.modules)
  <2> DEFINE q == w.modules
  <2>1. DOMAIN q = DOMAIN parsed /\ q = [i \in DOMAIN q |-> q[i]]
    BY <1>8
  <2> HIDE DEF q
  <2>2. Listed(q)
    BY <2>1, ListedMap
  <2> QED
    BY <2>1, <2>2 DEF q
<1> QED
  BY <1>7, <1>8, <1>9, <1>10, <1>11 DEF MibType, w

------------------------------------------------------------------------------
(* Numbers, bounds and what is left of a constraint. *)

Upto(b, v) == b = Num(v) \/ Less(b, Num(v))
From(b, v) == b = Num(v) \/ Less(Num(v), b)

\* A bound that is no text is MIN, MAX or a number, and compares as such.
LEMMA BoundKinds ==
  ASSUME NEW b \in Bound, b.k # "Raw"
  PROVE  b = MIN \/ b = MAX \/ \E i \in Int : b = Num(i)
<1>1. Raw.k = "Raw"
  BY DEF Raw
<1>2. CASE b \in [k : {"Num"}, n : Int]
  <2>1. b = [k |-> "Num", n |-> b.n] /\ b.n \in Int
    BY <1>2
  <2> QED
    BY <2>1 DEF Num
<1> QED
  BY <1>1, <1>2 DEF Bound

LEMMA NumLess ==
  /\ \A i, j \in Int : Less(Num(i), Num(j)) <=> i < j
  /\ \A i, j \in Int : Num(i) = Num(j) <=> i = j
  /\ \A i \in Int : Less(MIN, Num(i)) /\ Less(Num(i), MAX) /\ ~ Less(MAX, Num(i)) /\ ~ Less(Num(i), MIN)
  /\ \A i \in Int : Num(i) # MIN /\ Num(i) # MAX /\ Num(i).k = "Num"
  /\ MIN # MAX /\ Less(MIN, MAX) /\ ~ Less(MAX, MIN) /\ MIN.k = "MIN" /\ MAX.k = "MAX"
  /\ \A b : ~ Less(b, b)
<1>1. /\ \A i : Num(i).k = "Num" /\ Num(i).n = i
      /\ MIN.k = "MIN" /\ MAX.k = "MAX" /\ Raw.k = "Raw"
  BY DEF Num, MIN, MAX, Raw
<1>2. \A i, j \in Int : Num(i) = Num(j) <=> i = j
  BY <1>1
<1>3. \A i : Num(i) # MIN /\ Num(i) # MAX
  BY <1>1
<1>4. MIN # MAX
  BY <1>1
<1> HIDE DEF Num, MIN, MAX, Raw
<1> QED
  BY <1>1, <1>2, <1>3, <1>4 DEF Less, Comparable

LEMMA UptoIs ==
  ASSUME NEW v \in Int
  PROVE  /\ Upto(MIN, v) /\ ~ Upto(MAX, v) /\ \A i \in Int : Upto(Num(i), v) <=> i <= v
         /\ From(MAX, v) /\ ~ From(MIN, v) /\ \A i \in Int : From(Num(i), v) <=> v <= i
BY NumLess DEF Upto, From

\* Of two bounds the one that counts says what both say.
LEMMA GreatestBinds ==
  ASSUME NEW l \in Bound, NEW r \in Bound, NEW v \in Int, Greatest(l, r).k # "Raw",
         Upto(Greatest(l, r), v)
  PROVE  Upto(l, v) /\ Upto(r, v)
<1>1. l.k # "Raw" /\ r.k # "Raw"
  BY DEF Greatest, Comparable
<1>2. Greatest(l, r) = IF Less(l, r) THEN r ELSE l
  BY <1>1 DEF Greatest, Comparable
<1>3. l = MIN \/ l = MAX \/ \E i \in Int : l = Num(i)
  BY <1>1, BoundKinds
<1>4. r = MIN \/ r = MAX \/ \E i \in Int : r = Num(i)
  BY <1>1, BoundKinds
<1>5. CASE l = MIN
  BY <1>2, <1>4, <1>5, NumLess, UptoIs
<1>6. CASE l = MAX
  BY <1>2, <1>4, <1>6, NumLess, UptoIs
<1>7. CASE \E i \in Int : l = Num(i)
  <2>1. PICK i \in Int : l = Num(i)
    BY <1>7
  <2>2. CASE r \in {MIN, MAX}
    BY <1>2, <2>1, <2>2, NumLess, UptoIs
  <2>3. CASE \E j \in Int : r = Num(j)
    <3>1. PICK j \in Int : r = Num(j)
      BY <2>3
    <3>2. (Less(l, r) <=> i < j) /\ (Upto(l, v) <=> i <= v) /\ (Upto(r, v) <=> j <= v)
      BY <2>1, <3>1, NumLess, UptoIs
    <3>3. CASE i < j
      <4>1. j <= v /\ i <= v
        BY <1>2, <3>2, <3>3
      <4> QED
        BY <3>2, <4>1
    <3>4. CASE ~ (i < j)
      <4>1. i <= v /\ j <= v
        BY <1>2, <3>2, <3>4
      <4> QED
        BY <3>2, <4>1
    <3> QED
      BY <3>3, <3>4
  <2> QED
    BY <1>4, <2>2, <2>3
<1> QED
  BY <1>3, <1>5, <1>6, <1>7

LEMMA LeastBinds ==
  ASSUME NEW l \in Bound, NEW r \in Bound, NEW v \in Int, Least(l, r).k # "Raw",
         From(Least(l, r), v)
  PROVE  From(l, v) /\ From(r, v)
<1>1. l.k # "Raw" /\ r.k # "Raw"
  BY DEF Least, Comparable
<1>2. Least(l, r) = IF Less(r, l) THEN r ELSE l
  BY <1>1 DEF Least, Comparable
<1>3. l = MIN \/ l = MAX \/ \E i \in Int : l = Num(i)
  BY <1>1, BoundKinds
<1>4. r = MIN \/ r = MAX \/ \E i \in Int : r = Num(i)
  BY <1>1, BoundKinds
<1>5. CASE l = MIN
  BY <1>2, <1>4, <1>5, NumLess, UptoIs
<1>6. CASE l = MAX
  BY <1>2, <1>4, <1>6, NumLess, UptoIs
<1>7. CASE \E i \in Int : l = Num(i)
  <2>1. PICK i \in Int : l = Num(i)
    BY <1>7
  <2>2. CASE r \in {MIN, MAX}
    BY <1>2, <2>1, <2>2, NumLess, UptoIs
  <2>3. CASE \E j \in Int : r = Num(j)
    <3>1. PICK j \in Int : r = Num(j)
      BY <2>3
    <3>2. (Less(r, l) <=> j < i) /\ (From(l, v) <=> v <= i) /\ (From(r, v) <=> v <= j)
      BY <2>1, <3>1, NumLess, UptoIs
    <3>3. CASE j < i
      <4>1. v <= j /\ v <= i
        BY <1>2, <3>2, <3>3
      <4> QED
        BY <3>2, <4>1
    <3>4. CASE ~ (j < i)
      <4>1. v <= i /\ v <= j
        BY <1>2, <3>2, <3>4
      <4> QED
        BY <3>2, <4>1
    <3> QED
      BY <3>3, <3>4
  <2> QED
    BY <1>4, <2>2, <2>3
<1> QED
  BY <1>3, <1>5, <1>6, <1>7

LEMMA MeetWithin ==
  ASSUME NEW c \in Interval, NEW p \in Interval, NEW v \in Int,
         Meet(c, p).min.k # "Raw", Meet(c, p).max.k # "Raw", Contains(Meet(c, p), v)
  PROVE  /\ Contains(p, v)
         /\ c.min.k \in {"Num", "MIN"} /\ c.max.k \in {"Num", "MAX"} => Contains(c, v)
<1>1. /\ Meet(c, p).min = Greatest(Lower(c, p), p.min)
      /\ Meet(c, p).max = Least(Upper(c, p), p.max)
  BY DEF Meet
<1>2. c.min \in Bound /\ c.max \in Bound /\ p.min \in Bound /\ p.max \in Bound
  BY DEF Interval
<1>3. Lower(c, p) \in Bound /\ Upper(c, p) \in Bound
  BY <1>2 DEF Lower, Upper
<1>4. Upto(Greatest(Lower(c, p), p.min), v) /\ From(Least(Upper(c, p), p.max), v)
  BY <1>1 DEF Contains, Upto, From
<1>5. Upto(Lower(c, p), v) /\ Upto(p.min, v)
  BY <1>1, <1>2, <1>3, <1>4, GreatestBinds
<1>6. From(Upper(c, p), v) /\ From(p.max, v)
  BY <1>1, <1>2, <1>3, <1>4, LeastBinds
<1>7. Contains(p, v)
  BY <1>5, <1>6 DEF Contains, Upto, From
<1>8. ASSUME c.min.k \in {"Num", "MIN"}, c.max.k \in {"Num", "MAX"}
      PROVE  Contains(c, v)
  <2>1. c.min # MAX /\ c.max # MIN
    BY <1>8, NumLess
  <2>2. Upto(c.min, v)
    BY <1>5, <2>1, UptoIs DEF Lower
  <2>3. From(c.max, v)
    BY <1>6, <2>1, UptoIs DEF Upper
  <2> QED
    BY <2>2, <2>3 DEF Contains, Upto, From
<1> QED
  BY <1>7, <1>8

\* What is left of a constraint is within what it is narrowed by, and within itself.
LEMMA NarrowAllows ==
  ASSUME NEW own \in SUBSET Interval, NEW parent, parent.values \in SUBSET Interval, NEW v \in Int,
         Resolved(Narrow(own, parent).values), Allows(Narrow(own, parent).values, v)
  PROVE  /\ parent.present => Allows(parent.values, v)
         /\ (\A r \in own : r.min.k \in {"Num", "MIN"} /\ r.max.k \in {"Num", "MAX"}) => Allows(own, v)
<1>1. CASE ~ parent.present
  <2>1. Narrow(own, parent).values = own
    BY <1>1 DEF Narrow, Constrained
  <2> QED
    BY <1>1, <2>1
<1>2. CASE parent.present
  <2>1. parent.values # {}
    <3>1. parent.values = {} => Narrow(own, parent).values = {}
      BY <1>2 DEF Narrow, Constrained
    <3> QED
      BY <3>1 DEF Allows
  <2>2. Narrow(own, parent).values = Intersect(own, parent.values)
    BY <1>2, <2>1 DEF Narrow, Constrained
  <2>3. own # {}
    BY <2>2 DEF Intersect, Allows
  <2>4. PICK r \in Intersect(own, parent.values) : Contains(r, v)
    BY <2>2 DEF Allows
  <2>5. PICK c \in own, p \in parent.values : r = Meet(c, p)
    <3>1. \E cp \in own \X parent.values : r = Meet(cp[1], cp[2])
      BY <2>1, <2>3, <2>4 DEF Intersect
    <3> QED
      BY <3>1
  <2>6. r.min.k # "Raw" /\ r.max.k # "Raw"
    BY <2>2, <2>4 DEF Resolved
  <2>7. c \in Interval /\ p \in Interval
    OBVIOUS
  <2>8. /\ Contains(p, v)
        /\ c.min.k \in {"Num", "MIN"} /\ c.max.k \in {"Num", "MAX"} => Contains(c, v)
    BY <2>4, <2>5, <2>6, <2>7, MeetWithin
  <2> QED
    BY <2>8 DEF Allows
<1> QED
  BY <1>1, <1>2

------------------------------------------------------------------------------
(* The resolution of the values of objects *)

\* A number comes from a number.
LEMMA UnsetIs == Unset.k = "Unset" /\ {"k", "value", "label", "labels", "bytes", "oid"} = DOMAIN Unset
BY Zenon DEF Unset

LEMMA ConvertedNumber ==
  ASSUME NEW m, NEW v, DefvalType(v), NEW t, convert_defval(m, v, t).k \in {"Int", "Uint"}
  PROVE  convert_defval(m, v, t).value \in Int
<1>1. \A kind : [Unset EXCEPT !.k = kind].k = kind
  BY UnsetIs
<1>2. CASE v.k \in {"Int", "Uint"}
  <2>1. convert_defval(m, v, t) = [Unset EXCEPT !.k = v.k, !.value = v.value]
    BY <1>2 DEF convert_defval, NamesNode
  <2>2. convert_defval(m, v, t).value = v.value
    BY <2>1, UnsetIs
  <2> QED
    BY <1>2, <2>2 DEF DefvalType
<1>3. CASE v.k \notin {"Int", "Uint"}
  <2>1. /\ \A oid : AsOid(oid).k = "Oid"
        /\ \A bytes : AsBytes(bytes).k = "Bytes"
        /\ \A labels : [Unset EXCEPT !.k = "Bits", !.labels = labels].k = "Bits"
        /\ \A label : [Unset EXCEPT !.k = "Enum", !.label = label].k = "Enum"
    BY UnsetIs DEF AsOid, AsBytes
  <2> DEFINE Kinds == {"Unset", "None", "String", "Bytes", "Bits", "Oid", "Enum"}
  <2>2. CASE v.k = "None"
    BY <1>1, <2>2 DEF convert_defval, NamesNode
  <2>3. CASE v.k = "String"
    BY <1>1, <2>3 DEF convert_defval, NamesNode
  <2>4. CASE v.k = "Hex"
    BY <2>1, <2>4, UnsetIs DEF convert_defval, NamesNode
  <2>5. CASE v.k = "Binary"
    BY <2>1, <2>5 DEF convert_defval, NamesNode
  <2>6. CASE v.k = "Bits"
    BY <2>1, <2>6 DEF convert_defval, NamesNode
  <2>7. CASE v.k = "Enum"
    BY <2>1, <2>7 DEF convert_defval
  <2>8. CASE v.k \notin {"None", "Int", "Uint", "String", "Hex", "Binary", "Bits", "Enum"}
    BY <1>3, <2>1, <2>8, UnsetIs DEF convert_defval
  <2> QED
    BY <2>2, <2>3, <2>4, <2>5, <2>6, <2>7, <2>8, <1>3
<1> QED
  BY <1>2, <1>3

\* A type that a name stands for is one of the model's.
LEMMA ScopeTypeIs ==
  ASSUME MibType(mib), NEW m \in DOMAIN mib.modules, NEW n
  PROVE  ScopeType(m, n) \in DOMAIN mib.types \cup {NoType}
<1> DEFINE modules == DOMAIN mib.modules
           types == DOMAIN mib.types
<1>1. ASSUME NEW o \in modules PROVE SymbolType(o, n) \in types \cup {NoType}
  <2>1. Elements(mib.modules[o].types) \subseteq types
    BY DEF MibType, ModuleType
  <2> QED
    BY <2>1 DEF SymbolType, At, Elements
<1>2. At(mib.fallbackTypes, n, NoType) \in types \cup {NoType}
  <2>1. Elements(mib.fallbackTypes) \subseteq types
    BY DEF MibType
  <2> QED
    BY <2>1 DEF At, Elements
<1>3. modules \in SUBSET Nat
  BY ListedIs DEF MibType
<1>4. ImportedFrom(m, n) \subseteq modules
  <2>1. Elements(mib.modules[m].imports) \subseteq modules
    BY DEF MibType, ModuleType
  <2> QED
    BY <2>1 DEF ImportedFrom, Elements
<1> DEFINE having == {s \in ImportedFrom(m, n) : SymbolType(s, n) # NoType}
<1>5. having # {} => First(having) \in modules
  <2>1. having \in SUBSET Nat
    BY <1>3, <1>4
  <2>2. having \subseteq modules
    BY <1>4
  <2> HIDE DEF having
  <2> QED
    BY <2>1, <2>2, FirstIs
<1> QED
  BY <1>1, <1>2, <1>5 DEF ScopeType

\* A numeric default that what is left of its ranges allows, the type of the object and
\* the constraint that is written allow too.
Narrowed(w, d) ==
  LET def == w.defs[d]
      written == def.syntax.constraint
      proper(r) == r.min.k \in {"Num", "MIN"} /\ r.max.k \in {"Num", "MAX"}
      inherited == w.types[def.typ].ranges
  IN /\ def.sort = "ObjectType" /\ def.typ # NoType /\ def.default.k \in {"Int", "Uint"}
     /\ Resolved(def.ranges.values)
     /\ def.ranges.present => Allows(def.ranges.values, def.default.value)
     => /\ inherited.present => Allows(inherited.values, def.default.value)
        /\ written.kind = "Range" /\ (\A r \in Elements(written.ranges) : proper(r))
             => Allows(Elements(written.ranges), def.default.value)

LEMMA BaseConstraintType ==
  ASSUME NEW base, NEW isSize
  PROVE  BaseConstraint(base, isSize) \subseteq Interval
<1>1. \A i, j \in Int : Between(i, j) \in Interval
  BY DEF Between, Interval, Bound, Num
<1>2. {IntMin, IntMax, UIntMax, UInt64Max, SizeMax} \subseteq Int
  BY RangesAssumption
<1>3. {Between(0, SizeMax), Between(IntMin, IntMax), Between(0, UIntMax), Between(0, UInt64Max)}
        \subseteq Interval
  BY <1>1, <1>2
<1>4. BaseConstraint(base, isSize) \in
        {{Between(0, SizeMax)}, {Between(IntMin, IntMax)}, {Between(0, UIntMax)},
         {Between(0, UInt64Max)}, {}}
  BY DEF BaseConstraint
<1> QED
  BY <1>3, <1>4

LEMMA ResolvedNarrowed ==
  ASSUME MibType(mib), NEW d \in DOMAIN mib.defs, Def(d).sort = "ObjectType",
         NEW x, x = ResolvedObject(d), x.typ # NoType, x.default.k \in {"Int", "Uint"},
         Resolved(x.ranges.values), x.ranges.present => Allows(x.ranges.values, x.default.value)
  PROVE  /\ mib.types[x.typ].ranges.present => Allows(mib.types[x.typ].ranges.values, x.default.value)
         /\ /\ x.syntax.constraint.kind = "Range"
            /\ \A r \in Elements(x.syntax.constraint.ranges) :
                 r.min.k \in {"Num", "MIN"} /\ r.max.k \in {"Num", "MAX"}
            => Allows(Elements(x.syntax.constraint.ranges), x.default.value)
<1> DEFINE m == Def(d).module
           s == Def(d).syntax
           t == SyntaxType(m, s)
           v == x.default.value
           own == Elements(s.constraint.ranges)
           inherited == mib.types[t].ranges
<1>1. DefType(Def(d), DOMAIN mib.modules)
  BY DEF MibType, Def
<1>2. /\ x.typ = t /\ x.ranges = Effectively(s, t, "Range") /\ x.syntax = s
      /\ x.default = convert_defval(m, Def(d).defval, t)
  <2> DEFINE y == Def(d)
  <2> HIDE DEF y
  <2>1. {"module", "sort", "syntax", "typ", "sizes", "ranges", "enums", "bits", "defval", "default"}
          \subseteq DOMAIN y
    BY <1>1 DEF DefType, y
  <2>2. \A a, b, c, e, f, g :
          LET z == [y EXCEPT !.typ = a, !.sizes = b, !.ranges = c, !.enums = e, !.bits = f, !.default = g]
          IN z.typ = a /\ z.ranges = c /\ z.syntax = y.syntax /\ z.default = g
    BY <2>1
  <2> QED
    BY <2>2 DEF ResolvedObject, y
<1>3. m \in DOMAIN mib.modules /\ LoweredType(s) /\ DefvalType(Def(d).defval)
  BY <1>1 DEF DefType
<1>4. v \in Int
  BY <1>2, <1>3, ConvertedNumber
<1>5. t \in DOMAIN mib.types
  BY <1>2, <1>3, ScopeTypeIs DEF SyntaxType
<1>6. inherited \in [present : BOOLEAN, values : SUBSET Interval]
  BY <1>5 DEF MibType
<1>7. own \in SUBSET Interval
  <2> DEFINE q == s.constraint.ranges
  <2>1. q \in Seq(Interval)
    BY <1>3 DEF LoweredType
  <2> HIDE DEF q
  <2>2. \A i \in DOMAIN q : q[i] \in Interval
    <3> DEFINE T == Interval
    <3> HIDE DEF T
    <3>1. q \in Seq(T)
      BY <2>1 DEF T
    <3>2. \A i \in DOMAIN q : q[i] \in T
      BY <3>1
    <3> QED
      BY <3>2 DEF T
  <2> QED
    BY <2>2 DEF Elements, q
<1> HIDE DEF m, s, t, v, own, inherited
<1>8. CASE s.constraint.kind = "Range"
  <2> DEFINE parent == InlineParent(t, FALSE)
  <2>1. x.ranges = Narrow(own, parent)
    BY <1>2, <1>5, <1>8 DEF Effectively, own, t
  <2>2. x.ranges.present
    BY <2>1 DEF Narrow, Constrained
  <2>3. parent.values \in SUBSET Interval /\ (inherited.present => parent = inherited)
    <3>1. parent = IF inherited.present THEN inherited
                   ELSE IF BaseConstraint(Base(t), FALSE) # {}
                   THEN Constrained(BaseConstraint(Base(t), FALSE)) ELSE Unconstrained
      BY DEF InlineParent, inherited
    <3>2. inherited.values \in SUBSET Interval
      BY <1>6
    <3>3. /\ Constrained(BaseConstraint(Base(t), FALSE)).values \in SUBSET Interval
          /\ Unconstrained.values \in SUBSET Interval
      BY BaseConstraintType DEF Constrained, Unconstrained
    <3> QED
      BY <3>1, <3>2, <3>3
  <2> HIDE DEF parent
  <2>4. Resolved(Narrow(own, parent).values) /\ Allows(Narrow(own, parent).values, v)
    BY <2>1, <2>2 DEF v
  <2>5. /\ parent.present => Allows(parent.values, v)
        /\ (\A r \in own : r.min.k \in {"Num", "MIN"} /\ r.max.k \in {"Num", "MAX"}) => Allows(own, v)
    BY <1>4, <1>7, <2>3, <2>4, NarrowAllows
  <2> QED
    BY <1>2, <2>3, <2>5 DEF v, own, inherited
<1>9. CASE s.constraint.kind # "Range"
  <2>1. x.ranges = inherited
    BY <1>2, <1>9 DEF Effectively, inherited
  <2> QED
    BY <1>2, <1>9, <2>1 DEF inherited, v
<1> QED
  BY <1>8, <1>9

\* The resolution of values keeps the model in shape and narrows every constraint.
LEMMA ResolveType ==
  ASSUME MibType(mib)
  PROVE  MibType(resolve_values) /\ \A d \in DOMAIN resolve_values.defs : Narrowed(resolve_values, d)
<1> DEFINE w == resolve_values
           modules == DOMAIN mib.modules
           types == DOMAIN mib.types
<1>1. {"modules", "defs", "tree", "types", "fallbackTypes"} \subseteq DOMAIN mib
  BY DEF MibType
<1>2. /\ DOMAIN w = DOMAIN mib
      /\ w.defs = create_resolved_objects /\ w.tree = mib.tree /\ w.types = mib.types
      /\ w.fallbackTypes = mib.fallbackTypes
      /\ w.modules = [m \in Modules |-> [mib.modules[m] EXCEPT !.used = mib.modules[m].used \cup UsedBy(m)]]
  BY <1>1 DEF resolve_values, Modules
<1> HIDE DEF w
<1>3. DOMAIN w.modules = modules /\ Listed(w.modules)
  <2> DEFINE q == w.modules
             s == mib.modules
  <2>1. DOMAIN q = DOMAIN s /\ q = [i \in DOMAIN q |-> q[i]] /\ Listed(s)
    BY <1>2 DEF Modules, MibType
  <2> HIDE DEF q, s
  <2>2. Listed(q)
    BY <2>1, ListedMap
  <2> QED
    BY <2>1, <2>2 DEF q, s
<1>4. ASSUME NEW m \in modules
      PROVE  ModuleType(w.modules[m], modules, types)
  <2> DEFINE x == mib.modules[m]
             u == UsedBy(m)
             y == [x EXCEPT !.used = x.used \cup u]
  <2>1. ModuleType(x, modules, types) /\ w.modules[m] = y
    BY <1>2 DEF MibType, Modules
  <2> HIDE DEF x, u
  <2>2. DOMAIN y = DOMAIN x /\ y.types = x.types /\ y.imports = x.imports
    BY <2>1 DEF ModuleType
  <2> HIDE DEF y
  <2>3. ModuleType(y, modules, types)
    BY <2>1, <2>2 DEF ModuleType
  <2> QED
    BY <2>1, <2>3
<1>5. DOMAIN w.defs = DOMAIN mib.defs /\ Listed(w.defs)
  <2> DEFINE q == w.defs
             s == mib.defs
  <2>1. DOMAIN q = DOMAIN s /\ q = [i \in DOMAIN q |-> q[i]] /\ Listed(s)
    BY <1>2 DEF create_resolved_objects, MibType
  <2> HIDE DEF q, s
  <2>2. Listed(q)
    BY <2>1, ListedMap
  <2> QED
    BY <2>1, <2>2 DEF q, s
<1>6. \A d \in DOMAIN mib.defs :
        w.defs[d] = IF Def(d).sort = "ObjectType" THEN ResolvedObject(d) ELSE Def(d)
  BY <1>2 DEF create_resolved_objects
<1>7. ASSUME NEW d \in DOMAIN mib.defs
      PROVE  /\ DefType(w.defs[d], modules)
             /\ w.defs[d].sort = "ObjectType" => Def(d).sort = "ObjectType"
  <2> DEFINE y == Def(d)
  <2>1. DefType(y, modules)
    BY DEF MibType, Def
  <2>2. DefType(ResolvedObject(d), modules)
    <3> HIDE DEF y
    <3>1. ASSUME NEW a, NEW b, NEW c, NEW e, NEW f, NEW g
          PROVE  DefType([y EXCEPT !.typ = a, !.sizes = b, !.ranges = c, !.enums = e, !.bits = f, !.default = g],
                         modules)
      BY <2>1 DEF DefType
    <3> QED
      BY <3>1 DEF ResolvedObject, y
  <2> QED
    BY <1>6, <2>1, <2>2
<1>8. MibType(w)
  BY <1>1, <1>2, <1>3, <1>4, <1>5, <1>7 DEF MibType
<1>9. ASSUME NEW d \in DOMAIN w.defs
      PROVE  Narrowed(w, d)
  <2> DEFINE x == w.defs[d]
  <2> SUFFICES ASSUME x.sort = "ObjectType", x.typ # NoType, x.default.k \in {"Int", "Uint"},
                      Resolved(x.ranges.values),
                      x.ranges.present => Allows(x.ranges.values, x.default.value)
               PROVE  /\ w.types[x.typ].ranges.present => Allows(w.types[x.typ].ranges.values, x.default.value)
                      /\ /\ x.syntax.constraint.kind = "Range"
                         /\ \A r \in Elements(x.syntax.constraint.ranges) :
                              r.min.k \in {"Num", "MIN"} /\ r.max.k \in {"Num", "MAX"}
                         => Allows(Elements(x.syntax.constraint.ranges), x.default.value)
    BY DEF Narrowed
  <2>1. d \in DOMAIN mib.defs /\ Def(d).sort = "ObjectType" /\ x = ResolvedObject(d)
    BY <1>5, <1>6, <1>7
  <2> HIDE DEF x
  <2> QED
    BY <1>2, <2>1, ResolvedNarrowed
<1> QED
  BY <1>8, <1>9 DEF w

------------------------------------------------------------------------------
(* The model in every phase. *)

\* Until they are registered, the modules are those of the request.
MibKept == MibType(mib) /\ (phase \in {"load", "registration"} => mib = request.mib)

LEMMA MibInit == Init => MibKept
BY RequestsAssumption DEF Init, MibKept, RequestType

LEMMA MibNext == DiagnosticsInv /\ MibKept /\ [Next]_vars => MibKept'
<1> SUFFICES ASSUME DiagnosticsInv, MibKept, [Next]_vars PROVE MibKept'
  OBVIOUS
<1>1. CASE UNCHANGED vars
  BY <1>1 DEF vars, MibKept
<1>2. CASE NoSources \/ LoaderFails \/ MissingModules \/ DiagnosticThreshold \/ Loaded
  BY <1>2 DEF NoSources, LoaderFails, MissingModules, DiagnosticThreshold, Loaded, Return, MibKept
<1>3. CASE Load
  BY <1>3 DEF Load, MibKept
<1>4. CASE Register
  <2>1. mib = request.mib /\ RequestType(request)
    BY <1>4 DEF Register, MibKept, DiagnosticsInv, RequestKept
  <2>2. CASE request.parsed = <<>>
    BY <1>4, <2>2 DEF Register, MibKept
  <2>3. CASE request.parsed # <<>>
    <3>1. MibType(lower(request.parsed))
      BY <2>1, <2>3, LowerType DEF MibKept, RequestType
    <3> QED
      BY <1>4, <2>3, <3>1 DEF Register, MibKept
  <2> QED
    BY <2>2, <2>3
<1>5. CASE \E p \in {"imports", "types", "oids"} : Phase(p)
  BY <1>5, FollowingIs DEF Phase, MibKept
<1>6. CASE CreateObjects
  BY <1>6, ResolveType DEF CreateObjects, MibKept
<1>7. CASE RunChecks
  BY <1>7 DEF RunChecks, MibKept
<1> QED
  BY <1>1, <1>2, <1>3, <1>4, <1>5, <1>6, <1>7 DEF Next

THEOREM MibKeptHolds == Spec => []MibKept
<1> QED
  BY MibInit, MibNext, DiagnosticsKept, PTL DEF Spec

------------------------------------------------------------------------------
(* What the checks have reported. *)

\* The resolved values are narrowed, and what the checks find is reported.
ChecksKept ==
  /\ phase \in {"checks", "result"} => \A d \in DOMAIN mib.defs : Narrowed(mib, d)
  /\ phase = "result" =>
       UNION {check_defval_constraints, check_range_constraints, check_sequence_fields} \subseteq emitted

LEMMA ChecksInit == Init => ChecksKept
BY DEF Init, ChecksKept

\* The last phase leaves the model as it is, so a check finds the same afterwards.
LEMMA SameFindings ==
  ASSUME mib' = mib
  PROVE  /\ check_defval_constraints' = check_defval_constraints
         /\ check_range_constraints' = check_range_constraints
         /\ check_sequence_fields' = check_sequence_fields
<1>1. check_defval_constraints' = check_defval_constraints
  BY DEF check_defval_constraints, DefvalCodes, NumberCodes, Emitted, Typed, Base, Objects, All,
         HasNode, NodeOf, SymbolNode, At, Def
<1>2. check_range_constraints' = check_range_constraints
  BY DEF check_range_constraints, NotSequence, User, IsUser, UserModules, Modules, All, TypeOf,
         OwnObject, CheckedBase, TypeBase, IsSequence, Report, Emitted, Def, Base, SymbolType, At,
         Objects, HasNode, NodeOf, SymbolNode, Typed
<1>3. check_sequence_fields' = check_sequence_fields
  BY DEF check_sequence_fields, RowsWithSequence, SequencesNamed, IsSequence, Kind, Tree, User,
         IsUser, UserModules, Modules, All, HasNode, NodeOf, SymbolNode, At, Def, Fields,
         ColumnNames, NamedChildren, Children, Nodes, Mismatched, Typed, Report, Emitted
<1> QED
  BY <1>1, <1>2, <1>3

LEMMA ChecksNext == MibKept /\ ChecksKept /\ [Next]_vars => ChecksKept'
<1> SUFFICES ASSUME MibKept, ChecksKept, [Next]_vars PROVE ChecksKept'
  OBVIOUS
<1>1. CASE UNCHANGED vars
  <2>1. mib' = mib /\ phase' = phase /\ emitted' = emitted
    BY <1>1 DEF vars
  <2> QED
    BY <2>1, SameFindings DEF ChecksKept
<1>2. CASE NoSources \/ LoaderFails \/ MissingModules \/ DiagnosticThreshold \/ Loaded
  BY <1>2 DEF NoSources, LoaderFails, MissingModules, DiagnosticThreshold, Loaded, Return, ChecksKept
<1>3. CASE Load \/ Register
  BY <1>3 DEF Load, Register, ChecksKept
<1>4. CASE \E p \in {"imports", "types", "oids"} : Phase(p)
  BY <1>4, FollowingIs DEF Phase, ChecksKept
<1>5. CASE CreateObjects
  BY <1>5, ResolveType DEF CreateObjects, MibKept, ChecksKept
<1>6. CASE RunChecks
  <2>1. /\ phase = "checks" /\ phase' = "result" /\ mib' = mib
        /\ emitted' = emitted \cup (ImportReports \cup run_checks)
    BY <1>6 DEF RunChecks, emit
  <2>2. UNION {check_defval_constraints, check_range_constraints, check_sequence_fields}
          \subseteq run_checks
    BY DEF run_checks, TypeReports, TableReports
  <2> QED
    BY <2>1, <2>2, SameFindings DEF ChecksKept
<1> QED
  BY <1>1, <1>2, <1>3, <1>4, <1>5, <1>6 DEF Next

THEOREM ChecksKeptHolds == Spec => []ChecksKept
<1> QED
  BY ChecksInit, ChecksNext, MibKeptHolds, PTL DEF Spec

\* A default that the ranges of its object do not allow is reported.
LEMMA DefaultChecked ==
  ASSUME NEW d \in Objects, Typed(d), Def(d).default.k \in {"Int", "Uint"},
         phase = "result", ChecksKept,
         ~ Reported(d, {"CounterDefvalIllegal", "DefvalBasetype", "DefvalRange", "DefvalEnum"}),
         Def(d).ranges.present, Resolved(Def(d).ranges.values)
  PROVE  Allows(Def(d).ranges.values, Def(d).default.value)
<1> SUFFICES ASSUME ~ Allows(Def(d).ranges.values, Def(d).default.value) PROVE FALSE
  OBVIOUS
<1>1. PICK c \in {"CounterDefvalIllegal", "DefvalRange"} : c \in DefvalCodes(d)
  <2>1. CASE Base(Def(d).typ) \in {"Counter32", "Counter64"}
    BY <2>1 DEF DefvalCodes
  <2>2. CASE Base(Def(d).typ) \notin {"Counter32", "Counter64"}
    <3>1. DefvalCodes(d) = NumberCodes(Def(d).default.value, d)
      BY <2>2 DEF DefvalCodes
    <3>2. "DefvalRange" \in NumberCodes(Def(d).default.value, d)
      BY DEF NumberCodes
    <3> QED
      BY <3>1, <3>2
  <2> QED
    BY <2>1, <2>2
<1>2. Emitted(c, d) \in check_defval_constraints
  BY <1>1 DEF check_defval_constraints
<1>3. Emitted(c, d) \in emitted
  BY <1>2 DEF ChecksKept
<1> QED
  BY <1>3 DEF Reported, Emitted

\* No default is accepted that the type of its object or the object's own constraint
\* does not allow.
THEOREM DefaultsAllowedHolds == Spec => []DefaultsAllowed
<1>1. ChecksKept => DefaultsAllowed
  <2> SUFFICES ASSUME ChecksKept, phase = "result", NEW d \in Objects, Typed(d),
                      Def(d).default.k \in {"Int", "Uint"},
                      ~ Reported(d, {"CounterDefvalIllegal", "DefvalBasetype", "DefvalRange", "DefvalEnum"}),
                      Resolved(Def(d).ranges.values)
               PROVE  LET written == Def(d).syntax.constraint
                          proper(r) == r.min.k \in {"Num", "MIN"} /\ r.max.k \in {"Num", "MAX"}
                          inherited == mib.types[Def(d).typ].ranges
                      IN /\ inherited.present => Allows(inherited.values, Def(d).default.value)
                         /\ written.kind = "Range" /\ (\A r \in Elements(written.ranges) : proper(r))
                              => Allows(Elements(written.ranges), Def(d).default.value)
    BY DEF DefaultsAllowed
  <2>1. Narrowed(mib, d)
    BY DEF ChecksKept, Objects, All
  <2>2. Def(d).ranges.present => Allows(Def(d).ranges.values, Def(d).default.value)
    BY DefaultChecked
  <2> QED
    BY <2>1, <2>2 DEF Narrowed, Def, Typed, Objects, All
<1> QED
  BY <1>1, ChecksKeptHolds, PTL

------------------------------------------------------------------------------
(* Lists that nothing is reported of. *)

\* Named numbers: the lowering has reported the labels that share a value.
LEMMA NumbersAccepted ==
  ASSUME DiagnosticsInv, phase = "imports", NEW mk \in ParsedDefs,
         ~ ReportedOf(mk[1], mk[2], {"EnumValueRedefinition", "BitsValueRedefinition",
                                     "BitsNumberNegative", "BitsNumberTooLarge"})
  PROVE  NumbersApart(request.parsed[mk[1]].body[mk[2]])
<1> DEFINE module == request.parsed[mk[1]]
           d == module.body[mk[2]]
           language == detect_language(module)
           base == is_base_module(module.name)
<1>1. mk[1] \in DOMAIN request.parsed /\ mk[2] \in DOMAIN module.body
  <2>1. PICK m \in DOMAIN request.parsed : mk \in {<<m, k>> : k \in DOMAIN request.parsed[m].body}
    BY DEF ParsedDefs
  <2> QED
    BY <2>1
<1>2. ParsedType(d)
  BY <1>1 DEF DiagnosticsInv, RequestKept, RequestType, Elements
<1>3. Registered
  BY DEF Registered, DiagnosticsInv, LoadedClean
<1>4. ASSUME NEW c \in DefinitionCodes(d, language, base)
      PROVE  c \notin NumberReports
  <2>1. LoweringReport(c, mk[1], mk[2]) \in LoweringReports(request.parsed)
    BY <1>1, <1>4 DEF LoweringReports
  <2>2. LoweringReport(c, mk[1], mk[2]) \in emitted
    BY <1>3, <2>1 DEF DiagnosticsInv, LoweringReported
  <2> QED
    BY <2>2 DEF ReportedOf, LoweringReport, NumberReports
<1> HIDE DEF d, language, base
<1>5. DefinitionCodes(d, language, base) \cap NumberReports = {}
  BY <1>4
<1>6. NumbersApart(d)
  BY <1>2, <1>5, DefinitionApart
<1> QED
  BY <1>6 DEF d

\* A bound that lies above one that is not above a third lies above the third.
LEMMA LessChain ==
  ASSUME NEW a \in Bound, NEW b \in Bound, NEW c \in Bound, NEW e \in Bound,
         a.k # "Raw", b.k # "Raw", c.k # "Raw", e.k # "Raw",
         Less(a, b), ~ Less(c, b), Less(c, e)
  PROVE  Less(a, e)
<1> DEFINE Kinds(x) == x = MIN \/ x = MAX \/ \E i \in Int : x = Num(i)
<1>1. Kinds(a) /\ Kinds(b) /\ Kinds(c) /\ Kinds(e)
  BY BoundKinds
<1>2. CASE a = MIN
  <2>1. e # MIN
    BY <1>1, NumLess
  <2> QED
    BY <1>1, <1>2, <2>1, NumLess
<1>3. CASE a # MIN
  <2>1. a # MAX
    BY <1>1, NumLess
  <2>2. PICK i \in Int : a = Num(i)
    BY <1>1, <1>3, <2>1
  <2>3. CASE b = MAX
    <3>1. c = MAX
      BY <1>1, <2>3, NumLess
    <3> QED
      BY <1>1, <3>1, NumLess
  <2>4. CASE b # MAX
    <3>1. b # MIN
      BY <2>2, NumLess
    <3>2. PICK j \in Int : b = Num(j)
      BY <1>1, <2>4, <3>1
    <3>3. c # MIN /\ c # MAX
      BY <1>1, <3>2, NumLess
    <3>4. PICK k \in Int : c = Num(k)
      BY <1>1, <3>3
    <3>5. i < j /\ ~ (k < j)
      BY <2>2, <3>2, <3>4, NumLess
    <3>6. CASE e = MAX
      BY <2>2, <3>6, NumLess
    <3>7. CASE e # MAX
      <4>1. e # MIN
        BY <3>4, NumLess
      <4>2. PICK l \in Int : e = Num(l)
        BY <1>1, <3>7, <4>1
      <4>3. k < l
        BY <3>4, <4>2, NumLess
      <4>4. i < l
        BY <3>5, <4>3
      <4> QED
        BY <2>2, <4>2, <4>4, NumLess
    <3> QED
      BY <3>6, <3>7
  <2> QED
    BY <2>3, <2>4
<1> QED
  BY <1>2, <1>3

\* Neighbours compared, all are.
LEMMA RangesAscend ==
  ASSUME NEW ranges \in Seq(Interval), Resolved(Elements(ranges)),
         \A k \in DOMAIN ranges : ~ Less(ranges[k].max, ranges[k].min),
         \A k \in DOMAIN ranges : k > 1 => Less(ranges[k - 1].max, ranges[k].min)
  PROVE  \A i, j \in DOMAIN ranges : i < j => Less(ranges[i].max, ranges[j].min)
<1> SUFFICES ASSUME NEW i \in DOMAIN ranges
             PROVE  \A j \in DOMAIN ranges : i < j => Less(ranges[i].max, ranges[j].min)
  OBVIOUS
<1> DEFINE R == Interval
           S == {n \in Nat : i < n /\ n <= Len(ranges) => Less(ranges[i].max, ranges[n].min)}
<1>1. DOMAIN ranges = 1 .. Len(ranges) /\ Len(ranges) \in Nat
  OBVIOUS
<1>2. \A k \in DOMAIN ranges : /\ ranges[k].min \in Bound /\ ranges[k].max \in Bound
                               /\ ranges[k].min.k # "Raw" /\ ranges[k].max.k # "Raw"
  <2>1. \A k \in DOMAIN ranges : ranges[k] \in R
    <3> HIDE DEF R
    <3>1. ranges \in Seq(R)
      BY DEF R
    <3> QED
      BY <3>1
  <2>2. \A k \in DOMAIN ranges : ranges[k] \in Elements(ranges)
    BY DEF Elements
  <2> QED
    BY <2>1, <2>2 DEF Interval, Resolved
<1>3. 0 \in S
  BY <1>1
<1>4. ASSUME NEW n \in Nat, n \in S PROVE n + 1 \in S
  <2> SUFFICES ASSUME i < n + 1, n + 1 <= Len(ranges)
               PROVE  Less(ranges[i].max, ranges[n + 1].min)
    OBVIOUS
  <2>1. n + 1 \in DOMAIN ranges /\ n \in DOMAIN ranges /\ (n + 1) - 1 = n /\ n + 1 > 1
    BY <1>1
  <2>2. Less(ranges[n].max, ranges[n + 1].min)
    BY <2>1
  <2>3. CASE i = n
    BY <2>2, <2>3
  <2>4. CASE i # n
    <3>1. Less(ranges[i].max, ranges[n].min)
      BY <1>1, <1>4, <2>1, <2>4
    <3>2. ~ Less(ranges[n].max, ranges[n].min)
      BY <2>1
    <3> HIDE DEF S
    <3> QED
      BY <1>2, <2>1, <2>2, <3>1, <3>2, LessChain
  <2> QED
    BY <2>3, <2>4
<1>5. Nat \subseteq S
  <2> HIDE DEF S
  <2> QED
    BY <1>3, <1>4, Induction
<1> QED
  BY <1>1, <1>5

\* Ranges: check_range_constraints has reported those that are not in order.
LEMMA RangesAccepted ==
  ASSUME MibKept, ChecksKept, phase = "result", NEW d \in NotSequence(Syntactic),
         ~ Reported(d, RangeReports)
  PROVE  RangesInOrder(d)
<1> DEFINE syntax == Def(d).syntax
           constraint == syntax.constraint
           ranges == constraint.ranges
           base == CheckedBase(d)
<1> SUFFICES ASSUME Resolved(Elements(ranges))
             PROVE  /\ \A i, j \in DOMAIN ranges : i < j => Less(ranges[i].max, ranges[j].min)
                    /\ \A i \in DOMAIN ranges : ~ Less(ranges[i].max, ranges[i].min)
  BY DEF RangesInOrder
<1>1. d \in DOMAIN mib.defs /\ LoweredType(syntax)
  BY DEF MibKept, MibType, DefType, Def, NotSequence, Syntactic, User, All
<1>2. d \in NotSequence(User("TypeDef")) \cup User("ObjectType")
  BY DEF NotSequence, Syntactic
<1>3. \A c \in collect_range_diags(syntax, base) : c \notin RangeReports
  <2> SUFFICES ASSUME NEW c \in collect_range_diags(syntax, base) PROVE c \notin RangeReports
    OBVIOUS
  <2>1. Emitted(c, d) \in check_range_constraints
    BY <1>2 DEF check_range_constraints
  <2>2. Emitted(c, d) \in emitted
    BY <2>1 DEF ChecksKept
  <2> QED
    BY <2>2 DEF Reported, Emitted
<1> HIDE DEF base
<1>4. CASE constraint.kind = "None"
  <2>1. ranges = <<>>
    BY <1>1, <1>4 DEF LoweredType
  <2> QED
    BY <2>1
<1>5. CASE constraint.kind # "None"
  <2>1. Misapplied(constraint, base) \subseteq RangeReports
    BY DEF Misapplied, RangeReports
  <2>2. Misapplied(constraint, base) = {}
    BY <1>3, <1>5, <2>1 DEF collect_range_diags
  <2> DEFINE bounds == IF constraint.kind = "Size" THEN {Between(0, SizeMax)} ELSE basetype_bounds(base)
  <2>3. \A c \in RangeCodes(ranges, bounds) : c \notin RangeReports
    BY <1>3, <1>5, <2>2 DEF collect_range_diags
  <2> HIDE DEF bounds, constraint
  <2>4. ~ \E r \in Elements(ranges) : Greater(r.min, r.max)
    BY <2>3 DEF RangeCodes, RangeReports
  <2>5. ~ \E k \in {n \in DOMAIN ranges : n > 1} : NotGreater(ranges[k].min, ranges[k - 1].max)
    BY <2>3 DEF RangeCodes, RangeReports
  <2>6. ranges \in Seq(Interval)
    BY <1>1 DEF LoweredType, constraint
  <2>7. DOMAIN ranges = 1 .. Len(ranges) /\ Len(ranges) \in Nat
    BY <2>6
  <2>8. \A k \in DOMAIN ranges : ranges[k] \in Elements(ranges)
    BY DEF Elements
  <2>9. \A k \in DOMAIN ranges : ~ Less(ranges[k].max, ranges[k].min)
    BY <2>4, <2>8 DEF Greater
  <2>10. ASSUME NEW k \in DOMAIN ranges, k > 1
         PROVE  Less(ranges[k - 1].max, ranges[k].min)
    <3>1. k - 1 \in DOMAIN ranges
      BY <2>7, <2>10
    <3>2. Comparable(ranges[k].min, ranges[k - 1].max)
      BY <2>8, <3>1 DEF Comparable, Resolved
    <3> QED
      BY <2>5, <2>10, <3>2 DEF NotGreater
  <2>11. \A i, j \in DOMAIN ranges : i < j => Less(ranges[i].max, ranges[j].min)
    <3> HIDE DEF ranges
    <3> QED
      BY <2>6, <2>9, <2>10, RangesAscend
  <2> QED
    BY <2>9, <2>11
<1> QED
  BY <1>4, <1>5

\* A list without repetitions is as long as its elements are many.
LEMMA LengthOf ==
  ASSUME NEW s, Listed(s), ~ Repeats(s)
  PROVE  Cardinality(Elements(s)) = Len(s)
<1> DEFINE S == Elements(s)
<1>1. s \in Seq(S) /\ Len(s) \in Nat /\ DOMAIN s = 1 .. Len(s)
  BY DEF Listed
<1>2. \A i, j \in DOMAIN s : s[i] = s[j] => i = j
  <2>1. \A i, j \in DOMAIN s : i < j => s[i] # s[j]
    BY DEF Repeats
  <2> QED
    BY <1>1, <2>1
<1>3. \A x \in S : \E i \in DOMAIN s : s[i] = x
  BY DEF Elements
<1> HIDE DEF S
<1>4. s \in [1 .. Len(s) -> S]
  BY <1>1
<1>5. s \in Bijection(1 .. Len(s), S)
  BY <1>1, <1>2, <1>3, <1>4 DEF Bijection, Injection, Surjection, IsInjective
<1>6. ExistsBijection(1 .. Len(s), S)
  BY <1>5 DEF ExistsBijection
<1> QED
  BY <1>1, <1>6, FS_CountingElements DEF S

\* Two such lists with the same elements, of which the part in common is the same, are
\* the same list.
LEMMA SameLists ==
  ASSUME NEW s, NEW t, Listed(s), Listed(t), ~ Repeats(s), ~ Repeats(t),
         Elements(s) = Elements(t), ~ OutOfOrder(s, t)
  PROVE  s = t
<1>1. Common(s, t) = s /\ Common(t, s) = t
  BY FilteredKeeps DEF Common
<1>2. Len(s) = Len(t)
  BY LengthOf
<1> QED
  BY <1>1, <1>2 DEF OutOfOrder

\* Of definitions that are there one is the last.
LEMMA LatestIs ==
  ASSUME NEW n \in Nat, NEW S \in SUBSET (1 .. n), S # {}
  PROVE  Latest(S) \in S
<1> DEFINE T == {n - x : x \in S}
<1>1. T \in SUBSET Nat /\ T # {}
  OBVIOUS
<1>2. PICK y \in T : \A z \in T : y <= z
  BY <1>1, SmallestMember
<1>3. PICK x \in S : y = n - x
  BY <1>2
<1>4. \A o \in S : o <= x
  BY <1>2, <1>3
<1> QED
  BY <1>4 DEF Latest

\* The fields of a SEQUENCE and the columns of a row are lists.
LEMMA FieldsListed ==
  ASSUME MibKept, NEW d \in RowsWithSequence
  PROVE  Listed(FieldNames(Fields(d)))
<1> DEFINE S == SequencesNamed(Def(d).module, Def(d).syntax.name)
           fields == Fields(d)
           names == FieldNames(fields)
<1>1. S \subseteq DOMAIN mib.defs /\ S # {}
  BY DEF SequencesNamed, RowsWithSequence
<1>2. PICK n \in Nat : DOMAIN mib.defs = 1 .. n
  BY ListedIs DEF MibKept, MibType
<1>3. Latest(S) \in DOMAIN mib.defs
  <2> HIDE DEF S
  <2> QED
    BY <1>1, <1>2, LatestIs
<1>4. Listed(fields)
  <2>1. LoweredType(Def(Latest(S)).syntax)
    BY <1>3 DEF MibKept, MibType, DefType, Def
  <2> QED
    BY <2>1 DEF LoweredType, Fields
<1>5. DOMAIN names = DOMAIN fields /\ names = [k \in DOMAIN names |-> names[k]]
  BY DEF FieldNames
<1> HIDE DEF fields, names
<1>6. Listed(names)
  BY <1>4, <1>5, ListedMap
<1> QED
  BY <1>6 DEF names, fields

LEMMA ColumnsListed ==
  ASSUME MibKept, NEW n
  PROVE  Listed(ColumnNames(n))
<1> DEFINE S == NamedChildren(n)
           names == ColumnNames(n)
<1>1. IsFiniteSet(S)
  <2>1. S \subseteq DOMAIN mib.tree
    BY DEF NamedChildren, Children, Nodes
  <2>2. IsFiniteSet(DOMAIN mib.tree)
    BY DEF MibKept, MibType
  <2> QED
    BY <2>1, <2>2, FS_Subset
<1>2. Cardinality(S) \in Nat
  BY <1>1, FS_CardinalityType
<1>3. DOMAIN names = 1 .. Cardinality(S) /\ names = [k \in DOMAIN names |-> names[k]]
  BY DEF ColumnNames, InOrder
<1> HIDE DEF names, S
<1>4. Listed(names)
  BY <1>2, <1>3, ListedIs
<1> QED
  BY <1>4 DEF names

\* Fields: check_sequence_fields has reported a SEQUENCE that is not in order.
LEMMA FieldsAccepted ==
  ASSUME MibKept, ChecksKept, phase = "result", NEW d \in RowsWithSequence,
         ~ Reported(d, {"SequenceNoColumn", "SequenceMissingColumn", "SequenceOrder"})
  PROVE  FieldsInOrder(d)
<1> DEFINE fields == FieldNames(Fields(d))
           columns == ColumnNames(NodeOf(d))
<1> SUFFICES ASSUME ~ Repeats(fields), ~ Repeats(columns) PROVE fields = columns
  BY DEF FieldsInOrder
<1>1. ASSUME NEW c \in {"SequenceNoColumn", "SequenceMissingColumn", "SequenceOrder"},
             Emitted(c, d) \in check_sequence_fields
      PROVE  FALSE
  <2>1. Emitted(c, d) \in emitted
    BY <1>1 DEF ChecksKept
  <2> QED
    BY <2>1 DEF Reported, Emitted
<1>2. Elements(fields) \ Elements(columns) = {}
  <2> SUFFICES ASSUME Elements(fields) \ Elements(columns) # {} PROVE FALSE
    OBVIOUS
  <2>1. Emitted("SequenceNoColumn", d) \in check_sequence_fields
    BY DEF check_sequence_fields, Report
  <2> QED
    BY <1>1, <2>1
<1>3. Elements(columns) \ Elements(fields) = {}
  <2> SUFFICES ASSUME Elements(columns) \ Elements(fields) # {} PROVE FALSE
    OBVIOUS
  <2>1. Emitted("SequenceMissingColumn", d) \in check_sequence_fields
    BY DEF check_sequence_fields, Report
  <2> QED
    BY <1>1, <2>1
<1>4. ~ OutOfOrder(fields, columns)
  <2> SUFFICES ASSUME OutOfOrder(fields, columns) PROVE FALSE
    OBVIOUS
  <2>1. Emitted("SequenceOrder", d) \in check_sequence_fields
    BY DEF check_sequence_fields, Report
  <2> QED
    BY <1>1, <2>1
<1>5. Listed(fields) /\ Listed(columns)
  BY FieldsListed, ColumnsListed
<1> HIDE DEF fields, columns
<1>6. Elements(fields) = Elements(columns)
  BY <1>2, <1>3
<1> QED
  BY <1>4, <1>5, <1>6, SameLists

\* Lists that nothing is reported of are in order.
THEOREM AcceptedInOrderHolds == Spec => []AcceptedInOrder
<1>1. DiagnosticsInv /\ MibKept /\ ChecksKept => AcceptedInOrder
  BY NumbersAccepted, RangesAccepted, FieldsAccepted DEF AcceptedInOrder
<1> QED
  BY <1>1, DiagnosticsKept, MibKeptHolds, ChecksKeptHolds, PTL

==============================================================================
