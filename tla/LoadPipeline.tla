----------------------------- MODULE LoadPipeline -----------------------------
(***************************************************************************)
(* load() of src/src/load.rs around the phases of                          *)
(* src/src/mib/resolver/mod.rs: the sources are loaded, each phase emits   *)
(* its diagnostics through emit_diagnostic, which keeps those the          *)
(* configuration asks for, and the result is checked for missing modules   *)
(* and for diagnostics that make the load fail.  What the loading and the  *)
(* phases before the last compute is the subject of other modules: here    *)
(* the resolved model and the diagnostics of those phases are inputs.      *)
(***************************************************************************)
EXTENDS Lowering, ObjectChecks, TypeChecks, TableChecks

CONSTANTS
  Requests,   \* what load is called with and what it meets: a sequence of families
  NoNames,    \* the request for every module
  Samples,    \* values of octet strings that a user has formatted after the load
  Numerals    \* and the digits of integers

------------------------------------------------------------------------------
(* DiagnosticConfig of src/src/types/diagnostic.rs: what is collected of   *)
(* the diagnostics that the lexer, the parser, the lowering and the        *)
(* resolver emit, and which of those make a load fail.                     *)

Severities == <<"Fatal", "Severe", "Error", "Minor", "Style", "Warning", "Info">>
Severity == {Severities[k] : k \in DOMAIN Severities}
Rank(s) == CHOOSE k \in DOMAIN Severities : Severities[k] = s
AtLeast(s, t) == Rank(s) <= Rank(t)

SevereCodes == {
  "KeywordReserved", "IndexIllegalBasetype", "LastSubidZero", "OidRegistered"}

ErrorCodes == {
  "UnexpectedCharacter", "UnterminatedString", "UnterminatedHexBinStr",
  "MissingHexBinSuffix", "IdentifierHyphenEnd", "IdentifierLength64", "BadIdentifierCase",
  "ParseError", "InvalidU32", "InvalidI64", "InvalidHexRange", "DateCharacter",
  "DateLength", "DateMonth", "DateDay", "DateHour", "DateMinutes", "DateValue",
  "BitsNumberNegative", "BitsNumberTooLarge", "EnumZero", "EnumNameRedefinition",
  "EnumValueRedefinition", "BitsNameRedefinition", "BitsValueRedefinition",
  "ModuleIdentityMultiple", "ImportNotFound", "ImportModuleNotFound", "TypeUnknown",
  "TypeCycle", "OidOrphan", "TrapNumberOverflow", "IndexUnresolved", "ObjectsUnresolved",
  "AugmentNested", "PrimitiveTypeMissing", "IndexIntegerNoRange", "IndexNegativeRange",
  "RangeBounds", "RangeExchanged", "RangeOverlap", "SizeIllegal", "RangeIllegal",
  "CounterRangeIllegal", "SubtypeEnumIllegal", "SubtypeBitsIllegal", "ParentTable",
  "ParentRow", "ParentColumn", "ParentScalar", "ParentNode", "ParentNotification",
  "ParentGroup", "ParentCompliance", "ParentCapabilities", "RowSubidentifierOne",
  "OidRecursive", "SequenceTypeMismatch", "AccessInvalidSMIv1", "AccessWriteOnlySMIv2",
  "MaxAccessInSMIv1", "AccessInSMIv2", "StatusInvalidSMIv1", "StatusInvalidSMIv2",
  "TimeticksRangeIllegal", "StatusInvalidCapabilities", "InvalidFormat"}

MinorCodes == {
  "NumberLeadingZero", "MissingComma", "RevisionLastUpdated", "RevisionNotDescending",
  "RevisionAfterUpdate", "MacroNotImported", "GroupNotAccessible", "NotifObjectNotObject",
  "NotifObjectAccess", "VariationAccessNotifOnly", "GroupMemberUnresolved",
  "IndexNotObject", "AugmentsNotObject", "NotifNoOid", "IndexElementNoSize",
  "SequenceNoColumn", "SequenceMissingColumn", "AccessTableIllegal", "AccessRowIllegal",
  "ScalarNotCreatable", "GroupMembership", "GroupMemberMixed", "GroupObjectsNotification",
  "GroupNotificationsObject", "ImportDuplicate", "BasetypeNotImported",
  "DescriptionMissing", "IndexAccessible", "IndexNotAccessible"}

WarningCodes == {
  "HexStringMul2", "BinStringMul8", "HexStringInvalidChar", "BinStringInvalidChar",
  "IdentifierLength32", "MissingModuleIdentity", "DateYear2Digits",
  "UnknownDefinitionType", "UnknownTypeSyntax", "UnknownConstraintType",
  "UnknownRangeValue", "MinMaxRange", "UnknownOidComponent", "UnknownDefvalType",
  "EnumValueOutOfRange", "ModuleIdentityNotFirst", "MacroNotAllowed", "ChoiceNotAllowed",
  "TaggedTypeNotAllowed", "IdentifierHyphenSMIv2", "NotifNotReversible",
  "NotifIdTooLarge", "MalformedHexDefval", "MalformedBinDefval", "DefvalUnresolved",
  "IntegerInSMIv2", "DefvalBasetype", "DefvalRange", "DefvalEnum", "DefvalBits",
  "CounterDefvalIllegal", "IndexCounterIllegal", "ConstraintEmptyIntersection",
  "RangeAscending", "OidReuse", "SequenceOrder", "IndexExceedsTooLarge",
  "TypeStatusDeprecated", "TypeStatusObsolete", "GroupObjectStatus",
  "ComplianceGroupStatus", "ComplianceObjectStatus", "ComplianceGroupInvalid",
  "RefinementExists", "OptionalGroupExists", "RefinementNotListed",
  "ComplianceMemberNotLocal", "OpaqueSMIv2", "ObsoleteImport", "TrapInSMIv2",
  "ModuleIdentityReg", "TAddressTDomain", "IndexDefval", "InetAddressPairing",
  "InetAddressTypeSubtyped", "TransportAddressPairing", "TransportAddressTypeSubtyped",
  "IncludesUnresolved", "IncludesDuplicate", "CreationRequiresUnresolved",
  "CreationRequiresDuplicate"}

StyleCodes == {
  "IdentifierUnderscore", "DateInFuture", "DateInPast", "BitsNumberLarge",
  "EmptyDescription", "EmptyRevisionDescription", "EmptyReference", "EmptyOrganization",
  "EmptyContact", "EmptyUnits", "EmptyFormat", "ModuleNameSuffix", "AccessCounterIllegal",
  "ImportUnused", "TCNested", "TypeAssignmentSMIv2", "TableNameTable", "RowNameEntry",
  "RowNameTableName", "NamedNumbersAscending", "HyphenInLabel", "TypeWithoutFormat",
  "TypeUnreferenced", "GroupUnreferenced", "IdentifierCaseMatch", "NodeImplicit",
  "RowStatusDefault", "RowStatusAccess", "StorageTypeDefault", "AccessWriteOnlySMIv1",
  "IpAddressInSyntax", "InetAddressSpecific", "TransportAddressSpecific"}

DefaultSeverity(code) ==
  CASE code \in SevereCodes -> "Severe"
    [] code \in ErrorCodes -> "Error"
    [] code \in MinorCodes -> "Minor"
    [] code \in WarningCodes -> "Warning"
    [] code \in StyleCodes -> "Style"

\* A configuration; the patterns of `ignore` are the codes they match.
Levels == {"Verbose", "Default", "Quiet", "Silent"}
for_reporting(level) ==
  [reporting |-> level, failAt |-> IF level = "Silent" THEN "Fatal" ELSE "Severe",
   overrides |-> <<>>, ignored |-> {}]

effective_severity(config, code) ==
  IF code \in DOMAIN config.overrides THEN config.overrides[code] ELSE DefaultSeverity(code)

max_reported_severity(level) ==
  CASE level = "Verbose" -> {"Info"}  [] level = "Default" -> {"Minor"}
    [] level = "Quiet" -> {"Error"}   [] level = "Silent" -> {}

should_report(config, severity) ==
  severity = "Fatal" \/ \E max \in max_reported_severity(config.reporting) : AtLeast(severity, max)

\* Mutant: a promotion does not bring a diagnostic into the report.
ByDefaultSeverity(config, code) ==
  \/ effective_severity(config, code) = "Fatal"
  \/ code \notin config.ignored /\ should_report(config, DefaultSeverity(code))

should_collect(config, code) ==
  \/ effective_severity(config, code) = "Fatal"
  \/ /\ code \notin config.ignored
     /\ \/ should_report(config, DefaultSeverity(code))
        \/ should_report(config, effective_severity(config, code))

should_fail(config, severity) == AtLeast(severity, config.failAt)

------------------------------------------------------------------------------
(* What the types of the program say of a request, and of the modules that *)
(* the parser and the phases before the last make.                         *)

Codes == UNION {SevereCodes, ErrorCodes, MinorCodes, WarningCodes, StyleCodes}

Listed(s) == s \in Seq(Elements(s))

\* A syntax and all those below it; only two forms give names to numbers.
WrittenType(s) ==
  \A t \in Within(s) :
    /\ t.numbers \in Seq([label : STRING, value : Int]) /\ Listed(t.fields)
    /\ t.form \notin {"IntegerEnum", "Bits"} => t.numbers = <<>>
    /\ t.form = "Constrained" =>
         /\ t.constraint.kind \in {"Size", "Range"} /\ Listed(t.constraint.ranges)
         /\ \A r \in Elements(t.constraint.ranges) :
              r \in Seq(Bound \cup {AnyName}) /\ r # <<>>

DateTexts == Timestamps \cup {[length |-> 0]}
DefvalType(v) == {"k", "value"} \subseteq DOMAIN v /\ (v.k \in {"Int", "Uint"} => v.value \in Int)

ParsedSorts == {"ModuleIdentity", "ObjectIdentity", "ObjectType", "NotificationType", "TrapType",
                "TextualConvention", "TypeAssignment", "ValueAssignment", "ObjectGroup",
                "NotificationGroup", "ModuleCompliance", "AgentCapabilities",
                "MacroDefinition", "Error"}

\* A definition as it is parsed; those of types have a syntax.
ParsedType(d) ==
  /\ d.sort \in ParsedSorts
  /\ Listed(d.syntax) /\ (d.sort \in {"TextualConvention", "TypeAssignment"} => d.syntax # <<>>)
  /\ \A s \in SyntaxesIn(d) : WrittenType(s)
  /\ DefvalType(d.defval)
  /\ d.updated \in DateTexts /\ d.revisions \in Seq([date : DateTexts, empty : BOOLEAN])

\* A syntax as it is lowered.
LoweredType(s) ==
  /\ s.constraint.ranges \in Seq(Interval)
  /\ s.constraint.kind = "None" => s.constraint.ranges = <<>>
  /\ Listed(s.fields)

\* A definition as it is resolved, of one of the modules.
DefType(d, modules) ==
  /\ {"module", "sort", "syntax", "typ", "sizes", "ranges", "enums", "bits", "defval", "default"}
       \subseteq DOMAIN d
  /\ d.module \in modules /\ LoweredType(d.syntax) /\ DefvalType(d.defval)

ModuleType(module, modules, types) ==
  /\ {"name", "language", "base", "types", "imports", "symbols", "used"} \subseteq DOMAIN module
  /\ Elements(module.types) \subseteq types /\ Elements(module.imports) \subseteq modules

MibType(w) ==
  LET modules == DOMAIN w.modules
      types   == DOMAIN w.types
  IN /\ {"modules", "defs", "tree", "types", "fallbackTypes"} \subseteq DOMAIN w
     /\ IsFiniteSet(DOMAIN w.tree)
     /\ Listed(w.modules) /\ \A m \in modules : ModuleType(w.modules[m], modules, types)
     /\ Listed(w.defs) /\ \A d \in DOMAIN w.defs : DefType(w.defs[d], modules)
     /\ Elements(w.fallbackTypes) \subseteq types
     /\ \A t \in types : w.types[t].ranges \in [present : BOOLEAN, values : SUBSET Interval]

EarlyPhases == {"registration", "imports", "types", "oids", "semantics"}

RequestType(r) ==
  /\ r.config.reporting \in Levels
  /\ r.config.failAt \in Severity /\ Elements(r.config.overrides) \subseteq Severity
  /\ r.early \in [EarlyPhases -> SUBSET Codes]
  /\ Listed(r.parsed) /\ (r.parsed # <<>> => DOMAIN r.parsed = DOMAIN r.mib.modules)
  /\ \A module \in Elements(r.parsed) :
       /\ module.codes \subseteq Codes
       /\ Listed(module.body) /\ \A d \in Elements(module.body) : ParsedType(d)
  /\ MibType(r.mib)

ASSUME RequestsAssumption ==
  \A family \in DOMAIN Requests : \A r \in Requests[family] : RequestType(r)

------------------------------------------------------------------------------
(* A request: [explicit, system, names, loads, config, early, mib, parsed],      *)
(* where names is a set of names or NoNames, loads says whether the loader       *)
(* returns modules, early are the codes that each earlier phase emits, by phase, *)
(* and parsed are the modules as the parser leaves them; where there are none    *)
(* the definitions of mib are taken as they are.                                 *)

VARIABLES
  request,
  phase,       \* what is to be done next
  emitted,     \* what every phase has reported: a history variable
  collected,   \* Mib.diagnostics
  outcome      \* what load returns

vars == <<mib, request, phase, emitted, collected, outcome>>

config == request.config

Init ==
  /\ \E family \in DOMAIN Requests : request \in Requests[family]
  /\ mib = request.mib
  /\ phase = "load" /\ emitted = {} /\ collected = {} /\ outcome = "None"

Return(result) == /\ outcome' = result /\ phase' = "done"
                  /\ UNCHANGED <<mib, request, emitted, collected>>

\* The embedded modules are no source of their own: something must be asked for.
NothingAsked == ~ request.explicit /\ ~ request.system /\ request.names = NoNames

NoSources == phase = "load" /\ NothingAsked /\ Return("NoSources")

LoaderFails == phase = "load" /\ ~ NothingAsked /\ ~ request.loads /\ Return("LoadFailed")

Load == /\ phase = "load" /\ ~ NothingAsked /\ request.loads
        /\ phase' = "registration"
        /\ UNCHANGED <<mib, request, emitted, collected, outcome>>

emit(reports) ==
  /\ emitted' = emitted \cup reports
  /\ collected' = collected \cup
       {[severity |-> effective_severity(config, r.code), report |-> r] :
          r \in {e \in reports : should_collect(config, e.code)}}

Phases == <<"registration", "imports", "types", "oids", "semantics", "checks", "result">>
Following(p) == Phases[1 + CHOOSE k \in DOMAIN Phases : Phases[k] = p]

\* What a phase reports is an input, but for the check that follows the types.
ReportsOf(p) == (UNION {ReportModule(c, Modules) : c \in request.early[p]})
                \cup (IF p = "types" THEN check_basetype_imports ELSE {})

\* A module is lowered as soon as it is decoded; what the lexer, the parser and the
\* lowering reported of it is added to the rest on registration.
Register ==
  /\ phase = "registration" /\ phase' = "imports"
  /\ mib' = IF request.parsed = <<>> THEN mib ELSE lower(request.parsed)
  /\ emit(ReportsOf("registration") \cup LoweringReports(request.parsed))
  /\ UNCHANGED <<request, outcome>>

Phase(p) ==
  /\ phase = p /\ phase' = Following(p)
  /\ emit(ReportsOf(p))
  /\ UNCHANGED <<mib, request, outcome>>

\* The values of objects are the part of the phase that the checks read the result of.
CreateObjects ==
  /\ phase = "semantics" /\ phase' = "checks"
  /\ mib' = resolve_values
  /\ emit(ReportsOf("semantics") \cup ValueReports)
  /\ UNCHANGED <<request, outcome>>

------------------------------------------------------------------------------
(* Phase 6: no check changes the model, so what is emitted is the union of *)
(* what each of them reports.                                              *)

ImportReports == check_unused_imports \cup check_obsolete_imports

ObjectReports == UNION {
  check_access_and_status, check_node_parent_kinds, check_table_row_naming,
  check_description_missing, check_integer_misuse, check_trap_in_smiv2, check_opaque_smiv2,
  check_notification_reversibility, check_node_implicit, check_identifier_case_match,
  check_status_per_version, check_module_identity_registration,
  check_smiv2_identifier_hyphens, check_hyphen_in_label, check_capabilities_status,
  check_type_status_usage, check_ip_address_deprecation}

TypeReports == UNION {
  check_type_unreferenced, check_named_number_ordering, check_range_constraints,
  check_type_assignment_smiv2, check_tc_nested, check_enum_subtyping, check_format_hints,
  check_row_status_defaults, check_storage_type_defaults}

TableReports == UNION {
  check_sequence_fields, check_taddress_tdomain, check_inet_address_pairing,
  check_transport_address_pairing, check_defval_constraints, check_index_constraints}

ConformanceReports == UNION {
  check_group_membership, check_group_member_locality, check_compliance_structure,
  check_compliance_status, check_group_unreferenced, check_includes_groups,
  check_creation_requires}

run_checks == UNION {ObjectReports, TypeReports, TableReports, ConformanceReports}

RunChecks ==
  /\ phase = "checks" /\ phase' = "result"
  /\ emit(ImportReports \cup run_checks)
  /\ UNCHANGED <<mib, request, outcome>>

------------------------------------------------------------------------------
(* check_load_result *)

Missing == IF request.names = NoNames THEN {}
           ELSE {n \in request.names : Named(n) = {}}
Failing == {d \in collected : should_fail(config, d.severity)}

MissingModules == phase = "result" /\ Missing # {} /\ Return("MissingModules")

DiagnosticThreshold ==
  phase = "result" /\ Missing = {} /\ Failing # {} /\ Return("DiagnosticThreshold")

Loaded == phase = "result" /\ Missing = {} /\ Failing = {} /\ Return("Loaded")

Next ==
  \/ NoSources \/ LoaderFails \/ Load
  \/ Register
  \/ \E p \in {"imports", "types", "oids"} : Phase(p)
  \/ CreateObjects \/ RunChecks
  \/ MissingModules \/ DiagnosticThreshold \/ Loaded

Spec == Init /\ [][Next]_vars

------------------------------------------------------------------------------
(* Properties *)

Reported(d, codes) == \E r \in emitted : r.def = d /\ r.code \in codes

RangeReports == {"RangeExchanged", "RangeBounds", "RangeAscending", "RangeOverlap",
                 "SizeIllegal", "RangeIllegal", "CounterRangeIllegal", "TimeticksRangeIllegal"}

\* Bodies of the parsed modules, and what was reported of the k-th definition.
ParsedDefs == UNION {{<<m, k>> : k \in DOMAIN request.parsed[m].body} :
                       m \in DOMAIN request.parsed}
ReportedOf(m, k, codes) ==
  \E r \in emitted : r.code \in codes /\ r.module = m /\ "at" \in DOMAIN r /\ r.at = k

\* The modules were loaded and registered, whatever came of it since.
Registered == phase \notin {"load", "registration"} /\ outcome \notin {"NoSources", "LoadFailed"}

DateReports == {"DateLength", "DateCharacter", "DateMonth", "DateDay", "DateHour", "DateMinutes",
                "DateValue"}
RevisionReports == {"RevisionNotDescending", "RevisionAfterUpdate", "RevisionLastUpdated"}

\* Where a MODULE-IDENTITY has all its dates and nothing is reported of them, its
\* revisions go back in time from its LAST-UPDATED, in the order in which the resolver
\* compares the versions of a module (normalize_timestamp), which reads dates on its own.
LastUpdateIsFirst ==
  Registered =>
    \A mk \in ParsedDefs :
      LET d == request.parsed[mk[1]].body[mk[2]]
          dates == RevisionDates(d)
          at(t) == normalize_timestamp(t)
      IN d.sort = "ModuleIdentity" /\ (\A t \in {d.updated} \cup Elements(dates) : t.length # 0)
         /\ ~ ReportedOf(mk[1], mk[2], DateReports \cup RevisionReports)
         => /\ dates # <<>> /\ at(dates[1]) = at(d.updated)
            /\ \A i, j \in DOMAIN dates : i < j => Later(at(dates[i]), at(dates[j]))

\* The ranges of a constraint lie one above the other, all of them and not only
\* neighbours, which are all that collect_range_diags compares; nothing is known of a
\* bound that is no number.
RangesInOrder(d) ==
  LET ranges == Def(d).syntax.constraint.ranges
  IN Resolved(Elements(ranges)) =>
       /\ \A i, j \in DOMAIN ranges : i < j => Less(ranges[i].max, ranges[j].min)
       /\ \A i \in DOMAIN ranges : ~ Less(ranges[i].max, ranges[i].min)

\* The SEQUENCE of a row lists its columns in their order; where a field is listed twice,
\* or two columns have one name, the order is not compared.
FieldsInOrder(d) ==
  LET fields == FieldNames(Fields(d))
      columns == ColumnNames(NodeOf(d))
  IN Repeats(fields) \/ Repeats(columns) \/ fields = columns

\* The labels of named numbers or bits have values of their own after the lowering,
\* which puts positions out of range to 0.
NumbersApart(d) ==
  \A s \in SyntaxesIn(d) :
    LET numbers == lower_type_syntax(s).numbers
    IN \A i, j \in DOMAIN numbers : numbers[i].value = numbers[j].value => i = j

\* Lists that nothing is reported of are in order: ranges (check_range_constraints), the
\* fields of a SEQUENCE (check_sequence_fields), named numbers and bits (the lowering).
AcceptedInOrder ==
  /\ phase = "result" =>
       /\ \A d \in NotSequence(Syntactic) : Reported(d, RangeReports) \/ RangesInOrder(d)
       /\ \A d \in RowsWithSequence :
            \/ Reported(d, {"SequenceNoColumn", "SequenceMissingColumn", "SequenceOrder"})
            \/ FieldsInOrder(d)
  /\ phase = "imports" =>
       \A mk \in ParsedDefs :
         \/ ReportedOf(mk[1], mk[2], {"EnumValueRedefinition", "BitsValueRedefinition",
                                      "BitsNumberNegative", "BitsNumberTooLarge"})
         \/ NumbersApart(request.parsed[mk[1]].body[mk[2]])

\* A numeric default that nothing is reported of is one that the type of the object
\* allows and that its own constraint allows, MIN and MAX in the place of the other
\* apart: the object's narrowing of its type is narrower than both.
DefaultsAllowed ==
  phase = "result" =>
    \A d \in {o \in Objects : Typed(o) /\ Def(o).default.k \in {"Int", "Uint"}} :
      LET written == Def(d).syntax.constraint
          proper(r) == r.min.k \in {"Num", "MIN"} /\ r.max.k \in {"Num", "MAX"}
          inherited == mib.types[Def(d).typ].ranges
      IN ~ Reported(d, {"CounterDefvalIllegal", "DefvalBasetype", "DefvalRange", "DefvalEnum"})
         /\ Resolved(Def(d).ranges.values)
         => /\ inherited.present => Allows(inherited.values, Def(d).default.value)
            /\ written.kind = "Range" /\ (\A r \in Elements(written.ranges) : proper(r))
                 => Allows(Elements(written.ranges), Def(d).default.value)

\* The text has the digits, behind zeros, with some places and a digit before the point.
ShownWith(digits, text, places) ==
  LET shown == SelectSeq(text, IsDigit)
      zeros == Len(shown) - Len(digits)
  IN /\ zeros >= 0 /\ SubSeq(shown, zeros + 1, Len(shown)) = digits
     /\ \A k \in 1 .. zeros : shown[k] = "0"
     /\ Len(text) = Len(shown) + (IF places = 0 THEN 0 ELSE 1)
     /\ places # 0 => Len(text) > places + 1 /\ text[Len(text) - places] = "."

\* The pieces of a text hold all octets but those that say how often to repeat, and a sign
\* is the last piece only where such an octet is the last one.
ShowsAll(data, shown) ==
  LET text == shown.text
      kept == [i \in DOMAIN data |-> IF i \in shown.counts THEN <<>> ELSE <<data[i]>>]
  IN /\ shown.ok
     /\ Seqs!FlattenSeq([k \in DOMAIN text |-> text[k].octets]) = Seqs!FlattenSeq(kept)
     /\ text # <<>> /\ text[Len(text)].format = "sign" => Len(data) \in shown.counts

\* A DISPLAY-HINT that nothing is reported of formats the values of its type, although
\* the formatters read its text again on their own, with limits of their own: an integer
\* with up to MaxPlaces places, octets where no number has more than MaxNumberOctets.  No
\* octet is lost, those that say how often to repeat are all that is not shown, and the
\* text ends in a separator only where such an octet is the last one and shows nothing.
AcceptedHintFormats ==
  phase = "result" =>
    \A d \in {e \in User("TypeDef") : Def(e).hint # <<>> /\ ~ Reported(e, {"InvalidFormat"})} :
      LET hint     == Def(d).hint
          segments == Segments(hint)
          numbers  == {s \in Elements(segments) : s.format \in {"d", "o"}}
          places   == IF Pointed(hint) THEN Value(Rest(hint)) ELSE 0
      IN IF TypeBase(d) \in Numeric
         THEN /\ hint[1] = "d" /\ places <= MaxScale => scale_integer(hint)
              /\ places <= MaxPlaces => \A n \in Numerals : ShownWith(n, format_integer(hint, n), places)
         ELSE (\A s \in numbers : s.length <= MaxNumberOctets) =>
                \A data \in Samples : ShowsAll(data, format_octets(hint, data))

\* The index of a row that check_index_constraints accepts can be encoded: the base
\* types it takes for legal are those the encoding of classify_index_encoding knows.
AcceptedIndexEncodes ==
  phase = "result" =>
    \A d \in {o \in Objects : Def(o).index # <<>>} :
      ~ Reported(d, {"IndexIllegalBasetype"})
      => \A e \in Elements(Def(d).index) :
           e.object # 0 /\ Typed(e.object) => e.encoding # "Unknown"

\* What the checks accept, the code behind the result can use: they look at hints and at
\* index types on their own, before the formatters and the codec do.
AcceptedIsUsable == AcceptedHintFormats /\ AcceptedIndexEncodes

\* Where the configuration reports at least what it fails at, as every preset does, a
\* load that succeeds has met no diagnostic it was to fail at, whichever phase emitted
\* it and whatever its severity was overridden to; an ignored one only if it is fatal.
FailureNotHidden ==
  outcome = "Loaded" /\ should_report(config, config.failAt) =>
    \A r \in emitted :
      LET severity == effective_severity(config, r.code)
      IN should_fail(config, severity) => severity # "Fatal" /\ r.code \in config.ignored

==============================================================================
