------------------------------- MODULE Grammar -------------------------------
(***************************************************************************)
(* The recursive descent of src/src/parser/mod.rs as rules: what each      *)
(* parse function demands, one item after the other.  An item is           *)
(*   a token class  a token of the class is consumed, or it is an error;   *)
(*   an option      its rule if the next token is the first of the rule,   *)
(*                  else nothing; a rule that ends with its own option     *)
(*                  is a loop;                                             *)
(*   a rule         the items of the rule, for some rules chosen by the    *)
(*                  next tokens k, l and n (peek, peek_nth(1), peek_nth(2)).*)
(***************************************************************************)
EXTENDS Lexer

\* The end of a braced list: its brace, or the end of the source.
ListEnd == {"RBrace", "Eof"}

------------------------------------------------------------------------------
(* The module's frame. *)

parse_module_header == <<"identifier", "module_oid", "KwDefinitions", "ColonColonEqual", "KwBegin">>
skip_braced_content(k) ==
  CASE k = "Eof" -> <<>>
    [] k = "RBrace" -> <<"RBrace">>
    [] k = "LBrace" -> <<"LBrace", "skip_braced_content", "skip_braced_content">>
    [] OTHER -> <<"any", "skip_braced_content">>

parse_imports == <<"KwImports", "import_clauses">>
import_clauses(k) ==
  IF k \in {"Semicolon", "KwEnd", "Eof"} THEN <<"imports_end">>
  ELSE <<"import_symbols", "KwFrom", "UppercaseIdent", "import_clauses">>
import_symbols(k) ==
  IF k \in {"KwFrom", "Semicolon", "KwEnd", "Eof"} THEN <<>>
  ELSE IF k \in MacroKeywords \cup TypeKeywords \cup Identifiers
  THEN <<"any", "comma", "import_symbols">> ELSE <<"error">>

------------------------------------------------------------------------------
(* Definitions. *)

\* Where parse_definition finds a definition that begins with k, l, n.
Heads(k, l, n) ==
  \/ k \in Identifiers /\ l = "KwObject" /\ n = "KwIdentifier"
  \/ k \in Identifiers /\ l \in MacroKeywords \ {"KwTextualConvention"}
  \/ k = "UppercaseIdent" /\ l = "KwTextualConvention"
  \/ k \in Identifiers \cup TypeKeywords /\ l = "ColonColonEqual"
  \/ k \in {"UppercaseIdent"} \cup MacroKeywords /\ l = "KwMacro"

parse_object_type ==
  <<"valueName", "KwObjectType", "KwSyntax", "type_syntax", "units", "access_clause", "status",
    "description", "reference", "index_or_augments", "defval", "ColonColonEqual", "oid_assignment">>
parse_module_identity ==
  <<"valueName", "KwModuleIdentity", "KwLastUpdated", "QuotedString", "KwOrganization",
    "QuotedString", "KwContactInfo", "QuotedString", "KwDescription", "QuotedString",
    "revisions", "ColonColonEqual", "oid_assignment">>
parse_object_identity ==
  <<"valueName", "KwObjectIdentity", "status_clause", "KwDescription", "QuotedString",
    "reference", "ColonColonEqual", "oid_assignment">>
parse_notification_type ==
  <<"valueName", "KwNotificationType", "objects", "status_clause", "KwDescription",
    "QuotedString", "reference", "ColonColonEqual", "oid_assignment">>
parse_trap_type ==
  <<"any", "KwTrapType", "KwEnterprise", "identifier", "variables", "description", "reference",
    "ColonColonEqual", "u32">>
parse_textual_convention_body ==
  <<"display_hint", "status_clause", "KwDescription", "QuotedString", "reference", "KwSyntax",
    "type_syntax">>
parse_textual_convention == <<"any", "KwTextualConvention", "convention_body">>
parse_textual_convention_with_assignment ==
  <<"any", "ColonColonEqual", "KwTextualConvention", "convention_body">>
parse_type_assignment == <<"assignedName", "ColonColonEqual", "type_syntax">>
parse_value_assignment ==
  <<"valueName", "KwObject", "KwIdentifier", "ColonColonEqual", "oid_assignment">>
parse_group_def(macro_kw, members_kw) ==
  <<"valueName", macro_kw, members_kw, "identifiers", "status_clause", "KwDescription",
    "QuotedString", "reference", "ColonColonEqual", "oid_assignment">>
parse_module_compliance ==
  <<"valueName", "KwModuleCompliance", "status_clause", "KwDescription", "QuotedString",
    "reference", "compliance_modules", "ColonColonEqual", "oid_assignment">>
parse_compliance_module ==
  <<"KwModule", "module_name", "optional_oid", "mandatory_groups", "refinements",
    "compliance_modules">>
parse_compliance_group == <<"KwGroup", "identifier", "KwDescription", "QuotedString", "refinements">>
parse_compliance_object ==
  <<"KwObject", "identifier", "syntax", "write_syntax", "min_access", "KwDescription",
    "QuotedString", "refinements">>
refinements(k) ==
  CASE k = "KwGroup" -> parse_compliance_group
    [] k = "KwObject" -> parse_compliance_object
    [] OTHER -> <<>>
parse_agent_capabilities ==
  <<"valueName", "KwAgentCapabilities", "KwProductRelease", "QuotedString", "status_clause",
    "KwDescription", "QuotedString", "reference", "supports", "ColonColonEqual", "oid_assignment">>
parse_supports_module ==
  <<"KwSupports", "identifier", "optional_oid", "KwIncludes", "identifiers", "variations", "supports">>
parse_variation_clause ==
  <<"KwVariation", "identifier", "syntax", "write_syntax", "access", "creation_requires",
    "defval", "KwDescription", "QuotedString", "variations">>

\* The definitions named by a macro keyword.
Macros ==
  [KwObjectType |-> parse_object_type, KwModuleIdentity |-> parse_module_identity,
   KwObjectIdentity |-> parse_object_identity, KwNotificationType |-> parse_notification_type,
   KwTrapType |-> parse_trap_type, KwTextualConvention |-> parse_textual_convention,
   KwObjectGroup |-> parse_group_def("KwObjectGroup", "KwObjects"),
   KwNotificationGroup |-> parse_group_def("KwNotificationGroup", "KwNotifications"),
   KwModuleCompliance |-> parse_module_compliance,
   KwAgentCapabilities |-> parse_agent_capabilities]
parse_macro_definition == <<"any", "KwMacro", "macro_end">>

parse_definition(k, l, n) ==
  IF ~ Heads(k, l, n) THEN <<"error">>
  ELSE CASE l = "KwObject" -> parse_value_assignment
         [] l = "KwMacro" -> parse_macro_definition
         [] l = "ColonColonEqual" -> IF n = "KwTextualConvention"
                                     THEN parse_textual_convention_with_assignment
                                     ELSE parse_type_assignment
         [] l \in MacroKeywords -> Macros[l]

------------------------------------------------------------------------------
(* Clauses. *)

parse_access_clause(k) ==
  IF k \in {"KwMaxAccess", "KwAccess", "KwMinAccess"} THEN <<"any", "Access">> ELSE <<"error">>
parse_status_clause == <<"KwStatus", "Status">>
parse_index_or_augments(k) ==
  CASE k = "KwIndex" -> <<"KwIndex", "LBrace", "index_items", "RBrace">>
    [] k = "KwAugments" -> <<"KwAugments", "LBrace", "identifier", "RBrace">>
    [] OTHER -> <<>>
index_items(k) == IF k \in ListEnd THEN <<>> ELSE <<"implied", "index_item", "index_more">>
index_item(k, l) ==
  IF k = "KwOctet" /\ l = "KwString" THEN <<"KwOctet", "KwString">> ELSE <<"indexObject">>

parse_defval_clause == <<"KwDefval", "LBrace", "defval_value", "RBrace">>
parse_defval(k) ==
  CASE k = "LBrace" -> <<"LBrace", "defval_braced">>
    [] k \in Numbers -> <<"i64">>
    [] k \in Identifiers \cup Keywords \cup
             {"NegativeNumber", "QuotedString", "HexString", "BinString"} -> <<"any">>
    [] OTHER -> <<>>
parse_defval_braced_content(k, l) ==
  CASE k = "RBrace" -> <<"RBrace">>
    [] k \in Numbers -> <<"defval_oid", "RBrace">>
    [] k \in Identifiers \cup Keywords ->
         IF l \in {"Comma", "RBrace"} THEN <<"any", "bits_labels", "RBrace">>
         ELSE <<"any", "component_number", "defval_oid", "RBrace">>
    [] OTHER -> <<"skip_braced_content">>
parse_defval_bits_labels(k, l) ==
  IF k # "Comma" THEN <<>>
  ELSE IF l \in ListEnd THEN <<"Comma">> ELSE <<"Comma", "label", "bits_labels">>
collect_defval_oid_components(k) ==
  IF k \in Numbers \cup Identifiers THEN <<"oid_component", "defval_oid">> ELSE <<>>

------------------------------------------------------------------------------
(* Types, constraints and object identifiers. *)

\* A tag may leave out its class and IMPLICIT, and its number.
tagged_type == <<"LBracket", "tag_class", "tag_number", "RBracket", "tag_implicit",
                 "type_syntax", "constraint">>

parse_type_syntax(k, l) ==
  CASE k \in {"KwInteger", "KwBits"} -> <<"any", "named_numbers", "constraint">>
    [] k = "KwOctet" -> <<"KwOctet", "KwString", "constraint">>
    [] k = "KwObject" -> <<"KwObject", "KwIdentifier", "constraint">>
    [] k = "KwSequence" -> IF l = "KwOf" THEN <<"KwSequence", "KwOf", "identifier", "constraint">>
                           ELSE <<"KwSequence", "LBrace", "sequence_fields", "RBrace", "constraint">>
    [] k = "KwChoice" -> <<"KwChoice", "LBrace", "sequence_fields", "RBrace", "constraint">>
    [] k \in {"AppType", "Null"} -> <<"any", "constraint">>
    [] k \in Identifiers -> <<"typeName", "named_numbers", "constraint">>
    [] k = "LBracket" -> tagged_type
    [] OTHER -> <<"error">>

parse_constraint == <<"LParen", "constraint_body">>
constraint_body(k) ==
  IF k = "KwSize" THEN <<"KwSize", "LParen", "range_list", "RParen", "RParen">>
  ELSE <<"range_list", "RParen">>
RangeValues == Numbers \cup Reserved \cup {"NegativeNumber", "HexString", "UppercaseIdent"}
parse_range_list == <<"rangeValue", "range_max", "range_more">>

parse_named_number_list(k) ==
  IF k \in ListEnd THEN <<>> ELSE <<"label", "LParen", "i64", "RParen", "number_more">>
number_more(k) ==
  CASE k = "Comma" -> <<"Comma", "named_number_list">>
    [] k \in ListEnd -> <<>>
    [] OTHER -> <<"named_number_list">>
parse_sequence_fields(k) ==
  IF k \in ListEnd THEN <<>> ELSE <<"identifier", "type_syntax", "comma", "sequence_fields">>

parse_oid_assignment == <<"LBrace", "oid_components", "RBrace">>
oid_components(k) == IF k \in ListEnd THEN <<>> ELSE <<"oid_component", "oid_components">>
parse_oid_component(k, l, n) ==
  CASE k \in Numbers -> <<"u32">>
    [] k = "UppercaseIdent" /\ l = "Dot" /\ n \in Identifiers ->
         <<"UppercaseIdent", "Dot", "any", "component_number">>
    [] k \in Identifiers -> <<"any", "component_number">>
    [] OTHER -> <<"error">>

parse_braced_identifier_list == <<"LBrace", "identifier_list", "RBrace">>
parse_identifier_list(k) == IF k \in ListEnd THEN <<>> ELSE <<"identifier", "identifier_more">>

------------------------------------------------------------------------------

\* The rules that do not look ahead.
Fixed ==
  [convention_body |-> parse_textual_convention_body, status_clause |-> parse_status_clause,
   oid_assignment |-> parse_oid_assignment, identifiers |-> parse_braced_identifier_list,
   range_list |-> parse_range_list]

Options ==
  [module_oid |-> <<"LBrace", "skip_braced_content">>, comma |-> <<"Comma">>,
   macro_end |-> <<"KwEnd">>, exports_end |-> <<"Semicolon">>,
   units |-> <<"KwUnits", "QuotedString">>, status |-> parse_status_clause,
   description |-> <<"KwDescription", "QuotedString">>,
   reference |-> <<"KwReference", "QuotedString">>,
   revisions |-> <<"KwRevision", "QuotedString", "KwDescription", "QuotedString", "revisions">>,
   objects |-> <<"KwObjects", "identifiers">>, variables |-> <<"KwVariables", "identifiers">>,
   display_hint |-> <<"KwDisplayHint", "QuotedString">>,
   compliance_modules |-> parse_compliance_module, module_name |-> <<"UppercaseIdent">>,
   optional_oid |-> parse_oid_assignment, mandatory_groups |-> <<"KwMandatoryGroups", "identifiers">>,
   syntax |-> <<"KwSyntax", "type_syntax">>, write_syntax |-> <<"KwWriteSyntax", "type_syntax">>,
   min_access |-> <<"KwMinAccess", "Access">>, access |-> <<"KwAccess", "Access">>,
   supports |-> parse_supports_module, variations |-> parse_variation_clause,
   creation_requires |-> <<"KwCreationRequires", "identifiers">>, defval |-> parse_defval_clause,
   implied |-> <<"KwImplied">>, index_more |-> <<"Comma", "index_items">>,
   component_number |-> <<"LParen", "u32", "RParen">>, identifier_more |-> <<"Comma", "identifier_list">>,
   named_numbers |-> <<"LBrace", "named_number_list", "RBrace">>, constraint |-> parse_constraint,
   range_max |-> <<"DotDot", "rangeValue">>, range_more |-> <<"Pipe", "range_list">>,
   tag_class |-> <<"tagClass">>, tag_number |-> <<"number">>, tag_implicit |-> <<"KwImplicit">>]

\* The token classes with more than one kind, or with a name for what they mean.
Classes ==
  [any |-> Kinds \ {"Eof"}, error |-> {}, valueName |-> Kinds \ {"Eof"},
   assignedName |-> Kinds \ {"Eof"}, typeName |-> Identifiers,
   identifier |-> Identifiers \cup Reserved, label |-> Identifiers \cup Keywords,
   indexObject |-> Identifiers \cup TypeKeywords,
   u32 |-> Numbers, i64 |-> Numbers \cup {"NegativeNumber"}, number |-> Numbers,
   rangeValue |-> RangeValues,
   tagClass |-> {"KwApplication", "KwUniversal"}]
Class(t) == IF t \in DOMAIN Classes THEN Classes[t] ELSE {t}
IsClass(t) == t \in DOMAIN Classes \cup Kinds

\* The items a rule or an option stands for where the next tokens are k, l and n.
Expansion(t, k, l, n) ==
  CASE t \in DOMAIN Fixed -> Fixed[t]
    [] t \in DOMAIN Options -> IF k \in Class(Options[t][1]) THEN Options[t] ELSE <<>>
    [] t = "refinements" -> refinements(k)
    [] t = "skip_braced_content" -> skip_braced_content(k)
    [] t = "import_clauses" -> import_clauses(k)
    [] t = "import_symbols" -> import_symbols(k)
    [] t = "imports_end" -> IF k = "Semicolon" THEN <<"Semicolon">> ELSE <<>>
    [] t = "access_clause" -> parse_access_clause(k)
    [] t = "index_or_augments" -> parse_index_or_augments(k)
    [] t = "index_items" -> index_items(k)
    [] t = "index_item" -> index_item(k, l)
    [] t = "defval_value" -> parse_defval(k)
    [] t = "defval_braced" -> parse_defval_braced_content(k, l)
    [] t = "bits_labels" -> parse_defval_bits_labels(k, l)
    [] t = "defval_oid" -> collect_defval_oid_components(k)
    [] t = "type_syntax" -> parse_type_syntax(k, l)
    [] t = "constraint_body" -> constraint_body(k)
    [] t = "named_number_list" -> parse_named_number_list(k)
    [] t = "number_more" -> number_more(k)
    [] t = "sequence_fields" -> parse_sequence_fields(k)
    [] t = "oid_components" -> oid_components(k)
    [] t = "oid_component" -> parse_oid_component(k, l, n)
    [] t = "identifier_list" -> parse_identifier_list(k)

\* What is noted, besides errors, when t is consumed as k or expanded before it.
Notes(t, k) ==
  CASE t = "identifier" /\ k \in Reserved -> {"KeywordReserved"}
    [] t = "valueName" /\ k = "UppercaseIdent" -> {"BadIdentifierCase"}
    [] t \in {"typeName", "assignedName"} /\ k = "LowercaseIdent" -> {"BadIdentifierCase"}
    [] t = "u32" /\ k = "BigNumber" -> {"InvalidU32"}
    [] t = "i64" /\ k = "BigNumber" -> {"InvalidI64"}
    [] t = "rangeValue" /\ k = "BigNumber" -> {"UnknownRangeValue"}
    [] t = "number_more" /\ k \notin ListEnd \cup {"Comma"} -> {"MissingComma"}
    [] t = "imports_end" /\ k # "Semicolon" -> {"ParseError"}
    [] OTHER -> {}

==============================================================================
