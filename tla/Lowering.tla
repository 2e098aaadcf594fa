------------------------------- MODULE Lowering -------------------------------
(***************************************************************************)
(* src/src/lower: a parsed module becomes the definitions that the         *)
(* resolver works on.  SMIv1 and SMIv2 forms get one shape, clauses left   *)
(* out get their defaults, and what is wrong with a definition, with its   *)
(* module or with its dates is reported.  INDEX, AUGMENTS and the OIDs are *)
(* handed on unchanged and left out.                                       *)
(*                                                                         *)
(* A parsed module is [name, imports, body, codes]: the import clauses     *)
(* [module, symbols], the definitions, and what the parser reported.       *)
(***************************************************************************)
EXTENDS ObjectValues, LastUpdated

CONSTANTS
  LargePosition,   \* 128, the first bit position that is reported as large
  MaxNesting,      \* how many layers of syntax there are around another
  Now              \* when the module is lowered, as a date is read

ASSUME LoweringAssumption == LargePosition \in Nat /\ MaxNesting \in Nat

\* A parsed definition; a clause that is left out is "" or an empty sequence.
ParsedDef(sort, name) ==
  [sort |-> sort, name |-> name, status |-> "", access |-> "", keyword |-> "",
   described |-> TRUE, empty |-> {}, hint |-> <<>>, syntax |-> <<>>,
   defval |-> [k |-> "None", value |-> 0, label |-> "", labels |-> {}, digits |-> <<>>,
               components |-> <<>>],
   updated |-> [length |-> 0], revisions |-> <<>>,
   names |-> <<>>, modules |-> <<>>, supports |-> <<>>]

\* A parsed syntax; parts are what a constraint, a tag or a CHOICE is about.
ParsedSyntax(form, name) ==
  [form |-> form, name |-> name, numbers |-> <<>>, fields |-> <<>>, parts |-> <<>>,
   constraint |-> [kind |-> "None", ranges |-> <<>>]]

------------------------------------------------------------------------------
(* base_modules.rs, detect_language, lower_imports *)

BaseLanguage ==
  [n \in {"SNMPv2-SMI", "SNMPv2-TC", "SNMPv2-CONF", "RFC1155-SMI", "RFC1065-SMI", "RFC-1212",
          "RFC-1215"} |->
     IF n \in {"SNMPv2-SMI", "SNMPv2-TC", "SNMPv2-CONF"} THEN "SMIv2" ELSE "SMIv1"]
is_base_module(n) == n \in DOMAIN BaseLanguage

Evidence(module) ==
  {BaseLanguage[n] : n \in {c.module : c \in Elements(module.imports)} \cap DOMAIN BaseLanguage}
  \cup {IF d.sort = "ModuleIdentity" THEN "SMIv2" ELSE "SMIv1" :
          d \in {e \in Elements(module.body) : e.sort \in {"ModuleIdentity", "TrapType"}}}

\* A foundation module is what it is known to be, whatever it holds.
detect_language(module) ==
  IF is_base_module(module.name) THEN BaseLanguage[module.name]
  ELSE IF Cardinality(Evidence(module)) = 1 THEN CHOOSE l \in Evidence(module) : TRUE
  ELSE "Unknown"

lower_imports(clauses) ==
  UNION {{<<c.module, s>> : s \in Elements(c.symbols)} : c \in Elements(clauses)}

------------------------------------------------------------------------------
(* lower_type_syntax.  A bound of a range is a number, MIN, MAX, another   *)
(* name, or a number that is none (Raw).                                   *)

Unlimited == [kind |-> "None", ranges |-> <<>>]
Plain(form, name, numbers) ==
  [form |-> form, name |-> name, numbers |-> numbers, fields |-> <<>>, constraint |-> Unlimited]
MissingSyntax == Plain("OctetString", "", <<>>)
NoSyntax == Plain("None", "", <<>>)

AnyName == [k |-> "Named", n |-> 0]
lower_range_value(b) == IF b = AnyName THEN Raw ELSE b
BoundCodes(b) == CASE b \in {MIN, MAX} -> {"MinMaxRange"}
                   [] b = AnyName -> {"UnknownRangeValue"}
                   [] OTHER -> {}

\* A range is written as one bound or as two.
lower_range(bounds) == [min |-> lower_range_value(Head(bounds)),
                        max |-> lower_range_value(Last(bounds))]
lower_constraint(c) ==
  [kind |-> c.kind, ranges |-> [k \in DOMAIN c.ranges |-> lower_range(c.ranges[k])]]
ConstraintCodes(c) == UNION {UNION {BoundCodes(b) : b \in Elements(r)} : r \in Elements(c.ranges)}

MaxPosition == SizeMax * 8 - 1
Position(bit) == [bit EXCEPT !.value = IF @ \in 0 .. MaxPosition THEN @ ELSE 0]
Positions(bits) == [k \in DOMAIN bits |-> Position(bits[k])]

Repeated(numbers, Of(_)) ==
  \E i, j \in DOMAIN numbers : i < j /\ Of(numbers[i]) = Of(numbers[j])
LabelOf(number) == number.label
ValueOf(number) == number.value
Redefinitions(numbers, ofName, ofValue) ==
  (IF Repeated(numbers, LabelOf) THEN {ofName} ELSE {})
  \cup (IF Repeated(numbers, ValueOf) THEN {ofValue} ELSE {})

EnumCodes(numbers, language) ==
  Redefinitions(numbers, "EnumNameRedefinition", "EnumValueRedefinition")
  \cup UNION {(IF n.value \notin IntMin .. IntMax THEN {"EnumValueOutOfRange"} ELSE {})
              \cup (IF n.value = 0 /\ language = "SMIv1" THEN {"EnumZero"} ELSE {}) :
                n \in Elements(numbers)}

PositionCodes(p) ==
  CASE p < 0 -> {"BitsNumberNegative"}
    [] p > MaxPosition -> {"BitsNumberTooLarge"}
    [] p \in LargePosition .. MaxPosition -> {"BitsNumberLarge"}
    [] OTHER -> {}

BitsCodes(bits) ==
  Redefinitions(bits, "BitsNameRedefinition", "BitsValueRedefinition")
  \cup UNION {PositionCodes(b.value) : b \in Elements(bits)}

\* sequence_field_type_name: what the checks look at in the syntax of a field.
FieldType(syntax) ==
  CASE syntax.form = "TypeRef" -> syntax.name
    [] syntax.form = "IntegerEnum" -> "INTEGER"
    [] OTHER -> TypeName(syntax)

\* A syntax from the outside in: below a constraint, a tag and a CHOICE there is what
\* they are about or the alternative that is kept, and below these lie more of them.
Inside(s) == IF s.form \in {"Constrained", "Tagged", "Choice"} /\ s.parts # <<>> THEN s.parts[1] ELSE s
Layers(s) == LET layer[n \in 0 .. MaxNesting] == IF n = 0 THEN s ELSE Inside(layer[n - 1]) IN layer
Innermost(s) == IF Layers(s)[MaxNesting].form = "Choice" THEN MissingSyntax ELSE Layers(s)[MaxNesting]

\* A syntax without its fields and its constraint.
Shape(inner) ==
  CASE inner.form = "Sequence" -> Plain("Sequence", "", <<>>)
    [] inner.form = "Bits" -> Plain("Bits", "", Positions(inner.numbers))
    [] OTHER -> Plain(inner.form, inner.name, inner.numbers)

\* Of several constraints the outermost is kept.
lower_type_syntax(s) ==
  LET inner    == Innermost(s)
      limiting == {n \in 0 .. MaxNesting : Layers(s)[n].form = "Constrained"}
  IN [Shape(inner) EXCEPT
             !.fields = [k \in DOMAIN inner.fields |->
               [name |-> inner.fields[k].name, type |-> FieldType(Innermost(inner.fields[k].syntax))]],
             !.constraint = IF limiting = {} THEN Unlimited
                            ELSE lower_constraint(Layers(s)[First(limiting)].constraint)]

\* A syntax and those below it, the fields of a SEQUENCE included.
Below(s) == IF s.form = "Sequence" THEN {f.syntax : f \in Elements(s.fields)} ELSE {Inside(s)}
Within(s) ==
  LET within[n \in 0 .. MaxNesting] ==
        IF n = 0 THEN {s} ELSE within[n - 1] \cup UNION {Below(t) : t \in within[n - 1]}
  IN within[MaxNesting]

OwnCodes(s, language, base) ==
  LET outside(code) == IF base THEN {} ELSE {code}
  IN CASE s.form = "Constrained" -> ConstraintCodes(s.constraint)
       [] s.form = "Tagged" -> outside("TaggedTypeNotAllowed")
       [] s.form = "Choice" -> outside("ChoiceNotAllowed")
       [] s.form = "Bits" -> BitsCodes(s.numbers)
       [] s.form = "IntegerEnum" -> EnumCodes(s.numbers, language)
       [] OTHER -> {}

SyntaxCodes(s, language, base) == UNION {OwnCodes(t, language, base) : t \in Within(s)}

------------------------------------------------------------------------------
(* lower_definition *)

\* DEFVAL: a lone name stands for a named value, whatever it turns out to be.
lower_defval(v) == [v EXCEPT !.k = CASE @ = "Identifier" -> "Enum"
                                     [] @ = "ObjectIdentifier" -> "OidValue"
                                     [] OTHER -> @]

lower_compliance_module(c) ==
  LET of(k)   == Filtered(c.compliances, {p \in Elements(c.compliances) : p.k = k})
      groups  == of("Group")
      objects == of("Object")
  IN [module |-> c.module, mandatory |-> c.mandatory,
      groups |-> [k \in DOMAIN groups |-> groups[k].name],
      objects |-> [k \in DOMAIN objects |->
                     [name |-> objects[k].name,
                      syntaxes |-> {lower_type_syntax(s) : s \in objects[k].syntaxes}]]]

lower_supports_module(s) ==
  [s EXCEPT !.variations = [k \in DOMAIN @ |->
     [name |-> @[k].name, syntaxes |-> {lower_type_syntax(x) : x \in @[k].syntaxes},
      requires |-> @[k].requires]]]

OrElse(value, default) == IF value = "" THEN default ELSE value

\* What later phases find out about a definition is still unknown.
Definition(d, sort) ==
  [module |-> 0, sort |-> sort, name |-> d.name, registered |-> TRUE, status |-> d.status,
   access |-> "not-accessible", keyword |-> "ACCESS", described |-> TRUE, trap |-> FALSE,
   tc |-> FALSE, hint |-> <<>>, syntax |-> NoSyntax,
   typ |-> NoType, sizes |-> Unconstrained, ranges |-> Unconstrained, enums |-> {}, bits |-> {},
   defval |-> [d.defval EXCEPT !.k = "None"], default |-> Unset, index |-> <<>>, names |-> <<>>,
   members |-> {}, modules |-> <<>>, supports |-> <<>>]

\* The only macro whose clauses may be missing; what was said of the DESCRIPTION is kept.
lower_object_type(d) ==
  [Definition(d, "ObjectType") EXCEPT
     !.status = OrElse(d.status, "current"), !.access = OrElse(d.access, @),
     !.keyword = OrElse(d.keyword, @), !.described = d.described,
     !.syntax = IF d.syntax = <<>> THEN MissingSyntax ELSE lower_type_syntax(d.syntax[1]),
     !.defval = lower_defval(d.defval)]

\* A trap has no OID of its own, and its status is always current.
lower_notification_type(d) == [Definition(d, "Notification") EXCEPT !.names = d.names]
lower_trap_type(d) ==
  [Definition(d, "Notification") EXCEPT !.names = d.names, !.registered = FALSE, !.trap = TRUE,
                                        !.status = "current", !.described = d.described]

lower_textual_convention(d) ==
  [Definition(d, "TypeDef") EXCEPT !.registered = FALSE, !.tc = TRUE, !.hint = d.hint,
                                   !.syntax = lower_type_syntax(d.syntax[1])]
lower_type_assignment(d) ==
  [Definition(d, "TypeDef") EXCEPT !.registered = FALSE, !.status = "current",
                                   !.syntax = lower_type_syntax(d.syntax[1])]

\* What only names a node.
lower_object_identity(d) == Definition(d, d.sort)
lower_value_assignment(d) == [Definition(d, d.sort) EXCEPT !.described = FALSE]

lower_group(d) == [Definition(d, d.sort) EXCEPT !.names = d.names]
lower_module_compliance(d) ==
  [Definition(d, d.sort) EXCEPT !.modules = [k \in DOMAIN d.modules |->
                                               lower_compliance_module(d.modules[k])]]
lower_agent_capabilities(d) ==
  [Definition(d, d.sort) EXCEPT !.supports = [k \in DOMAIN d.supports |->
                                                lower_supports_module(d.supports[k])]]

lower_definition(d) ==
  CASE d.sort = "ObjectType" -> lower_object_type(d)
    [] d.sort = "NotificationType" -> lower_notification_type(d)
    [] d.sort = "TrapType" -> lower_trap_type(d)
    [] d.sort = "TextualConvention" -> lower_textual_convention(d)
    [] d.sort = "TypeAssignment" -> lower_type_assignment(d)
    [] d.sort \in {"ObjectGroup", "NotificationGroup"} -> lower_group(d)
    [] d.sort = "ModuleCompliance" -> lower_module_compliance(d)
    [] d.sort = "AgentCapabilities" -> lower_agent_capabilities(d)
    [] d.sort = "ModuleIdentity" -> Definition(d, d.sort)
    [] d.sort = "ObjectIdentity" -> lower_object_identity(d)
    [] d.sort = "ValueAssignment" -> lower_value_assignment(d)

\* A MACRO, and what could not be parsed, leaves no definition.
Kept(body) == Filtered(body, {d \in Elements(body) : d.sort \notin {"MacroDefinition", "Error"}})
LoweredDefs(body, m) ==
  [k \in DOMAIN Kept(body) |-> [lower_definition(Kept(body)[k]) EXCEPT !.module = m]]

\* The clauses whose text is looked at: a required one as well as an optional one is
\* reported only when it is there and empty.
Emptiable(sort) ==
  CASE sort = "ModuleIdentity" -> {"Description", "Organization", "Contact"}
    [] sort = "ObjectType" -> {"Description", "Reference", "Units"}
    [] sort = "TextualConvention" -> {"Description", "Reference", "Format"}
    [] sort \in {"TypeAssignment", "ValueAssignment", "MacroDefinition", "Error"} -> {}
    [] OTHER -> {"Description", "Reference"}

EmptyCode == [Description |-> "EmptyDescription", Reference |-> "EmptyReference",
              Units |-> "EmptyUnits", Organization |-> "EmptyOrganization",
              Contact |-> "EmptyContact", Format |-> "EmptyFormat"]

SyntaxesIn(d) ==
  Elements(d.syntax)
  \cup (UNION {UNION {p.syntaxes : p \in Elements(c.compliances)} : c \in Elements(d.modules)})
  \cup UNION {UNION {v.syntaxes : v \in Elements(s.variations)} : s \in Elements(d.supports)}

DefinitionCodes(d, language, base) ==
  {EmptyCode[clause] : clause \in d.empty \cap Emptiable(d.sort)}
  \cup (IF \E r \in Elements(d.revisions) : r.empty THEN {"EmptyRevisionDescription"} ELSE {})
  \cup (IF d.sort = "ObjectType" /\ d.syntax = <<>> THEN {"UnknownTypeSyntax"} ELSE {})
  \cup (IF d.sort = "MacroDefinition" /\ ~ base THEN {"MacroNotAllowed"} ELSE {})
  \cup UNION {SyntaxCodes(s, language, base) : s \in SyntaxesIn(d)}

------------------------------------------------------------------------------
(* dates.rs.  A date is the text of LastUpdated; an empty text is no date  *)
(* and nothing is said of it.                                              *)

Year(date) == IF date.length = 13 THEN date.year
              ELSE IF date.year >= 70 THEN 1900 + date.year ELSE 2000 + date.year

is_leap_year(y) == (y % 4 = 0 /\ y % 100 # 0) \/ y % 400 = 0
LastDay(y, month) == CASE month \in {1, 3, 5, 7, 8, 10, 12} -> 31
                       [] month \in {4, 6, 9, 11} -> 30
                       [] month = 2 -> IF is_leap_year(y) THEN 29 ELSE 28

WellFormed(date) == date.length \in {11, 13} /\ date.digits

\* The first thing that is wrong with a date.
Fault(date) ==
  IF date.length = 0 THEN {}
  ELSE IF date.length \notin {11, 13} THEN {"DateLength"}
  ELSE IF ~ date.digits THEN {"DateCharacter"}
  ELSE IF date.month \notin 1 .. 12 THEN {"DateMonth"}
  ELSE IF date.day \notin 1 .. 31 THEN {"DateDay"}
  ELSE IF date.hour > 23 THEN {"DateHour"}
  ELSE IF date.minute > 59 THEN {"DateMinutes"}
  ELSE IF date.day > LastDay(Year(date), date.month) THEN {"DateValue"} ELSE {}

Parsed(date) == date.length # 0 /\ Fault(date) = {}
Reading(date) == <<Year(date), date.month, date.day, date.hour, date.minute>>
Before(a, b) == \E k \in 1 .. 5 : a[k] < b[k] /\ \A j \in 1 .. k - 1 : a[j] = b[j]

DateCodes(date) ==
  Fault(date)
  \cup (IF WellFormed(date) /\ date.length = 11 THEN {"DateYear2Digits"} ELSE {})
  \cup (IF Parsed(date) /\ Before(Reading(date), <<1990, 1, 1, 0, 0>>) THEN {"DateInPast"} ELSE {})
  \cup (IF Parsed(date) /\ Before(Now, Reading(date)) THEN {"DateInFuture"} ELSE {})

\* Mutant: a revision may be as old as the one before it.
NotAfter(previous, current) == Before(Reading(previous), Reading(current))

NotDescending(previous, current) == ~ Before(Reading(current), Reading(previous))

\* Each revision is compared with the one before it, if both are dates, and each with
\* the LAST-UPDATED; that the latter is among them is a comparison of texts.
RevisionCodes(updated, dates) ==
  (IF \E k \in 2 .. Len(dates) : /\ Parsed(dates[k - 1]) /\ Parsed(dates[k])
                                 /\ NotDescending(dates[k - 1], dates[k])
   THEN {"RevisionNotDescending"} ELSE {})
  \cup (IF Parsed(updated) /\ \E r \in Elements(dates) :
                                Parsed(r) /\ Before(Reading(updated), Reading(r))
        THEN {"RevisionAfterUpdate"} ELSE {})
  \cup (IF updated.length # 0 /\ updated \notin Elements(dates)
        THEN {"RevisionLastUpdated"} ELSE {})

RevisionDates(d) == [k \in DOMAIN d.revisions |-> d.revisions[k].date]

check_module_identity_dates(d) ==
  IF d.sort # "ModuleIdentity" THEN {}
  ELSE (UNION {DateCodes(t) : t \in {d.updated} \cup Elements(RevisionDates(d))})
       \cup RevisionCodes(d.updated, RevisionDates(d))

------------------------------------------------------------------------------
(* The checks of a whole module.  They look at the definitions that are    *)
(* left, so that a MACRO before MODULE-IDENTITY does not count.            *)

MacroOf == [ModuleIdentity |-> "MODULE-IDENTITY", ObjectIdentity |-> "OBJECT-IDENTITY",
            ObjectType |-> "OBJECT-TYPE", Notification |-> "NOTIFICATION-TYPE",
            TypeDef |-> "TEXTUAL-CONVENTION", ObjectGroup |-> "OBJECT-GROUP",
            NotificationGroup |-> "NOTIFICATION-GROUP",
            ModuleCompliance |-> "MODULE-COMPLIANCE", AgentCapabilities |-> "AGENT-CAPABILITIES"]

UsedMacros(definitions) ==
  {MacroOf[d.sort] : d \in {e \in Elements(definitions) :
                              /\ e.sort \in DOMAIN MacroOf
                              /\ ~ e.trap /\ (e.sort = "TypeDef" => e.tc)}}

check_macro_imports(module, definitions) ==
  IF UsedMacros(definitions) \subseteq {i[2] : i \in lower_imports(module.imports)} THEN {}
  ELSE {"MacroNotImported"}

check_module_identity_structure(definitions) ==
  LET identities == {k \in DOMAIN definitions : definitions[k].sort = "ModuleIdentity"}
  IN IF identities = {} THEN {"MissingModuleIdentity"}
     ELSE (IF 1 \in identities THEN {} ELSE {"ModuleIdentityNotFirst"})
          \cup (IF Cardinality(identities) > 1 THEN {"ModuleIdentityMultiple"} ELSE {})

check_module_name_suffix(name) ==
  IF Spelled(name).ending = "-MIB" THEN {} ELSE {"ModuleNameSuffix"}

ModuleCodes(module) ==
  IF detect_language(module) # "SMIv2" \/ is_base_module(module.name) THEN {}
  ELSE check_module_name_suffix(module.name)
       \cup check_module_identity_structure(LoweredDefs(module.body, 1))
       \cup check_macro_imports(module, LoweredDefs(module.body, 1))

------------------------------------------------------------------------------
(* lower, of all the parsed modules *)

\* What is reported of a module: by the parser, of a definition, and of it as a whole.
LoweringReport(code, m, k) == [code |-> code, module |-> m, def |-> 0, node |-> Root, at |-> k]
LoweringReports(parsed) ==
  UNION {LET module == parsed[m]
             codes(d) == DefinitionCodes(d, detect_language(module), is_base_module(module.name))
                         \cup check_module_identity_dates(d)
         IN {LoweringReport(c, m, 0) : c \in module.codes \cup ModuleCodes(module)}
            \cup UNION {{LoweringReport(c, m, k) : c \in codes(module.body[k])} :
                          k \in DOMAIN module.body} :
           m \in DOMAIN parsed}

\* The resolver's modules and definitions, which lists those of one after another's.
lower(parsed) ==
  [mib EXCEPT
     !.defs = Seqs!FlattenSeq([m \in DOMAIN parsed |-> LoweredDefs(parsed[m].body, m)]),
     !.modules = [m \in DOMAIN parsed |->
        [mib.modules[m] EXCEPT !.name = parsed[m].name,
                               !.language = detect_language(parsed[m]),
                               !.base = is_base_module(parsed[m].name),
                               !.symbols = lower_imports(parsed[m].imports)]]]

==============================================================================
