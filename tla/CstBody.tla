------------------------------- MODULE CstBody -------------------------------
(***************************************************************************)
(* The body of a module as a concrete syntax tree, src/src/cst/body.rs:    *)
(* where definitions begin, their clauses, types and object identifiers,   *)
(* and whether a definition is complete.  Every token of the source        *)
(* becomes a leaf; what cannot be parsed becomes an Error node.            *)
(*                                                                         *)
(* A function of the code that parses from a token on is an operator whose *)
(* value is the construct it has built: els, the elements so far; at, the  *)
(* token behind them; errs, the tokens where a diagnostic was emitted.     *)
(* The limit of 256 tokens to look ahead for an assignment is left out:    *)
(* documents are shorter.                                                  *)
(***************************************************************************)
EXTENDS Lexer

K(i) == document.tokens[i].kind
Trivia == {"Whitespace", "Comment"}

ClauseBoundaries ==
  {"KwSyntax", "KwMaxAccess", "KwMinAccess", "KwAccess", "KwStatus", "KwDescription", "KwReference",
   "KwIndex", "KwDefval", "KwAugments", "KwUnits", "KwDisplayHint", "KwObjects",
   "KwNotifications", "KwRevision", "KwLastUpdated", "KwOrganization", "KwContactInfo",
   "KwEnterprise", "KwVariables", "KwProductRelease", "KwModule", "KwMandatoryGroups", "KwGroup",
   "KwWriteSyntax", "KwSupports", "KwIncludes", "KwVariation", "KwCreationRequires"}
TypeReferences == Identifiers \cup TypeKeywords \cup Reserved
TypeStarts == TypeReferences \cup {"KwSequence", "KwChoice", "LBracket", "KwObject"}
EnumLabels == Identifiers \cup {"Status", "Access"}
RangeValues == Numbers \cup {"NegativeNumber", "HexString", "UppercaseIdent"} \cup Reserved
Assignment == "ColonColonEqual"
Stops == ClauseBoundaries \cup {Assignment}

Closer == [LParen |-> "RParen", LBracket |-> "RBracket", LBrace |-> "RBrace"]
Openers == DOMAIN Closer
Closers == {Closer[o] : o \in Openers}

------------------------------------------------------------------------------
(* Tokens. *)

\* next_significant: the first token from i on that is not trivia, or the limit.
RECURSIVE Sig(_, _)
Sig(i, limit) == IF i >= limit THEN limit ELSE IF K(i) \in Trivia THEN Sig(i + 1, limit) ELSE i
Next1(i, limit) == Sig(i + 1, limit)
\* The kind of a token that may not be there.
KindAt(i, limit) == IF i < limit THEN K(i) ELSE "None"

RECURSIVE previous_significant(_, _)
previous_significant(i, low) ==
  IF i - 1 < low THEN 0 ELSE IF K(i - 1) \in Trivia THEN previous_significant(i - 1, low) ELSE i - 1

Letters(i) == {document.text[p] : p \in document.tokens[i].first .. document.tokens[i].next - 1}
RECURSIVE starts_source_line(_)
starts_source_line(i) ==
  i > 1 /\ K(i - 1) \in Trivia /\ ("\n" \in Letters(i - 1) \/ starts_source_line(i - 1))
starts_unindented_source_line(i) == At(document.text, document.tokens[i].first - 1) = "\n"

is_nested_construct_boundary(i) ==
  K(i) = Assignment \/ (K(i) \in ClauseBoundaries /\ starts_source_line(i))

\* The brace that closes the one at i, or the limit.
RECURSIVE MatchingFrom(_, _, _)
MatchingFrom(i, limit, depth) ==
  LET d == CASE K(i) = "LBrace" -> depth + 1 [] K(i) = "RBrace" -> depth - 1 [] OTHER -> depth
  IN IF i = limit \/ d = 0 THEN i ELSE MatchingFrom(i + 1, limit, d)
matching_rbrace(i, limit) == MatchingFrom(i, limit, 0)

\* Is there an assignment outside of all brackets?  What ends the search depends on who
\* asks; from is the token the search began with.
Barrier(rule, i, from, outside) ==
  CASE rule = "import" -> \/ K(i) \in {"KwFrom", "Semicolon", "KwEnd", "KwImports", "KwExports"}
                          \/ outside /\ K(i) = "Comma"
    [] rule = "type" -> outside /\ K(i) \in ClauseBoundaries \cup {"KwEnd"}
    [] rule = "definition" ->
         /\ outside
         /\ \/ K(i) \in {"Semicolon", "KwEnd", "KwImports", "KwExports"}
            \/ /\ i # from /\ starts_unindented_source_line(i)
               /\ K(i) \in Identifiers \cup TypeKeywords \cup MacroKeywords
RECURSIVE AssignmentAhead(_, _, _, _, _)
AssignmentAhead(rule, i, limit, from, open) ==
  LET next == Next1(i, limit)
  IN CASE i = limit -> FALSE
       [] i < limit /\ Barrier(rule, i, from, open = <<>>) -> FALSE
       [] OTHER ->
            CASE K(i) \in Openers -> AssignmentAhead(rule, next, limit, from, <<Closer[K(i)]>> \o open)
              [] K(i) \in Closers -> /\ open # <<>> /\ Head(open) = K(i)
                                     /\ AssignmentAhead(rule, next, limit, from, Tail(open))
              [] K(i) = Assignment /\ open = <<>> -> TRUE
              [] OTHER -> AssignmentAhead(rule, next, limit, from, open)
HasAssignment(rule, i, limit) == AssignmentAhead(rule, i, limit, i, <<>>)

------------------------------------------------------------------------------
(* Constructs. *)

Leaf(i) == [kind |-> K(i), token |-> i]
Node(kind, els) == [kind |-> kind, children |-> els]
IsNode(e) == "children" \in DOMAIN e
Element(i) == IF K(i) = "Error" THEN Node("Error", <<Leaf(i)>>) ELSE Leaf(i)

Begin(i) == [els |-> <<>>, at |-> i, errs |-> {}]
push_plain(s, i) ==
  [s EXCEPT !.els = @ \o [n \in 1 .. i - s.at |-> Element(s.at + n - 1)], !.at = i]
Take(s, i) == push_plain(s, i + 1)
push_error(s, i) ==
  LET t == push_plain(s, i)
  IN [t EXCEPT !.els = Append(@, Node("Error", <<Leaf(i)>>)), !.at = i + 1]
emit_at(s, i) == [s EXCEPT !.errs = @ \cup {i}]
Attach(s, n) == [els |-> s.els \o n.els, at |-> n.at, errs |-> s.errs \cup n.errs]
Finish(kind, s) == [s EXCEPT !.els = <<Node(kind, @)>>]
LastKind(s) == s.els[Len(s.els)].kind

\* A token of some kinds is demanded: another one is left if it stops the construct,
\* else it is an error of its own.
Expect(s, limit, kinds, stops) ==
  LET i == Sig(s.at, limit)
  IN CASE i = limit -> emit_at(s, limit)
       [] KindAt(i, limit) \in kinds -> Take(s, i)
       [] KindAt(i, limit) \in stops \ kinds -> emit_at(push_plain(s, i), i)
       [] OTHER -> emit_at(push_error(s, i), i)

\* A value in parentheses, after what it belongs to.
CloseParen(s, limit) ==
  LET i == Sig(s.at, limit)
  IN CASE i = limit -> emit_at(s, limit)
       [] KindAt(i, limit) = "RParen" -> Take(s, i)
       [] OTHER -> emit_at(push_plain(s, i), i)
InParentheses(s, limit, values) ==
  LET i == Sig(s.at, limit)
  IN CASE KindAt(i, limit) \in values -> CloseParen(Take(s, i), limit)
       [] KindAt(i, limit) = "RParen" -> emit_at(Take(s, i), i)
       [] OTHER -> Expect(s, limit, values, {})
Parenthesized(s, limit, values) == InParentheses(Take(s, Sig(s.at, limit)), limit, values)

------------------------------------------------------------------------------
(* Object identifiers, types and lists. *)

\* The name at i of a component may be that of a module, and its number may follow.
Qualified(name, i, limit) ==
  LET dot == Sig(name.at, limit)
  IN IF K(i) = "UppercaseIdent" /\ KindAt(dot, limit) = "Dot"
     THEN Expect(Take(name, dot), limit, Identifiers, {"RBrace"}) ELSE name
Numbered(s, limit) ==
  IF s.errs = {} /\ KindAt(Sig(s.at, limit), limit) = "LParen"
  THEN Parenthesized(s, limit, Numbers) ELSE s
parse_oid_component(i, limit) ==
  Finish("OidComponent",
    CASE K(i) \in Numbers -> Take(Begin(i), i)
      [] K(i) \in Identifiers -> Numbered(Qualified(Take(Begin(i), i), i, limit), limit)
      [] OTHER -> emit_at(push_error(Begin(i), i), i))

parse_named_number(i, limit) ==
  LET label == Take(Begin(i), i)
  IN Finish("NamedNumber",
       IF K(i) \notin EnumLabels THEN emit_at(push_error(Begin(i), i), i)
       ELSE IF KindAt(Sig(label.at, limit), limit) = "LParen"
       THEN Parenthesized(label, limit, Numbers \cup {"NegativeNumber"})
       ELSE emit_at(push_plain(label, Sig(label.at, limit)), Sig(label.at, limit)))

parse_range(i, limit) ==
  LET low == Take(Begin(i), i)
      dots == Sig(low.at, limit)
  IN Finish("Range",
       IF K(i) \notin RangeValues THEN emit_at(push_error(Begin(i), i), i)
       ELSE IF KindAt(dots, limit) # "DotDot" THEN low
       ELSE Expect(Take(low, dots), limit, RangeValues, {"Pipe", "RParen"}))

parse_index_item(i, limit) ==
  LET implied == Take(Begin(i), i)
      j == IF K(i) = "KwImplied" THEN Sig(implied.at, limit) ELSE i
      s == IF K(i) = "KwImplied" THEN implied ELSE Begin(i)
      named == Take(s, j)
      string == Sig(named.at, limit)
      item == Expect(s, limit, Identifiers \cup {"KwOctet"}, IF j = i THEN {} ELSE {"RBrace"})
  IN Finish("IndexItem",
       IF KindAt(j, limit) = "KwOctet" /\ KindAt(string, limit) = "KwString"
       THEN Take(named, string) ELSE item)

\* What stands in a list: the kind of its items, what separates them and what ends it.
Lists ==
  [oid |-> [sep |-> "Comma", close |-> "RBrace"], numbers |-> [sep |-> "Comma", close |-> "RBrace"],
   fields |-> [sep |-> "Comma", close |-> "RBrace"], index |-> [sep |-> "Comma", close |-> "RBrace"],
   ranges |-> [sep |-> "Pipe", close |-> "RParen"]]
\* A list that is not closed ends where the next clause begins.
Cut(list, i) ==
  IF list = "oid" THEN K(i) \in ClauseBoundaries /\ starts_source_line(i)
  ELSE is_nested_construct_boundary(i)

RECURSIVE parse_type_syntax(_, _)
ExpectType(s, limit, stops) ==
  LET i == Sig(s.at, limit)
  IN IF KindAt(i, limit) \in TypeStarts THEN Attach(push_plain(s, i), parse_type_syntax(i, limit))
     ELSE Expect(s, limit, {}, stops)

parse_sequence_field(i, limit) ==
  Finish("SequenceField",
    IF K(i) \in Identifiers THEN ExpectType(Take(Begin(i), i), limit, {"Comma", "RBrace"})
    ELSE emit_at(push_error(Begin(i), i), i))

Item(list, i, limit) ==
  CASE list = "oid" -> parse_oid_component(i, limit)
    [] list = "numbers" -> parse_named_number(i, limit)
    [] list = "fields" -> parse_sequence_field(i, limit)
    [] list = "index" -> parse_index_item(i, limit)
    [] list = "ranges" -> parse_range(i, limit)
RECURSIVE Items(_, _, _)
Items(s, limit, list) ==
  LET i == Sig(s.at, limit)
  IN CASE i = limit -> emit_at(push_plain(s, limit), limit)
       [] i < limit /\ Cut(list, i) -> emit_at(push_plain(s, i), i)
       [] OTHER ->
            CASE K(i) = Lists[list].close -> Take(s, i)
              [] K(i) = Lists[list].sep ->
                   Items(IF list = "oid" THEN emit_at(Take(s, i), i) ELSE Take(s, i), limit, list)
              [] OTHER -> Items(Attach(push_plain(s, i), Item(list, i, limit)), limit, list)

parse_oid_assignment(open, limit) ==
  Finish("OidAssignment", Items(Take(Begin(open), open), limit, "oid"))

parse_integer_or_bits(i, limit) ==
  LET word == Take(Begin(i), i)
      open == Sig(word.at, limit)
  IN IF KindAt(open, limit) # "LBrace" THEN Finish("TypeRefSyntax", word)
     ELSE Finish(IF K(i) = "KwBits" THEN "BitsSyntax" ELSE "IntegerEnumSyntax",
                 Items(Take(word, open), limit, "numbers"))

parse_two_word_type(kind, i, limit, second) ==
  Finish(kind, Expect(Take(Begin(i), i), limit, {second}, Kinds))

parse_fields_type(kind, i, limit) ==
  LET s == Expect(Take(Begin(i), i), limit, {"LBrace"}, Kinds)
  IN Finish(kind, IF s.errs = {} THEN Items(s, limit, "fields") ELSE s)

parse_sequence(i, limit) ==
  LET of == Next1(i, limit)
  IN IF KindAt(of, limit) = "KwOf"
     THEN Finish("SequenceOfSyntax", Expect(Take(Begin(i), of), limit, TypeReferences, Stops))
     ELSE parse_fields_type("SequenceSyntax", i, limit)

\* A token of some kinds if it is there.
Maybe(s, limit, kinds) ==
  IF KindAt(Sig(s.at, limit), limit) \in kinds THEN Take(s, Sig(s.at, limit)) ELSE s

\* A token that is demanded, and where it is missing that is said at once.
Demanded(s, limit, kinds) ==
  LET i == Sig(s.at, limit) IN IF KindAt(i, limit) \in kinds THEN Take(s, i) ELSE emit_at(s, s.at)

TaggedType(s, limit) ==
  IF LastKind(s) # "RBracket" THEN s ELSE ExpectType(Maybe(s, limit, {"KwImplicit"}), limit, Stops)
parse_tagged(i, limit) ==
  LET class == Maybe(Take(Begin(i), i), limit, {"KwApplication", "KwUniversal"})
      close == Expect(Demanded(class, limit, Numbers), limit, {"RBracket"}, Kinds)
  IN Finish("TaggedSyntax", TaggedType(close, limit))

CloseSize(s, limit) ==
  IF LastKind(s) # "RParen" THEN s ELSE Expect(s, limit, {"RParen"}, Kinds)
parse_constraint(open, limit) ==
  LET s == Take(Begin(open), open)
      size == Sig(s.at, limit)
  IN Finish("Constraint",
       IF KindAt(size, limit) # "KwSize" THEN Items(s, limit, "ranges")
       ELSE CloseSize(Items(Demanded(Take(s, size), limit, {"LParen"}), limit, "ranges"), limit))

\* A type with the constraint that may follow it.
Constrained(base, limit) ==
  LET open == Sig(base.at, limit)
  IN IF KindAt(open, limit) # "LParen" THEN base
     ELSE Finish("ConstrainedSyntax",
                 Attach(push_plain(base, open), parse_constraint(open, limit)))
parse_type_syntax(i, limit) ==
  Constrained(
    CASE K(i) = "KwOctet" -> parse_two_word_type("OctetStringSyntax", i, limit, "KwString")
      [] K(i) = "KwObject" -> parse_two_word_type("ObjectIdentifierSyntax", i, limit, "KwIdentifier")
      [] K(i) = "KwSequence" -> parse_sequence(i, limit)
      [] K(i) = "KwChoice" -> parse_fields_type("ChoiceSyntax", i, limit)
      [] K(i) = "LBracket" -> parse_tagged(i, limit)
      [] K(i) \in TypeReferences \ {"KwOctet"} -> parse_integer_or_bits(i, limit),
    limit)

------------------------------------------------------------------------------
(* Clauses. *)

Valued ==
  [KwMaxAccess |-> "AccessClause", KwAccess |-> "AccessClause", KwMinAccess |-> "AccessClause",
   KwStatus |-> "StatusClause", KwDescription |-> "DescriptionClause",
   KwReference |-> "ReferenceClause", KwUnits |-> "UnitsClause",
   KwDisplayHint |-> "DisplayHintClause", KwLastUpdated |-> "LastUpdatedClause",
   KwOrganization |-> "OrganizationClause", KwContactInfo |-> "ContactInfoClause",
   KwProductRelease |-> "ProductReleaseClause", KwRevision |-> "RevisionClause",
   KwEnterprise |-> "EnterpriseClause"]
ValuesOf(clause) ==
  CASE clause = "AccessClause" -> {"Access"}
    [] clause = "StatusClause" -> {"Status"}
    [] clause = "EnterpriseClause" -> Identifiers
    [] OTHER -> {"QuotedString"}
Listing ==
  [KwObjects |-> "ObjectsClause", KwNotifications |-> "NotificationsClause",
   KwVariables |-> "VariablesClause", KwMandatoryGroups |-> "MandatoryGroupsClause",
   KwIncludes |-> "IncludesClause", KwCreationRequires |-> "CreationRequiresClause",
   KwAugments |-> "AugmentsClause"]
Typing == [KwSyntax |-> "SyntaxClause", KwWriteSyntax |-> "WriteSyntaxClause"]
ClauseStarts == DOMAIN Valued \cup DOMAIN Listing \cup DOMAIN Typing \cup {"KwIndex", "KwDefval"}

RECURSIVE Names(_, _, _)
Names(s, limit, expected) ==
  LET i == Sig(s.at, limit)
      t == Take(s, i)
  IN CASE i = limit -> emit_at(push_plain(s, limit), limit)
       [] i < limit /\ is_nested_construct_boundary(i) -> emit_at(push_plain(s, i), i)
       [] OTHER ->
            CASE K(i) = "RBrace" -> t
              [] K(i) \in Identifiers -> Names(IF expected THEN t ELSE emit_at(t, i), limit, FALSE)
              [] K(i) = "Comma" -> Names(IF expected THEN emit_at(t, i) ELSE t, limit, TRUE)
              [] OTHER -> Names(emit_at(push_error(s, i), i), limit, expected)

\* The clause from its brace on.
Opened(i, limit) == Expect(Take(Begin(i), i), limit, {"LBrace"}, ClauseBoundaries)

parse_name_list_clause(i, limit) ==
  LET open == Opened(i, limit) IN IF open.errs = {} THEN Names(open, limit, TRUE) ELSE open
SingleName(s) ==
  LET Count(kinds) == Cardinality({n \in DOMAIN s.els : s.els[n].kind \in kinds})
  IN IF Count(Identifiers) # 1 \/ Count({"Comma"}) > 0 THEN emit_at(s, s.at) ELSE s
parse_single_name_braced_clause(i, limit) == SingleName(parse_name_list_clause(i, limit))

Depth(from, i) == Cardinality({j \in from .. i - 1 : K(j) = "LBrace"})
                  - Cardinality({j \in from .. i - 1 : K(j) = "RBrace"})
parse_balanced_content(open, limit) ==
  LET close == matching_rbrace(open, limit)
      cuts == {i \in open + 1 .. limit - 1 : Depth(open, i) = 1 /\ is_nested_construct_boundary(i)}
      cut == CHOOSE i \in cuts \cup {limit} : \A j \in cuts : i <= j
  IN Finish("DefvalContent",
       IF close < limit THEN Take(Begin(open), close) ELSE emit_at(push_plain(Begin(open), cut), cut))

parse_defval_clause(i, limit) ==
  LET brace == Next1(i, limit)
      s == Opened(i, limit)
  IN IF s.errs # {} THEN s
     ELSE Attach(push_plain(Take(Begin(i), i), brace), parse_balanced_content(brace, limit))

parse_index_clause(i, limit) ==
  LET open == Opened(i, limit) IN IF open.errs = {} THEN Items(open, limit, "index") ELSE open

parse_clause(i, limit) ==
  CASE K(i) \in DOMAIN Valued ->
         Finish(Valued[K(i)], Expect(Take(Begin(i), i), limit, ValuesOf(Valued[K(i)]), Stops))
    [] K(i) \in DOMAIN Typing -> Finish(Typing[K(i)], ExpectType(Take(Begin(i), i), limit, Stops))
    [] K(i) = "KwIndex" -> Finish("IndexClause", parse_index_clause(i, limit))
    [] K(i) = "KwDefval" -> Finish("DefvalClause", parse_defval_clause(i, limit))
    [] K(i) = "KwAugments" -> Finish("AugmentsClause", parse_single_name_braced_clause(i, limit))
    [] K(i) \in DOMAIN Listing \ {"KwAugments"} ->
         Finish(Listing[K(i)], parse_name_list_clause(i, limit))

------------------------------------------------------------------------------
(* The sections of a definition: what begins the parts of a section, what  *)
(* ends it and what may stand behind its keyword.                          *)

Parts ==
  [ModuleComplianceDefinition |-> [KwModule |-> "ComplianceModule"],
   AgentCapabilitiesDefinition |-> [KwSupports |-> "SupportsModule"],
   ComplianceModule |-> [KwGroup |-> "ComplianceGroup", KwObject |-> "ComplianceObject"],
   SupportsModule |-> [KwVariation |-> "VariationClause"],
   ComplianceGroup |-> <<>>, ComplianceObject |-> <<>>, VariationClause |-> <<>>]
EndsOf(section) ==
  CASE section \in {"ModuleComplianceDefinition", "AgentCapabilitiesDefinition"} -> {}
    [] OTHER ->
         {"KwStatus", "KwReference", Assignment} \cup
         (CASE section = "ComplianceModule" -> {"KwModule"}
            [] section \in {"ComplianceGroup", "ComplianceObject"} ->
                 {"KwGroup", "KwObject", "KwModule", "KwMandatoryGroups"}
            [] section = "SupportsModule" -> {"KwSupports", "KwProductRelease"}
            [] section = "VariationClause" ->
                 {"KwVariation", "KwSupports", "KwIncludes", "KwProductRelease"})

parse_assigned_oid(s, i, limit) ==
  LET open == Next1(i, limit) IN Attach(push_plain(s, open), parse_oid_assignment(open, limit))
AssignsOid(i, limit) == K(i) = Assignment /\ KindAt(Next1(i, limit), limit) = "LBrace"

RECURSIVE parse_section(_, _, _)
RECURSIVE SectionFrom(_, _, _)
SectionFrom(s, limit, section) ==
  LET i == Sig(s.at, limit)
      t == push_plain(s, i)
  IN CASE i = limit -> t
       [] i < limit /\ K(i) \in EndsOf(section) -> t
       [] OTHER ->
            SectionFrom(CASE K(i) \in DOMAIN Parts[section] ->
                               Attach(t, parse_section(Parts[section][K(i)], i, limit))
                          [] K(i) \in ClauseStarts -> Attach(t, parse_clause(i, limit))
                          [] AssignsOid(i, limit) -> parse_assigned_oid(t, i, limit)
                          [] OTHER -> Take(t, i),
                        limit, section)

parse_section(section, i, limit) ==
  LET names == IF section = "ComplianceModule" THEN {"UppercaseIdent"} ELSE Identifiers
      named == Maybe(Take(Begin(i), i), limit, names)
      open == Sig(named.at, limit)
      head == IF section \in {"ComplianceModule", "SupportsModule"} /\ KindAt(open, limit) = "LBrace"
              THEN Attach(push_plain(named, open), parse_oid_assignment(open, limit)) ELSE named
  IN Finish(section, SectionFrom(head, limit, section))

------------------------------------------------------------------------------
(* The other definitions, which have no sections.                          *)

is_oid_assignment_context(i, start, assignment) ==
  /\ assignment = i
  /\ KindAt(Next1(start, i), i) \in
       ({"KwObject"} \cup MacroKeywords) \ {"KwTextualConvention", "KwTrapType"}

is_type_context(i, start, limit, assignment) ==
  LET p == previous_significant(i, start)
  IN /\ K(i) \in TypeStarts /\ p # 0
     /\ CASE K(p) \in {"KwSyntax", "KwWriteSyntax"} -> TRUE
          [] K(p) = Assignment -> assignment = p /\ Next1(start, p + 1) = p
          [] OTHER -> K(p) \in Identifiers /\ HasAssignment("type", i, limit)

\* The assignment is the first one of the definition, or 0 before there is one.
RECURSIVE FragmentFrom(_, _, _, _)
FragmentFrom(s, start, limit, assignment) ==
  LET i == Sig(s.at, limit)
      t == push_plain(s, i)
      a == IF K(i) = Assignment /\ assignment = 0 THEN i ELSE assignment
  IN IF i = limit THEN t
     ELSE FragmentFrom(
            CASE K(i) \in ClauseStarts -> Attach(t, parse_clause(i, limit))
              [] AssignsOid(i, limit) /\ is_oid_assignment_context(i, start, a) ->
                   parse_assigned_oid(t, i, limit)
              [] is_type_context(i, start, limit, a) -> Attach(t, parse_type_syntax(i, limit))
              [] OTHER -> Take(t, i),
            start, limit, a)
parse_fragment(start, limit) == FragmentFrom(Begin(start), start, limit, 0)

------------------------------------------------------------------------------
(* Which definitions are complete: their parts, one after the other.       *)

One(kinds) == [kinds |-> kinds, needed |-> TRUE, more |-> FALSE, then |-> <<>>]
Opt(kinds) == [One(kinds) EXCEPT !.needed = FALSE]
\* Any number of times, each followed by some parts.
Many(kinds, then) == [Opt(kinds) EXCEPT !.more = TRUE, !.then = then]
RECURSIVE Fits(_, _)
Fits(parts, pattern) ==
  IF pattern = <<>> THEN parts = <<>>
  ELSE LET p == Head(pattern)
       IN IF parts # <<>> /\ Head(parts) \in p.kinds
          THEN Fits(Tail(parts), p.then \o IF p.more THEN pattern ELSE Tail(pattern))
          ELSE ~ p.needed /\ Fits(parts, Tail(pattern))

TypeSyntaxes ==
  {"TypeRefSyntax", "IntegerEnumSyntax", "BitsSyntax", "ConstrainedSyntax", "SequenceOfSyntax",
   "SequenceSyntax", "ChoiceSyntax", "TaggedSyntax", "OctetStringSyntax", "ObjectIdentifierSyntax"}
Keyed(keyword) == <<One(Identifiers), One({keyword})>>
Described == <<One({"StatusClause"}), One({"DescriptionClause"}), Opt({"ReferenceClause"})>>
Assigned == <<One({Assignment}), One({"OidAssignment"})>>
validate_group_definition(keyword, members) ==
  Keyed(keyword) \o <<One({members})>> \o Described \o Assigned

DefinitionPatterns ==
  [ValueAssignment |-> <<One(Identifiers), One({"ObjectIdentifierSyntax"})>> \o Assigned,
   TypeAssignment |->
     <<One(Identifiers \cup TypeKeywords), One({Assignment}), One(TypeSyntaxes)>>,
   TextualConventionDefinition |->
     <<One(Identifiers \cup TypeKeywords), Opt({Assignment}), One({"KwTextualConvention"}),
       Opt({"DisplayHintClause"})>> \o Described \o <<One({"SyntaxClause"})>>,
   ObjectTypeDefinition |->
     Keyed("KwObjectType")
       \o <<One({"SyntaxClause"}), Opt({"UnitsClause"}), One({"AccessClause"}), Opt({"StatusClause"}),
            Opt({"DescriptionClause"}), Opt({"ReferenceClause"}),
            Opt({"IndexClause", "AugmentsClause"}), Opt({"DefvalClause"})>> \o Assigned,
   ModuleIdentityDefinition |->
     Keyed("KwModuleIdentity")
       \o <<One({"LastUpdatedClause"}), One({"OrganizationClause"}), One({"ContactInfoClause"}),
            One({"DescriptionClause"}),
            Many({"RevisionClause"}, <<One({"DescriptionClause"})>>)>> \o Assigned,
   ObjectIdentityDefinition |-> Keyed("KwObjectIdentity") \o Described \o Assigned,
   NotificationTypeDefinition |->
     Keyed("KwNotificationType") \o <<Opt({"ObjectsClause"})>> \o Described \o Assigned,
   TrapTypeDefinition |->
     Keyed("KwTrapType")
       \o <<One({"EnterpriseClause"}), Opt({"VariablesClause"}), Opt({"DescriptionClause"}),
            Opt({"ReferenceClause"}), One({Assignment}), One(Numbers)>>,
   MacroDefinition |->
     <<One({"UppercaseIdent"} \cup MacroKeywords), One({"KwMacro"}), One({"OpaqueText"}),
       One({"KwEnd"})>>,
   ObjectGroupDefinition |-> validate_group_definition("KwObjectGroup", "ObjectsClause"),
   NotificationGroupDefinition |->
     validate_group_definition("KwNotificationGroup", "NotificationsClause"),
   ModuleComplianceDefinition |->
     Keyed("KwModuleCompliance") \o Described \o <<Many({"ComplianceModule"}, <<>>)>> \o Assigned,
   AgentCapabilitiesDefinition |->
     Keyed("KwAgentCapabilities") \o <<One({"ProductReleaseClause"})>> \o Described
       \o <<Many({"SupportsModule"}, <<>>)>> \o Assigned]
SectionPatterns ==
  [ComplianceModule |->
     <<One({"KwModule"}), Opt({"UppercaseIdent"}), Opt({"OidAssignment"}),
       Opt({"MandatoryGroupsClause"}), Many({"ComplianceGroup", "ComplianceObject"}, <<>>)>>,
   ComplianceGroup |-> <<One({"KwGroup"}), One(Identifiers), One({"DescriptionClause"})>>,
   ComplianceObject |->
     <<One({"KwObject"}), One(Identifiers), Opt({"SyntaxClause"}), Opt({"WriteSyntaxClause"}),
       Opt({"AccessClause"}), One({"DescriptionClause"})>>,
   SupportsModule |->
     <<One({"KwSupports"}), One(Identifiers), Opt({"OidAssignment"}), One({"IncludesClause"}),
       Many({"VariationClause"}, <<>>)>>,
   VariationClause |->
     <<One({"KwVariation"}), One(Identifiers), Opt({"SyntaxClause"}), Opt({"WriteSyntaxClause"}),
       Opt({"AccessClause"}), Opt({"CreationRequiresClause"}), Opt({"DefvalClause"}),
       One({"DescriptionClause"})>>]
Patterns ==
  [k \in DOMAIN DefinitionPatterns \cup DOMAIN SectionPatterns |->
     IF k \in DOMAIN DefinitionPatterns THEN DefinitionPatterns[k] ELSE SectionPatterns[k]]

SignificantParts(n) == SelectSeq([k \in DOMAIN n.children |-> n.children[k].kind],
                                 LAMBDA k : k \notin Trivia)
RECURSIVE HasNode(_, _)
HasNode(e, kind) ==
  IsNode(e) /\ (e.kind = kind \/ \E k \in DOMAIN e.children : HasNode(e.children[k], kind))
RECURSIVE HasToken(_, _)
HasToken(e, kind) ==
  IF IsNode(e) THEN \E k \in DOMAIN e.children : HasToken(e.children[k], kind) ELSE e.kind = kind

\* The text between MACRO and END begins with an assignment and BEGIN.
RECURSIVE AfterMacroTrivia(_)
AfterMacroTrivia(p) ==
  LET q == After(document.text, p, Blanks)
  IN IF CommentStart(document.text, q)
     THEN AfterMacroTrivia(skip_comment_body(document.text, q + 2, FALSE)) ELSE q
macro_body_has_ordered_framing(t) ==
  LET text == SubSeq(document.text, 1, t.next - 1)
      p == AfterMacroTrivia(t.first)
      q == AfterMacroTrivia(p + 3)
  IN /\ At(text, p) = ":" /\ At(text, p + 1) = ":" /\ At(text, p + 2) = "="
     /\ At(text, q) = "KwBegin" /\ (At(text, q + 1) \notin Body \/ CommentStart(text, q + 1))

\* What a part must hold, given what it is a part of.
Demands(whole, part) ==
  CASE part = "OidAssignment" -> "RBrace"
    [] part \in {"MandatoryGroupsClause", "IncludesClause", "CreationRequiresClause",
                 "NotificationsClause"} -> "RBrace"
    [] part = "ObjectsClause" /\ whole = "ObjectGroupDefinition" -> "RBrace"
    [] part = "ObjectIdentifierSyntax" /\ whole = "ValueAssignment" -> "KwIdentifier"
    [] part = "AccessClause" /\ whole = "ComplianceObject" -> "KwMinAccess"
    [] part = "AccessClause" /\ whole = "VariationClause" -> "KwAccess"
    [] OTHER -> "None"
RECURSIVE Complete(_)
Complete(n) ==
  /\ Fits(SignificantParts(n), Patterns[n.kind])
  /\ \A k \in DOMAIN n.children :
       LET e == n.children[k]
       IN /\ Demands(n.kind, e.kind) # "None" => HasToken(e, Demands(n.kind, e.kind))
          /\ e.kind \in DOMAIN Patterns => Complete(e)
          /\ e.kind = "OpaqueText" /\ n.kind = "MacroDefinition" =>
               macro_body_has_ordered_framing(document.tokens[e.token])
definition_is_complete(n) == ~ HasNode(n, "Error") /\ Complete(n)

------------------------------------------------------------------------------
(* Where definitions begin, and the body as a whole.                       *)

DefinitionKinds ==
  [KwObjectType |-> "ObjectTypeDefinition", KwModuleIdentity |-> "ModuleIdentityDefinition",
   KwObjectIdentity |-> "ObjectIdentityDefinition",
   KwNotificationType |-> "NotificationTypeDefinition", KwTrapType |-> "TrapTypeDefinition",
   KwMacro |-> "MacroDefinition", KwObjectGroup |-> "ObjectGroupDefinition",
   KwNotificationGroup |-> "NotificationGroupDefinition",
   KwModuleCompliance |-> "ModuleComplianceDefinition",
   KwAgentCapabilities |-> "AgentCapabilitiesDefinition"]
definition_kind(start, limit) ==
  LET k == K(start)
      second == Next1(start, limit)
      l == KindAt(second, limit)
      typed == k \in {"UppercaseIdent"} \cup TypeKeywords
  IN CASE l = "KwObject" /\ k \in Identifiers -> "ValueAssignment"
       [] l = Assignment -> IF KindAt(Next1(second, limit), limit) = "KwTextualConvention"
                            THEN "TextualConventionDefinition" ELSE "TypeAssignment"
       [] l = "KwTextualConvention" /\ k = "UppercaseIdent" -> "TextualConventionDefinition"
       [] l \in DOMAIN DefinitionKinds -> DefinitionKinds[l]
       [] typed /\ (l \in TypeStarts \ {"KwObject"} \/ second = limit) -> "TypeAssignment"
       [] l = "KwObject" /\ k \in TypeKeywords -> "TypeAssignment"
       [] OTHER -> "None"

looks_like_definition(i, limit) ==
  LET k == K(i)
      second == Next1(i, limit)
      l == KindAt(second, limit)
  IN IF second = limit THEN k \in {"UppercaseIdent"} \cup TypeKeywords
     ELSE \/ k \in MacroKeywords \cup TypeKeywords \cup Identifiers /\ l = "KwMacro"
          \/ k \in TypeKeywords /\ l \in TypeStarts \cup {Assignment}
          \/ k \in Identifiers /\ l \in MacroKeywords \cup {"KwObject"}
          \/ k = "UppercaseIdent" /\ l \in TypeStarts
          \/ /\ k \in Identifiers /\ l \notin ClauseBoundaries
             /\ HasAssignment("definition", second, limit)

\* The brackets that match, as pairs; one that does not match takes all open ones with it.
RECURSIVE MatchedCloses(_, _, _)
MatchedCloses(i, limit, open) ==
  LET next == Next1(i, limit)
  IN CASE i = limit -> {}
       [] i < limit /\ K(i) \in Openers -> MatchedCloses(next, limit, <<i>> \o open)
       [] i < limit /\ K(i) \in Closers ->
            IF open # <<>> /\ Closer[K(Head(open))] = K(i)
            THEN {<<Head(open), i>>} \cup MatchedCloses(next, limit, Tail(open))
            ELSE MatchedCloses(next, limit, <<>>)
       [] OTHER -> MatchedCloses(next, limit, open)

\* Mutant: within brackets that are never closed no definition begins.
BeginsOutside(i, from, limit, unmatched) ==
  /\ i = from \/ starts_source_line(i)
  /\ looks_like_definition(i, limit)
  /\ unmatched = <<>>

\* A definition begins on a line of its own outside of brackets, and within brackets that
\* are never closed at the margin.
BeginsDefinition(i, from, limit, unmatched) ==
  /\ i = from \/ starts_source_line(i)
  /\ looks_like_definition(i, limit)
  /\ unmatched = <<>> \/ starts_unindented_source_line(i)

\* Where it begins the brackets are forgotten.
RECURSIVE StartsFrom(_, _, _, _, _)
StartsFrom(i, from, limit, closes, unmatched) ==
  LET here == BeginsDefinition(i, from, limit, unmatched)
      open == IF here THEN <<>> ELSE unmatched
      close == {p[2] : p \in {q \in closes : q[1] = i}}
      Then(j, brackets) == StartsFrom(Next1(j, limit), from, limit, closes, brackets)
  IN IF i = limit THEN <<>>
     ELSE (IF here THEN <<i>> ELSE <<>>) \o
          (CASE close # {} -> Then(CHOOSE c \in close : TRUE, open)
             [] close = {} /\ K(i) \in Openers -> Then(i, <<Closer[K(i)]>> \o open)
             [] K(i) \in Closers ->
                  Then(i, IF open # <<>> /\ Head(open) = K(i) THEN Tail(open) ELSE <<>>)
             [] OTHER -> Then(i, open))
collect_definition_starts(start, limit) ==
  LET first == Sig(start, limit) IN StartsFrom(first, first, limit, MatchedCloses(first, limit, <<>>), <<>>)

\* Mutant: an incomplete definition is an error without a report.
JudgeQuietly(kind, s, limit) ==
  LET whole == Finish(kind, s)
  IN CASE kind = "None" -> s
       [] kind # "None" /\ s.errs = {} /\ definition_is_complete(whole.els[1]) -> whole
       [] OTHER -> Finish("Error", whole)

\* A definition with a fault is an error, and an incomplete one has a fault; what is no
\* definition is taken as it comes.
Judge(kind, s, limit) ==
  LET whole == Finish(kind, s)
  IN CASE kind = "None" -> s
       [] kind # "None" /\ s.errs # {} -> Finish("Error", whole)
       [] OTHER -> IF definition_is_complete(whole.els[1]) THEN whole
                   ELSE Finish("Error", emit_at(whole, limit))
parse_body_definition(start, limit, kind) ==
  Judge(kind, IF kind \in DOMAIN Parts THEN SectionFrom(Begin(start), limit, kind)
              ELSE parse_fragment(start, limit), limit)

RECURSIVE RegionFrom(_, _, _)
RegionFrom(s, starts, limit) ==
  IF starts = <<>> THEN push_plain(s, limit)
  ELSE LET d == Head(starts)
           stop == previous_significant(IF Len(starts) > 1 THEN starts[2] ELSE limit, d) + 1
           kind == definition_kind(d, stop)
       IN RegionFrom(Attach(push_plain(s, d), parse_body_definition(d, stop, kind)), Tail(starts), limit)
parse_region(start, limit) ==
  Finish("UnparsedRegion", RegionFrom(Begin(start), collect_definition_starts(start, limit), limit))

==============================================================================
