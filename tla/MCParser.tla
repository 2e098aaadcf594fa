------------------------------- MODULE MCParser -------------------------------
(***************************************************************************)
(* A definition of every sort, with each of its tokens missing or with a   *)
(* brace too many before it or with its clauses at the margin, between     *)
(* other definitions; frames of modules damaged in the same way; two       *)
(* modules with reports of the lexer around the end of the first; and      *)
(* scraps of text.  All but these are written as the kinds of their        *)
(* tokens, with the breaks of lines, and spelled out for the lexer.        *)
(***************************************************************************)
EXTENDS Parser, TLC
LOCAL INSTANCE SequencesExt

U == "UppercaseIdent"
L == "LowercaseIdent"
Q == "QuotedString"
N == "Number"

Oid == <<"ColonColonEqual", "LBrace", L, N, "RBrace">>
Status == <<"KwStatus", "Status">>
Text == <<"KwDescription", Q>>
Braced(s) == <<"LBrace">> \o s \o <<"RBrace">>
List == Braced(<<L, "Comma", "Forbidden">>)

Value == <<L, "KwObject", "KwIdentifier">> \o Oid
Type(s) == <<U, "ColonColonEqual">> \o s
ObjectType(s, rest) ==
  <<L, "KwObjectType", "KwSyntax">> \o s \o <<"KwMaxAccess", "Access">> \o rest \o Oid

Syntaxes ==
  {<<"KwInteger">> \o Braced(<<L, "LParen", N, "RParen", "Comma", "KwModule", "LParen",
                              "NegativeNumber", "RParen", L, "LParen", "BigNumber", "RParen">>),
   <<"KwBits">> \o Braced(<<>>),
   <<"KwOctet", "KwString", "LParen", "KwSize", "LParen", N, "DotDot", "BigNumber", "Pipe",
     "HexString", "RParen", "RParen">>,
   <<"KwObject", "KwIdentifier">>, <<"KwSequence", "KwOf", U>>,
   <<"KwSequence">> \o Braced(<<L, "AppType", "Comma", L, "KwInteger">>),
   <<"KwChoice">> \o Braced(<<L, "Null">>),
   <<L, "LParen", "NegativeNumber", "DotDot", U, "RParen">>,
   <<"LBracket", "KwApplication", N, "RBracket", "KwImplicit", "KwOctet", "KwString">>}

Clauses ==
  {<<>>, <<"KwStatus", "Status", "KwDescription", Q, "KwReference", Q>>,
   <<"KwIndex">> \o Braced(<<"KwImplied", L, "Comma", "KwOctet", "KwString">>)}
  \cup {<<"KwAugments">> \o Braced(<<L>>)}
  \cup {<<"KwDefval">> \o Braced(v) :
          v \in {<<"BigNumber">>, <<"HexString">>, <<"Status">>, <<>>, Braced(<<>>), Braced(<<L>>),
                 Braced(<<L, "Comma", "KwModule", "Comma">>), Braced(<<N, L>>), Braced(<<"Colon">>),
                 Braced(<<U, "LParen", N, "RParen", U, "Dot", L>>)}}

Definitions ==
  {Value, <<U, "KwMacro", "MacroBody", "KwEnd">>,
   <<"KwObjectType", "KwMacro", "MacroBody", "KwEnd">>,
   <<"AppType", "ColonColonEqual", "KwInteger">>, <<L, "ColonColonEqual", "KwInteger">>}
  \cup {ObjectType(<<"KwInteger", "KwUnits", Q>>, c) : c \in Clauses}
  \cup {ObjectType(s, Status) : s \in Syntaxes} \cup {Type(s) : s \in Syntaxes}
  \cup {<<L, "KwModuleIdentity", "KwLastUpdated", Q, "KwOrganization", Q, "KwContactInfo", Q>>
          \o Text \o <<"KwRevision", Q>> \o Text \o Oid,
        <<U, "KwObjectIdentity">> \o Status \o Text \o Oid,
        <<L, "KwNotificationType", "KwObjects">> \o List \o Status \o Text \o Oid,
        <<L, "KwTrapType", "KwEnterprise", L, "KwVariables">> \o List
          \o <<"ColonColonEqual", "BigNumber">>,
        <<U, "KwTextualConvention", "KwDisplayHint", Q>> \o Status \o Text
          \o <<"KwSyntax", "KwInteger">>,
        <<U, "ColonColonEqual", "KwTextualConvention">> \o Status \o Text
          \o <<"KwSyntax", "KwInteger">>,
        <<L, "KwTextualConvention">> \o Status,
        <<L, "KwObjectGroup", "KwObjects">> \o List \o Status \o Text \o Oid,
        <<L, "KwNotificationGroup", "KwNotifications">> \o List \o Status \o Text \o Oid,
        <<L, "KwModuleCompliance">> \o Status \o Text
          \o <<"KwModule", U, "LBrace", N, "RBrace", "KwMandatoryGroups">> \o List
          \o <<"KwGroup", L>> \o Text \o <<"KwObject", L, "KwSyntax", U, "KwWriteSyntax", U,
               "KwMinAccess", "Access">> \o Text \o Oid,
        <<L, "KwAgentCapabilities", "KwProductRelease", Q>> \o Status \o Text
          \o <<"KwSupports", U, "LBrace", L, "RBrace", "KwIncludes">> \o List
          \o <<"KwVariation", L, "KwSyntax", U, "KwAccess", "Access", "KwCreationRequires">> \o List
          \o Text \o Oid}

Without(s, i) == SubSeq(s, 1, i - 1) \o SubSeq(s, i + 1, Len(s))
With(s, i, t) == SubSeq(s, 1, i - 1) \o <<t>> \o SubSeq(s, i, Len(s))
Damaged(s) == {s} \cup {Without(s, i) : i \in 1 .. Len(s)}
              \cup {With(s, i, "LBrace") : i \in 1 .. Len(s)}

Header == <<U, "KwDefinitions", "ColonColonEqual", "KwBegin">>
Following == <<"Line">> \o Value \o <<"Line">> \o Value \o <<"Line", "KwEnd">>

AtMargin(s) ==
  FlattenSeq([i \in DOMAIN s |-> IF s[i] \in Tree!ClauseBoundaries THEN <<"Line", s[i]>> ELSE <<s[i]>>])

Bodies == {Header \o <<"Line">> \o d \o Following :
             d \in (UNION {Damaged(x) : x \in Definitions}) \cup {AtMargin(x) : x \in Definitions}}

Imports == <<"KwImports", "KwObjectType", "Comma", "AppType", L, "KwFrom", U, U, "KwFrom", U, "Semicolon">>
Frame == <<U, "LBrace", N, "LBrace", "RBrace", "RBrace">> \o Tail(Header) \o Imports
           \o <<"KwExports", "ExportsBody", "Semicolon", "KwExports", "Semicolon">> \o Following
Frames == Damaged(Frame) \cup
          {<<>>, Header \o Value \o Header \o Value \o <<"KwEnd">>,
           Header \o <<"Error", "KwObjectType", "KwMacro", "KwEnd">> \o Value \o <<"KwEnd">>}

Two == Header \o <<U, "ColonColonEqual", U, "KwEnd">> \o Header \o <<"KwEnd">>
\* A macro before the second module, and a label that ends a module for the scan.
MacroModule == Header \o <<U, "KwMacro", "MacroBody", "KwEnd", "KwEnd">>
Scanned ==
  Damaged(MacroModule \o <<"Forbidden", "LBrace", N, "RBrace">> \o Tail(Header) \o <<"KwEnd">>)
  \cup {MacroModule \o MacroModule \o <<L>> \o Tail(Header) \o <<"KwEnd">>,
        Header \o Type(<<"KwInteger">> \o Braced(<<"KwEnd", "LParen", N, "RParen">>)) \o <<"KwEnd">>
          \o Header \o <<"KwEnd">>}
Reported ==
  UNION {{With(With(k, i, "Junk"), j, "Junk") : i \in 1 .. Len(k) + 1, j \in 1 .. Len(k) + 1} :
           k \in {Two, Without(Two, 10), Two \o <<"Colon">>, Two \o Two}}

------------------------------------------------------------------------------

Spelling(kind) ==
  CASE kind = "ColonColonEqual" -> <<":", ":", "=">>
    [] kind = "Colon" -> <<":">>
    [] kind = "DotDot" -> <<".", ".">>
    [] kind = "Dot" -> <<".">>
    [] kind = "NegativeNumber" -> <<"-", N>>
    [] kind = "QuotedString" -> <<"\"", "\"">>
    [] kind = "HexString" -> <<"'", N, "'", "H">>
    [] kind = "Error" -> <<"'", N, "'">>
    [] kind = "Line" -> <<"\n">>
    [] kind = "Junk" -> <<"?", "\n">>
    [] kind = "MacroBody" -> <<":", ":", "=", " ", "KwBegin", " ", "\"", "KwEnd", "\"">>
    [] kind = "ExportsBody" -> <<U, "-", "-", "Semicolon", "\n">>
    [] OTHER -> <<kind>>
Blank(kind) ==
  CASE kind \in Tree!ClauseBoundaries -> <<"\n", " ">>
    [] kind \in Punctuation -> <<>>
    [] OTHER -> <<" ">>
Spelled(kinds) ==
  FlattenSeq([i \in DOMAIN kinds |->
                (IF i = 1 \/ kinds[i - 1] = "Line" THEN <<>> ELSE Blank(kinds[i])) \o Spelling(kinds[i])])

\* What the two modes of the lexer could disagree about.
Strings(letters, n) == UNION {[1 .. k -> letters] : k \in 0 .. n}
Scraps ==
  Strings({"-", "\n", U}, 6)
  \cup {p \o s : p \in {<<>>, <<"KwMacro">>, <<"KwExports">>},
                 s \in Strings({"-", "\"", "\n", "KwEnd", "Semicolon", "?", "'", "H"}, 3)}

Texts == {Spelled(k) : k \in Bodies \cup Frames \cup Scanned \cup Reported} \cup Scraps
MCDocuments == {Document(t) : t \in Texts}

==============================================================================
