-------------------------------- MODULE Lexer --------------------------------
(***************************************************************************)
(* The lexer of src/src/lexer/mod.rs in its two modes: the semantic one,   *)
(* that leaves blanks and skipped bodies out, and the lossless one, that   *)
(* keeps every byte in a token.                                            *)
(*                                                                         *)
(* A text is a sequence of letters.  A letter is what the lexer treats as  *)
(* one: the spelling of a keyword or a reserved word, an identifier or a   *)
(* number of one piece (named by their kinds), or a single character.      *)
(* Letters of words that stand together make one word.  What the lexer     *)
(* says of the digits within a number or a hexadecimal string is left out. *)
(***************************************************************************)
EXTENDS Naturals, Sequences, FiniteSets

\* The kinds of tokens, src/src/syntax.rs.  Kinds that every function treats alike are
\* one: Status and Access for the values of these clauses, AppType for the application
\* types, Null and Forbidden for reserved words, BigNumber for a number its context has
\* no room for.
Identifiers == {"UppercaseIdent", "LowercaseIdent"}
Reserved == {"Null", "Forbidden"}
Numbers == {"Number", "BigNumber"}
MacroKeywords == {"KwModuleIdentity", "KwModuleCompliance", "KwObjectGroup", "KwNotificationGroup",
                  "KwAgentCapabilities", "KwObjectType", "KwObjectIdentity", "KwNotificationType",
                  "KwTextualConvention", "KwTrapType"}
TypeKeywords == {"KwInteger", "AppType", "KwBits", "KwOctet", "KwString"}
Keywords ==
  MacroKeywords \cup TypeKeywords \cup
  {"KwDefinitions", "KwBegin", "KwEnd", "KwImports", "KwExports", "KwFrom", "KwObject",
   "KwIdentifier", "KwSequence", "KwOf", "KwChoice", "KwMacro", "KwSyntax", "KwMaxAccess",
   "KwMinAccess", "KwAccess", "KwStatus", "KwDescription", "KwReference", "KwIndex", "KwDefval",
   "KwAugments", "KwUnits", "KwDisplayHint", "KwObjects", "KwNotifications", "KwModule",
   "KwMandatoryGroups", "KwGroup", "KwWriteSyntax", "KwProductRelease", "KwSupports",
   "KwIncludes", "KwVariation", "KwCreationRequires", "KwRevision", "KwLastUpdated",
   "KwOrganization", "KwContactInfo", "KwImplied", "KwSize", "KwEnterprise", "KwVariables",
   "KwApplication", "KwImplicit", "KwUniversal", "Status", "Access"}
Kinds == Identifiers \cup Reserved \cup Numbers \cup Keywords \cup
         {"NegativeNumber", "QuotedString", "HexString", "BinString", "LBracket", "RBracket",
          "LBrace", "RBrace", "LParen", "RParen", "Colon", "Semicolon", "Comma", "Dot", "Pipe",
          "Minus", "DotDot", "ColonColonEqual", "Error", "Eof"}

------------------------------------------------------------------------------

Blanks == {" ", "\n"}
LineEnd == {"\n", "eof"}
Words == Identifiers \cup Reserved \cup Keywords \cup {"H", "B"}
Punctuation == {"LBracket", "RBracket", "LBrace", "RBrace", "LParen", "RParen", "Semicolon",
                "Comma", "Pipe"}
\* is_identifier_body_byte
Body == Words \cup Numbers \cup {"-"}

At(text, p) == IF p \in 1 .. Len(text) THEN text[p] ELSE "eof"
CommentStart(text, p) == At(text, p) = "-" /\ At(text, p + 1) = "-"

\* The first position from p on where P holds; it holds at the end.
First(text, p, P(_)) ==
  CHOOSE q \in p .. Len(text) + 1 : P(q) /\ \A r \in p .. q - 1 : ~ P(r)
After(text, p, letters) == First(text, p, LAMBDA q : At(text, q) \notin letters)

------------------------------------------------------------------------------
(* Where a token that begins at p ends: the position after it. *)

IdentifierEnd(text, p) ==
  First(text, p + 1, LAMBDA q : At(text, q) \notin Body \/ CommentStart(text, q))

\* The quote that closes a string, or the end of the text; two quotes are one character.
RECURSIVE ClosingQuote(_, _)
ClosingQuote(text, p) ==
  CASE At(text, p) = "eof" -> p
    [] At(text, p) = "\"" -> IF At(text, p + 1) # "\"" THEN p ELSE ClosingQuote(text, p + 2)
    [] OTHER -> ClosingQuote(text, p + 1)

Quote(text, p) == First(text, p + 1, LAMBDA q : At(text, q) \in {"'", "eof"})
QuotedKind(text, p) ==
  CASE At(text, Quote(text, p) + 1) = "H" -> "HexString"
    [] At(text, Quote(text, p) + 1) = "B" -> "BinString"
    [] OTHER -> "Error"
QuotedEnd(text, p) ==
  LET q == Quote(text, p)
  IN IF At(text, q) = "eof" THEN q
     ELSE IF At(text, q + 1) \in {"H", "B"} THEN q + 2 ELSE q + 1

\* A comment ends with the line or with the next two dashes; three dashes at the end of
\* the line are one end if the comment began in the text that is read.
CommentStop(text, p) ==
  First(text, p, LAMBDA q : At(text, q) \in LineEnd \/ CommentStart(text, q))
skip_comment_body(text, p, triple) ==
  LET q == CommentStop(text, p)
  IN IF At(text, q) # "-" THEN q
     ELSE IF triple /\ At(text, q + 2) = "-" /\ At(text, q + 3) \in LineEnd THEN q + 3
     ELSE q + 2

------------------------------------------------------------------------------
(* The bodies that are skipped. *)

\* Mutant: a word that begins with END ends a macro.
EndsWord(text, p) == At(text, p) = "KwEnd" /\ At(text, p - 1) \notin Body

\* END as a word of its own.
Ends(text, p) ==
  /\ At(text, p) = "KwEnd" /\ At(text, p - 1) \notin Body
  /\ At(text, p + 1) \notin Body \/ CommentStart(text, p + 1)

RECURSIVE MacroEnd(_, _, _)
MacroEnd(text, p, quoted) ==
  LET q == After(text, p, Blanks)
  IN CASE At(text, q) = "eof" -> q
       [] At(text, q) = "\"" ->
            IF quoted /\ At(text, q + 1) = "\"" THEN MacroEnd(text, q + 2, TRUE)
            ELSE MacroEnd(text, q + 1, ~ quoted)
       [] ~ quoted /\ Ends(text, q) -> q
       [] ~ quoted /\ CommentStart(text, q) ->
            MacroEnd(text, skip_comment_body(text, q + 2, FALSE), FALSE)
       [] OTHER -> MacroEnd(text, q + 1, quoted)

RECURSIVE ExportsEnd(_, _)
ExportsEnd(text, p) ==
  CASE At(text, p) \in {"eof", "Semicolon"} -> p
    [] CommentStart(text, p) -> ExportsEnd(text, skip_comment_body(text, p + 2, FALSE))
    [] OTHER -> ExportsEnd(text, p + 1)

------------------------------------------------------------------------------
(* A step of the lexer from position p: a token, or nothing, and the       *)
(* position to go on from.                                                 *)

\* "None" stands for no token; reported says that there is a diagnostic.
Lexed(kind, p, next) == [kind |-> kind, first |-> p, next |-> next, reported |-> FALSE]
Reporting(t) == [t EXCEPT !.reported = TRUE]

Word(text, p, next) ==
  CASE next > p + 1 \/ text[p] \in {"H", "B"} ->
         IF text[p] \in {"LowercaseIdent", "Status", "Access"} THEN "LowercaseIdent"
         ELSE "UppercaseIdent"
    [] OTHER -> text[p]

Number(text, p, next) ==
  IF \E q \in p .. next - 1 : text[q] = "BigNumber" THEN "BigNumber" ELSE "Number"

Unexpected(text, p, lossless) ==
  LET q == First(text, p + 1, LAMBDA r : At(text, r) \in LineEnd)
  IN Reporting(Lexed(IF lossless THEN "Error" ELSE "None", p, q))

next_normal_token(text, p, lossless) ==
  LET c == At(text, p)
  IN CASE c = "eof" -> Lexed("Eof", p, p)
       [] c \in Blanks -> LET q == After(text, p, Blanks)
                          IN Lexed(IF lossless THEN "Whitespace" ELSE "None", p, q)
       [] CommentStart(text, p) -> Lexed("Comment", p, skip_comment_body(text, p + 2, TRUE))
       [] c = "." -> IF At(text, p + 1) = "." THEN Lexed("DotDot", p, p + 2)
                     ELSE Lexed("Dot", p, p + 1)
       [] c = ":" -> IF At(text, p + 1) = ":" /\ At(text, p + 2) = "="
                     THEN Lexed("ColonColonEqual", p, p + 3) ELSE Lexed("Colon", p, p + 1)
       [] c = "-" /\ ~ CommentStart(text, p) ->
            IF At(text, p + 1) \in Numbers
            THEN Lexed("NegativeNumber", p, After(text, p + 1, Numbers))
            ELSE Lexed("Minus", p, p + 1)
       [] c \in Punctuation -> Lexed(c, p, p + 1)
       [] c \in Numbers -> LET q == After(text, p, Numbers) IN Lexed(Number(text, p, q), p, q)
       [] c = "\"" -> LET q == ClosingQuote(text, p + 1)
                      IN IF At(text, q) = "eof" THEN Reporting(Lexed("QuotedString", p, q))
                         ELSE Lexed("QuotedString", p, q + 1)
       [] c = "'" -> LET t == Lexed(QuotedKind(text, p), p, QuotedEnd(text, p))
                     IN IF t.kind = "Error" THEN Reporting(t) ELSE t
       [] c \in Words -> LET q == IdentifierEnd(text, p) IN Lexed(Word(text, p, q), p, q)
       [] OTHER -> Unexpected(text, p, lossless)

\* The body of an EXPORTS clause or a MACRO: in semantic mode the token that ends it, in
\* lossless mode the text up to there.
Skipped(p, e, lossless, ending) ==
  IF lossless THEN Lexed(IF e > p THEN "OpaqueText" ELSE "None", p, e)
  ELSE Lexed(ending, e, IF ending = "Eof" THEN e ELSE e + 1)
skip_macro_body(text, p, lossless) ==
  LET e == MacroEnd(text, p, FALSE) IN Skipped(p, e, lossless, IF At(text, e) = "eof" THEN "Eof" ELSE "KwEnd")
skip_exports_body(text, p, lossless) ==
  LET e == ExportsEnd(text, p)
  IN Skipped(p, e, lossless, IF At(text, e) = "eof" THEN "Eof" ELSE "Semicolon")

next_token(text, p, state, lossless) ==
  CASE state = "InMacro" -> skip_macro_body(text, p, lossless)
    [] state = "InExports" -> skip_exports_body(text, p, lossless)
    [] state = "Normal" -> next_normal_token(text, p, lossless)

\* The state behind a token: that of comments is passed within a step.
StateAfter(t) ==
  CASE t.kind = "KwMacro" -> "InMacro" [] t.kind = "KwExports" -> "InExports" [] OTHER -> "Normal"

\* All tokens up to the end of the text, and steps that only report.
RECURSIVE LexFrom(_, _, _, _)
LexOn(text, t, lossless) ==
  IF t.kind = "Eof" THEN <<t>> ELSE <<t>> \o LexFrom(text, t.next, StateAfter(t), lossless)
LexFrom(text, p, state, lossless) ==
  LexOn(text, next_token(text, p, state, lossless), lossless)
Lex(text, lossless) == LexFrom(text, 1, "Normal", lossless)

------------------------------------------------------------------------------
(* The document that is read: its text, the kinds of the tokens the parser *)
(* sees and the positions in or before which the lexer reported something, *)
(* and the tokens of the concrete syntax tree.                             *)

VARIABLE document

\* next_non_comment
Seen(t) == t.kind \notin {"None", "Comment", "Eof"}
Read(text, semantic, lossless) ==
  LET seen == SelectSeq(semantic, Seen)
      Before(k) == SelectSeq(SubSeq(semantic, 1, k - 1), Seen)
  IN [text |-> text, kinds |-> [k \in DOMAIN seen |-> seen[k].kind],
      faults |-> {1 + Len(Before(k)) : k \in {n \in DOMAIN semantic : semantic[n].reported}},
      tokens |-> SelectSeq(lossless, LAMBDA t : t.kind # "None")]
Document(text) == Read(text, Lex(text, FALSE), Lex(text, TRUE))

==============================================================================
