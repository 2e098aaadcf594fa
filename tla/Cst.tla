--------------------------------- MODULE Cst ---------------------------------
(***************************************************************************)
(* The concrete syntax tree of a source, src/src/cst/parser.rs and         *)
(* src/src/cst/mod.rs: where modules begin and end, their headers, exports *)
(* and imports, and the bodies of CstBody.  It is built from the tokens    *)
(* alone, apart from the parser of module Parser, for tools that need the  *)
(* written text.                                                           *)
(***************************************************************************)
EXTENDS CstBody

\* The first token from i on where P holds, or the limit.
FirstToken(i, limit, P(_)) ==
  CHOOSE j \in i .. limit : (j = limit \/ P(j)) /\ \A r \in i .. j - 1 : ~ P(r)
Find(i, limit, kinds) == FirstToken(i, limit, LAMBDA j : K(j) \in kinds)

\* push_error of a range of tokens, which are not looked at.
ErrorSpan(s, i) ==
  IF s.at = i THEN s
  ELSE [s EXCEPT !.els = Append(@, Node("Error", [n \in 1 .. i - s.at |-> Leaf(s.at + n - 1)])),
                 !.at = i]
OnlyTrivia(i, limit) == Sig(i, limit) = limit

push_unparsed(s, i) ==
  IF OnlyTrivia(s.at, i) THEN push_plain(s, i)
  ELSE Attach(s, Finish("UnparsedRegion", push_plain(Begin(s.at), i)))
push_structured_body(s, i) ==
  IF OnlyTrivia(s.at, i) THEN push_plain(s, i) ELSE Attach(s, parse_region(s.at, i))
\* Mutant: the blanks behind what stands outside are forgotten.
PushSignificant(s, limit) ==
  LET i == Sig(s.at, limit)
      last == previous_significant(limit, i)
  IN IF i = limit THEN push_plain(s, limit)
     ELSE [emit_at(ErrorSpan(push_plain(s, i), last + 1), i) EXCEPT !.at = limit]

push_outside(s, limit) ==
  LET i == Sig(s.at, limit)
      last == previous_significant(limit, i)
  IN IF i = limit THEN push_plain(s, limit)
     ELSE emit_at(push_plain(ErrorSpan(push_plain(s, i), last + 1), limit), i)

------------------------------------------------------------------------------
(* Where modules begin and end. *)

\* Within eight tokens; the name of something else ends the search.
RECURSIVE DefinitionsAhead(_, _, _)
DefinitionsAhead(i, limit, steps) ==
  /\ steps > 0 /\ i < limit
  /\ \/ K(i) = "KwDefinitions"
     \/ /\ K(i) \notin Identifiers \cup {"KwBegin", "KwEnd", "Semicolon"}
        /\ DefinitionsAhead(Next1(i, limit), limit, steps - 1)

\* A strong start is a header without faults; it also ends the module before it.
is_module_start(i, limit, strong) ==
  LET open == Next1(i, limit)
      braced == KindAt(open, limit) = "LBrace"
      close == matching_rbrace(open, limit)
      first == IF braced THEN Next1(close, limit) ELSE open
      assign == Next1(first, limit)
      Begins(j) == KindAt(Next1(j, limit), limit) = "KwBegin"
  IN /\ K(i) \in IF strong THEN {"UppercaseIdent"} ELSE Identifiers
     /\ IF braced /\ close = limit THEN ~ strong
        ELSE CASE first = limit -> FALSE
               [] KindAt(first, limit) = "KwDefinitions" ->
                    ~ strong \/ (KindAt(assign, limit) = Assignment /\ Begins(assign))
               [] OTHER -> \/ ~ strong /\ (DefinitionsAhead(first, limit, 8) \/ K(first) = "KwBegin")
                           \/ K(first) = Assignment /\ Begins(first)
find_module_start(i, limit, strong) ==
  FirstToken(i, limit, LAMBDA j : is_module_start(j, limit, strong))

\* looks_like_definition of the frame: where imports and a header without BEGIN end.
EndsFrame(i, limit) ==
  LET second == Next1(i, limit)
  IN /\ K(i) \in Identifiers \cup MacroKeywords \cup TypeKeywords /\ second < limit
     /\ \/ K(second) = "KwMacro"
        \/ K(i) \notin MacroKeywords /\ HasAssignment("import", second, limit)
header_recovery_end(start, limit) ==
  FirstToken(start + 1, limit, LAMBDA i : K(i) = "KwEnd" \/ EndsFrame(i, limit))

find_header_begin(start, limit) ==
  LET open == Next1(start, limit)
      close == matching_rbrace(open, limit)
  IN IF KindAt(open, limit) # "LBrace" THEN Find(start + 1, limit, {"KwBegin"})
     ELSE IF close = limit THEN limit ELSE Find(close + 1, limit, {"KwBegin"})

\* The END of a macro that begins at i, or the limit.
legacy_macro_end(i, limit) ==
  LET word == Next1(i, limit)
      body == Next1(word, limit)
      next == Next1(body, limit)
  IN IF K(i) \notin Identifiers \cup MacroKeywords \/ KindAt(word, limit) # "KwMacro" THEN limit
     ELSE CASE KindAt(body, limit) = "OpaqueText" ->
                 IF KindAt(next, limit) = "KwEnd" THEN next ELSE limit
            [] KindAt(body, limit) = Assignment /\ KindAt(next, limit) = "KwBegin" ->
                 Find(next + 1, limit, {"KwEnd"})
            [] OTHER -> limit
RECURSIVE find_module_end(_, _)
find_module_end(from, limit) ==
  LET i == Sig(from, limit)
      macro == legacy_macro_end(i, limit)
  IN CASE i = limit -> limit
       [] i < limit /\ macro < limit -> find_module_end(macro + 1, limit)
       [] OTHER -> IF K(i) = "KwEnd" THEN i ELSE find_module_end(i + 1, limit)

------------------------------------------------------------------------------
(* Headers and imports. *)

\* The next word of a header: one that belongs behind it is left for later, and what
\* stands before either is an error.
HeaderWord(s, limit, word, later) ==
  LET i == Sig(s.at, limit)
      next == Find(i + 1, limit, {word} \cup later)
      skipped == emit_at(ErrorSpan(s, next), i)
  IN CASE i = limit -> emit_at(push_plain(s, limit), limit)
       [] KindAt(i, limit) = word -> Take(s, i)
       [] KindAt(i, limit) \in later -> emit_at(s, i)
       [] OTHER -> IF KindAt(next, limit) = word THEN Take(skipped, next) ELSE skipped

parse_header(start, limit) ==
  LET name == Take(Begin(start), start)
      open == Sig(name.at, limit)
      close == matching_rbrace(open, limit)
      named == IF KindAt(open, limit) # "LBrace" THEN name
               ELSE push_plain(name, IF close < limit THEN close + 1 ELSE limit)
      definitions == HeaderWord(named, limit, "KwDefinitions", {Assignment, "KwBegin"})
      s == HeaderWord(HeaderWord(definitions, limit, Assignment, {"KwBegin"}), limit, "KwBegin", {})
  IN Finish("ModuleHeader",
            IF OnlyTrivia(s.at, limit) THEN push_plain(s, limit) ELSE ErrorSpan(s, limit))

ImportSymbols == Identifiers \cup MacroKeywords \cup TypeKeywords

ImportModule(s, limit) ==
  LET i == Sig(s.at, limit)
  IN CASE i = limit -> emit_at(push_plain(s, limit), limit)
       [] KindAt(i, limit) = "UppercaseIdent" -> Take(s, i)
       [] OTHER -> IF EndsFrame(i, limit) THEN emit_at(push_plain(s, i), i)
                   ELSE emit_at(push_error(s, i), i)

\* need: a symbol must come, since there is none yet or a comma was the last token.
RECURSIVE GroupFrom(_, _, _)
GroupFrom(s, limit, need) ==
  LET i == Sig(s.at, limit)
      Faulty(t, fault) == IF fault THEN emit_at(t, i) ELSE t
  IN CASE i = limit -> emit_at(push_plain(s, limit), limit)
       [] i < limit /\ (EndsFrame(i, limit) \/ K(i) = "Semicolon") -> emit_at(push_plain(s, i), i)
       [] OTHER ->
            CASE K(i) = "KwFrom" -> ImportModule(Faulty(Take(s, i), need), limit)
              [] K(i) \in ImportSymbols -> GroupFrom(Faulty(Take(s, i), ~ need), limit, FALSE)
              [] K(i) = "Comma" -> GroupFrom(Faulty(Take(s, i), need), limit, TRUE)
              [] OTHER -> GroupFrom(emit_at(push_error(s, i), i), limit, need)
parse_import_group(i, limit) == Finish("ImportGroup", GroupFrom(Begin(i), limit, TRUE))

RECURSIVE ImportsFrom(_, _)
ImportsFrom(s, limit) ==
  LET i == Sig(s.at, limit)
      t == push_plain(s, i)
  IN CASE i = limit -> emit_at(t, limit)
       [] i < limit /\ K(i) = "Semicolon" -> Take(s, i)
       [] i < limit /\ EndsFrame(i, limit) -> emit_at(t, i)
       [] OTHER -> ImportsFrom(IF K(i) \in ImportSymbols \cup {"KwFrom"}
                               THEN Attach(t, parse_import_group(i, limit))
                               ELSE emit_at(push_error(t, i), i), limit)
parse_imports(i, limit) == Finish("Imports", ImportsFrom(Take(Begin(i), i), limit))

------------------------------------------------------------------------------
(* Modules, and the tree. *)

RECURSIVE ExportsFrom(_, _)
ExportsFrom(s, limit) ==
  LET i == Sig(s.at, limit)
      semicolon == Find(i + 1, limit, {"Semicolon"})
  IN IF KindAt(i, limit) = "KwExports" /\ semicolon < limit
     THEN ExportsFrom(push_unparsed(s, semicolon + 1), limit) ELSE s

WithImports(s, end) ==
  LET i == Sig(s.at, end)
  IN IF KindAt(i, end) = "KwImports" THEN Attach(push_plain(s, i), parse_imports(i, end)) ELSE s
\* The END of a module, which may be missing.
Ended(s, end, limit) == IF end < limit THEN Take(s, end) ELSE emit_at(s, limit)

parse_module(start, eof) ==
  LET limit == find_module_start(start + 1, eof, TRUE)
      begin == find_header_begin(start, limit)
      end == find_module_end(IF begin < limit THEN begin + 1 ELSE start + 1, limit)
      stop == IF end < limit THEN end + 1 ELSE limit
      header == parse_header(start, IF begin < limit THEN begin + 1
                                    ELSE header_recovery_end(start, stop))
  IN Finish("Module", Ended(push_structured_body(WithImports(ExportsFrom(header, end), end), end),
                           end, limit))

RECURSIVE ModulesFrom(_, _)
ModulesFrom(s, eof) ==
  LET start == find_module_start(s.at, eof, FALSE)
  IN IF s.at = eof THEN s
     ELSE IF start = eof THEN push_outside(s, eof)
     ELSE ModulesFrom(Attach(push_outside(s, start), parse_module(start, eof)), eof)
parse_source_file ==
  LET eof == Len(document.tokens)
  IN Finish("SourceFile", Take(ModulesFrom(Begin(1), eof), eof))

==============================================================================
