-------------------------------- MODULE Parser --------------------------------
(***************************************************************************)
(* The parser of src/src/parser/mod.rs: a document is parsed module by     *)
(* module, a definition that cannot be parsed is skipped up to the next    *)
(* definition, and what the lexer had to say is handed to the module in    *)
(* whose text it was found.  The rules are those of Grammar; a step        *)
(* consumes a token, expands a rule or skips a token.                      *)
(*                                                                         *)
(* A document is what the lexer makes of a source: the kinds of its tokens *)
(* and the positions where the lexer reported something, in or before the  *)
(* token; behind the last token is the end of the source.  The lexer is    *)
(* always three tokens ahead.                                              *)
(***************************************************************************)
EXTENDS Grammar

CONSTANT Documents
ASSUME DocumentsAssumption ==
  \A d \in Documents : /\ d.kinds \in Seq(Kinds \ {"Eof"})
                       /\ d.faults \subseteq 1 .. Len(d.kinds) + 1

VARIABLES
  pos,          \* the token that is peeked at
  control,      \* what is being parsed
  stack,        \* the items that are still demanded
  mark,         \* where it began: pos_before
  module,       \* the module: the position it starts at, the end of its header, the
                \* spans of its imports and definitions, its diagnostics
  handed,       \* lexer_diagnostic_cursor
  modules       \* the modules that were parsed

vars == <<document, pos, control, stack, mark, module, handed, modules>>

End == Len(document.kinds) + 1
Kind(i) == IF i < End THEN document.kinds[i] ELSE "Eof"

\* What the lexer reported before the token i, and of that what it has found.
Before(i) == {f \in document.faults : f < i}
Found == Before(pos + 3)

\* collect_module_diagnostics: those behind the cursor that lie before a position.
Owned(limit) == {f \in Found : Cardinality(Before(f)) >= handed /\ f < limit}

NewModule(p) == [start |-> p, header |-> p, parts |-> {}, diagnostics |-> {}, lexical |-> {},
                 end |-> p, named |-> FALSE]

Init ==
  /\ document \in Documents
  /\ pos = 1 /\ control = "start" /\ stack = <<>> /\ mark = 1
  /\ module = NewModule(1) /\ handed = 0 /\ modules = <<>>

Note(code) == [code |-> code, at |-> pos]
Noting(codes) == [module EXCEPT !.diagnostics = @ \cup {Note(c) : c \in codes}]

\* To go on with some items.
Demand(what, items) == control' = what /\ stack' = items

------------------------------------------------------------------------------
(* Items. *)

Top == Head(stack)
Admitted == Kind(pos) \in Class(Top)

\* advance
Consume ==
  /\ stack # <<>> /\ IsClass(Top) /\ Admitted
  /\ pos' = pos + 1 /\ stack' = Tail(stack)
  /\ module' = Noting(Notes(Top, Kind(pos)))
  /\ UNCHANGED <<document, control, mark, handed, modules>>

Expand ==
  /\ stack # <<>> /\ ~ IsClass(Top)
  /\ stack' = Expansion(Top, Kind(pos), Kind(pos + 1), Kind(pos + 2)) \o Tail(stack)
  /\ module' = Noting(Notes(Top, Kind(pos)))
  /\ UNCHANGED <<document, pos, control, mark, handed, modules>>

\* An error leaves the functions up to the one that recovers from it.
Fails(what) == control = what /\ stack # <<>> /\ IsClass(Top) /\ ~ Admitted
Succeeds(what) == control = what /\ stack = <<>>

------------------------------------------------------------------------------
(* The modules of a document. *)

\* parse_modules: also an empty document has a module.
StartModule ==
  /\ control = "start" /\ (Kind(pos) # "Eof" \/ modules = <<>>)
  /\ module' = NewModule(pos) /\ mark' = pos
  /\ Demand("header", parse_module_header)
  /\ UNCHANGED <<document, pos, handed, modules>>

NoMoreModules ==
  /\ control = "start" /\ Kind(pos) = "Eof" /\ modules # <<>>
  /\ Demand("done", <<>>)
  /\ UNCHANGED <<document, pos, mark, module, handed, modules>>

\* Mutant: a module takes whatever the lexer has found.
CloseTakingAll(m, limit, what) ==
  /\ modules' = Append(modules, [m EXCEPT !.end = pos', !.lexical = Owned(End + 1)])
  /\ handed' = handed + Cardinality(Owned(End + 1))
  /\ Demand(what, <<>>)

\* The module is complete; what the lexer reported before the limit is its.
Close(m, limit, what) ==
  /\ modules' = Append(modules, [m EXCEPT !.end = pos', !.lexical = Owned(limit)])
  /\ handed' = handed + Cardinality(Owned(limit))
  /\ Demand(what, <<>>)

\* Without a header there is no module, and nothing behind it is parsed.
HeaderFails ==
  /\ Fails("header")
  /\ UNCHANGED <<document, pos, mark, module>>
  /\ Close(Noting({"ParseError"}), End + 1, "done")

HeaderParsed ==
  /\ Succeeds("header")
  /\ module' = [module EXCEPT !.named = TRUE, !.header = pos] /\ mark' = pos
  /\ IF Kind(pos) = "KwImports" THEN Demand("imports", parse_imports) ELSE Demand("body", <<>>)
  /\ UNCHANGED <<document, pos, handed, modules>>

Part == [first |-> mark, last |-> pos - 1]

ImportsParsed ==
  /\ Succeeds("imports")
  /\ module' = [module EXCEPT !.parts = @ \cup {Part}]
  /\ Demand("body", <<>>)
  /\ UNCHANGED <<document, pos, mark, handed, modules>>

\* Mutant: imports that cannot be parsed are dropped without a word.
ImportsDropped ==
  /\ Fails("imports")
  /\ Demand("body", <<>>)
  /\ UNCHANGED <<document, pos, mark, module, handed, modules>>

\* The clauses that were parsed are lost, and the rest is taken for definitions.
ImportsFail ==
  /\ Fails("imports")
  /\ module' = Noting({"ParseError"})
  /\ Demand("body", <<>>)
  /\ UNCHANGED <<document, pos, mark, handed, modules>>

AtEnd == Kind(pos) \in {"KwEnd", "Eof"}

\* The lexer leaves of an EXPORTS clause the keyword and the semicolon.
SkipExports ==
  /\ control = "body" /\ stack = <<>> /\ Kind(pos) = "KwExports"
  /\ Demand("body", <<"KwExports", "exports_end">>)
  /\ UNCHANGED <<document, pos, mark, module, handed, modules>>

StartDefinition ==
  /\ control = "body" /\ stack = <<>> /\ ~ AtEnd /\ Kind(pos) # "KwExports"
  /\ mark' = pos
  /\ Demand("definition", parse_definition(Kind(pos), Kind(pos + 1), Kind(pos + 2)))
  /\ UNCHANGED <<document, pos, module, handed, modules>>

DefinitionParsed ==
  /\ Succeeds("definition")
  /\ module' = [module EXCEPT !.parts = @ \cup {Part}]
  /\ Demand("body", <<>>)
  /\ UNCHANGED <<document, pos, mark, handed, modules>>

DefinitionFails ==
  /\ Fails("definition")
  /\ module' = Noting({"ParseError"})
  /\ Demand("recover", <<>>)
  /\ UNCHANGED <<document, pos, mark, handed, modules>>

\* A module ends with END, which is its last token, or with the source.
EndModule ==
  /\ control = "body" /\ stack = <<>> /\ AtEnd
  /\ IF Kind(pos) = "KwEnd"
     THEN /\ pos' = pos + 1
          /\ Close(module, IF pos' = End THEN End + 1 ELSE pos', "start")
     ELSE /\ UNCHANGED pos
          /\ Close(Noting({"ParseError"}), End + 1, "start")
  /\ UNCHANGED <<document, mark, module>>

------------------------------------------------------------------------------
(* Recovery. *)

\* Mutant: a value assignment does not end the recovery.
BoundaryWithoutValues ==
  LET k == Kind(pos)
      l == Kind(pos + 1)
  IN AtEnd \/ (k \in Identifiers /\ l \in MacroKeywords \cup {"ColonColonEqual"})
     \/ (k = "UppercaseIdent" /\ l \in {"KwTextualConvention", "KwMacro"})

\* recover_to_definition stops here.
Boundary ==
  LET k == Kind(pos)
      l == Kind(pos + 1)
  IN AtEnd \/ (k \in Identifiers /\ l \in MacroKeywords \cup {"ColonColonEqual"})
     \/ (k = "UppercaseIdent" /\ l \in {"KwTextualConvention", "KwMacro"})
     \/ (k \in Identifiers /\ l = "KwObject" /\ Kind(pos + 2) = "KwIdentifier")

Skip ==
  /\ control = "recover" /\ ~ Boundary
  /\ pos' = pos + 1
  /\ UNCHANGED <<document, control, stack, mark, module, handed, modules>>

\* Mutant: recovery trusts that it moved.
RecoveredAnywhere ==
  /\ control = "recover" /\ Boundary
  /\ Demand("body", <<>>)
  /\ UNCHANGED <<document, pos, mark, module, handed, modules>>

\* If that is where the definition began, its first token is skipped.
Recovered ==
  /\ control = "recover" /\ Boundary
  /\ pos' = IF pos = mark THEN pos + 1 ELSE pos
  /\ Demand("body", <<>>)
  /\ UNCHANGED <<document, mark, module, handed, modules>>

------------------------------------------------------------------------------

Next ==
  \/ Consume \/ Expand
  \/ StartModule \/ NoMoreModules
  \/ HeaderFails \/ HeaderParsed \/ ImportsParsed \/ ImportsFail
  \/ SkipExports \/ StartDefinition \/ DefinitionParsed \/ DefinitionFails \/ EndModule
  \/ Skip \/ Recovered

Spec == Init /\ [][Next]_vars /\ WF_vars(Next)

------------------------------------------------------------------------------
(* The scan of src/src/scan.rs, by which a directory knows what modules its *)
(* files hold before any of them is parsed.                                 *)

\* Mutant: the END of a macro is taken for that of the module.
NoMacro(from, i) == FALSE

\* The END at i belongs to a macro, since MACRO stands between it and the END before.
EndsMacro(from, i) ==
  \E m \in from .. i - 1 : Kind(m) = "KwMacro" /\ \A j \in m .. i - 1 : Kind(j) # "KwEnd"

\* The END of the module whose text begins at from, or the end of the source.
ScannedEnd(from) ==
  LET ends(i) == i = End \/ (Kind(i) = "KwEnd" /\ ~ EndsMacro(from, i))
  IN CHOOSE i \in from .. End : ends(i) /\ \A j \in from .. i - 1 : ~ ends(j)

\* Behind the braces that open at i, or the end of the source if they are not closed.
BehindBraces(i) ==
  LET count(k, j) == Cardinality({n \in i .. j : Kind(n) = k})
      closed(j)   == Kind(j) = "RBrace" /\ count("LBrace", j) = count("RBrace", j)
  IN IF \E j \in i .. End - 1 : closed(j)
     THEN 1 + CHOOSE j \in i .. End - 1 : closed(j) /\ \A n \in i .. j - 1 : ~ closed(n)
     ELSE End

\* Where the modules begin, from i on: headers follow each other's bodies, and the first
\* token that begins no header ends the scan.
RECURSIVE scan_module_names(_)
scan_module_names(i) ==
  LET j == IF Kind(i + 1) = "LBrace" THEN BehindBraces(i + 1) ELSE i + 1
  IN IF /\ Kind(i) \in {"UppercaseIdent"} \cup Reserved
        /\ <<Kind(j), Kind(j + 1), Kind(j + 2)>> = <<"KwDefinitions", "ColonColonEqual", "KwBegin">>
     THEN {i} \cup (IF ScannedEnd(j + 3) = End THEN {} ELSE scan_module_names(ScannedEnd(j + 3) + 1))
     ELSE {}

------------------------------------------------------------------------------

Controls == {"start", "header", "imports", "body", "definition", "recover", "done"}

Modules == [start : 1 .. End, header : 1 .. End, end : 1 .. End, named : BOOLEAN,
            parts : SUBSET [first : 1 .. End, last : 1 .. End],
            diagnostics : SUBSET [code : STRING, at : 1 .. End], lexical : SUBSET (1 .. End)]

\* The variables have their types; the parser never runs past the end of the source.
TypeOK ==
  /\ document.kinds \in Seq(Kinds \ {"Eof"}) /\ document.faults \subseteq 1 .. End
  /\ pos \in 1 .. End /\ mark \in 1 .. pos
  /\ control \in Controls /\ stack \in Seq(STRING)
  /\ module \in Modules /\ handed \in Nat /\ modules \in Seq(Modules)

Errors(m) == {d.at : d \in {e \in m.diagnostics : e.code = "ParseError"}}

\* The tokens that went into the header, the imports or a definition of a module.
Kept(m) == (IF m.named THEN m.start .. m.header - 1 ELSE {})
           \cup UNION {p.first .. p.last : p \in m.parts}

\* Not part of what is kept of a module, and nothing is said of it.
Ignored(i) ==
  \/ Kind(i) \in {"KwExports", "KwEnd"}
  \/ i > 1 /\ Kind(i) = "Semicolon" /\ Kind(i - 1) = "KwExports"

\* Nothing is skipped in silence: a token of a module that is neither kept nor ignored
\* lies next to a parse error, with nothing that was kept between the two.
SkippedIsReported ==
  \A k \in DOMAIN modules :
    LET m == modules[k]
    IN \A i \in m.start .. m.end - 1 \ Kept(m) :
         Ignored(i) \/ \E e \in Errors(m) : \A j \in Kept(m) : ~ (i < j /\ j < e)
                                                              /\ ~ (e <= j /\ j < i)

\* The modules follow each other and cover the document, unless a header cannot be
\* parsed; and whatever the lexer reported goes to one module, that in whose text or
\* before whose text it lies, although the lexer is three tokens ahead when a module ends.
DiagnosticsOwned ==
  /\ \A k \in DOMAIN modules :
       LET m == modules[k]
           from == IF k = 1 THEN 1 ELSE modules[k - 1].end
       IN /\ m.start = from
          /\ m.named => m.lexical = {f \in document.faults : from <= f /\
                                       (f < m.end \/ m.end = End)}
          /\ ~ m.named => /\ k = Len(modules) /\ m.end \in Errors(m)
                          /\ m.lexical = {f \in document.faults : from <= f /\ f < m.end + 3}
  /\ control = "done" => modules # <<>> /\ (modules[Len(modules)].named => pos = End)

\* The scan and the parser agree on what modules a file holds, as far as it has no faults:
\* a module missed by the scan could not be loaded by its name, one that only the scan
\* sees is a candidate to no purpose.  A name in lower case is left to the parser alone,
\* and a definition that uses END as a label ends the module for the scan.
ScannedAreParsed ==
  control = "done" =>
    LET scanned == scan_module_names(1)
        whole(m) == /\ Errors(m) = {}
                    /\ \A p \in m.parts : \A i \in p.first .. p.last - 1 : Kind(i) # "KwEnd"
        named(m) == m.named /\ Kind(m.start) # "LowercaseIdent"
        upTo(k)  == \A j \in 1 .. k - 1 : whole(modules[j]) /\ named(modules[j])
    IN /\ \A k \in DOMAIN modules : upTo(k) => (named(modules[k]) <=> modules[k].start \in scanned)
       /\ upTo(Len(modules) + 1) => scanned \subseteq {modules[k].start : k \in DOMAIN modules}

\* Recovery does not step over a definition that parse_definition would find; one whose
\* name is a keyword is not looked for.
BoundariesKept ==
  [][control = "recover" /\ pos' = pos + 1 /\ pos # mark =>
       ~ (Kind(pos) \in Identifiers /\ Heads(Kind(pos), Kind(pos + 1), Kind(pos + 2)))]_vars

\* Whatever the document is, the parser comes to its end.
Terminates == <>(control = "done")

------------------------------------------------------------------------------
(* The concrete syntax tree of the same document. *)

(* The tree of module Cst, built from the same text. *)

Tree == INSTANCE Cst

\* The tokens of a part of the tree, and the first and the last of them.
RECURSIVE Leaves(_)
Leaves(e) ==
  IF Tree!IsNode(e) THEN UNION {Leaves(e.children[k]) : k \in DOMAIN e.children} ELSE {e.token}
RECURSIVE FirstLeaf(_)
FirstLeaf(e) == IF Tree!IsNode(e) THEN FirstLeaf(Head(e.children)) ELSE e.token
RECURSIVE LastLeaf(_)
LastLeaf(e) == IF Tree!IsNode(e) THEN LastLeaf(e.children[Len(e.children)]) ELSE e.token

\* The nodes of some kinds within a part, itself included.
RECURSIVE Nodes(_, _)
Nodes(e, kinds) ==
  IF ~ Tree!IsNode(e) THEN {}
  ELSE (IF e.kind \in kinds THEN {e} ELSE {})
       \cup UNION {Nodes(e.children[k], kinds) : k \in DOMAIN e.children}

\* No node is empty, and its children follow each other without a gap.
RECURSIVE Ordered(_)
Ordered(e) ==
  Tree!IsNode(e) =>
    /\ e.children # <<>>
    /\ \A k \in DOMAIN e.children :
         /\ Ordered(e.children[k])
         /\ k > 1 => FirstLeaf(e.children[k]) = LastLeaf(e.children[k - 1]) + 1

\* The tokens of the tree that the parser sees too.  Of those the lexer reports, only the
\* strings that are not closed or have no suffix are tokens in both modes.
Significant(t) == t.kind \notin {"Whitespace", "Comment", "OpaqueText", "Eof"}
                  /\ ~ (t.reported /\ document.text[t.first] \notin {"'", "\""})

\* The place of the n-th token of the parser among those of the tree.
Place(n) == CHOOSE i \in DOMAIN document.tokens :
              /\ Significant(document.tokens[i])
              /\ Cardinality({j \in 1 .. i : Significant(document.tokens[j])}) = n

Spans(root, eof) == Ordered(root) /\ FirstLeaf(root) = 1 /\ LastLeaf(root) = eof

\* The text can be written back from the tree: the tokens cut it into pieces that follow
\* each other from its beginning to its end, and the leaves of the tree are these tokens in
\* their order.  The code panics where it is not so: build_lossless_tree validates the
\* tokens, and a node without a child has no span.
Lossless ==
  control = "done" =>
    LET tokens == document.tokens
        eof == Len(tokens)
    IN /\ tokens[1].first = 1 /\ tokens[eof].first = Len(document.text) + 1
       /\ \A i \in 1 .. eof - 1 :
            /\ tokens[i].kind # "Eof" /\ tokens[i].first < tokens[i].next
            /\ tokens[i + 1].first = tokens[i].next
       /\ Spans(Tree!parse_source_file.els[1], eof)

\* The two modes of the lexer agree: the tokens the parser sees are those of the tree, in
\* their order, without blanks, comments and skipped bodies.  In the semantic mode a body
\* and the word that ends it are one step, in the lossless mode two.
ModesAgree ==
  control = "done" =>
    LET tokens == SelectSeq(document.tokens, Significant)
    IN document.kinds = [i \in DOMAIN tokens |-> tokens[i].kind]

FaultsReported(tree) ==
  \A e \in Nodes(tree.els[1], {"Error"}) :
    \/ \E i \in tree.errs : i \in FirstLeaf(e) .. Tree!Sig(LastLeaf(e) + 1, Len(document.tokens))
    \/ \E i \in Leaves(e) : document.tokens[i].reported

\* Whoever shows the tree's diagnostics shows every fault of it: behind the beginning of an
\* Error node, up to the token that follows it, there is a diagnostic of the tree or of the
\* lexer.
ErrorsAreReported ==
  control = "done" => FaultsReported(Tree!parse_source_file)

\* Where a definition of the tree begins, and what lies in an Error node.
Accounted(root) == {FirstLeaf(e) : e \in Nodes(root, DOMAIN Tree!Patterns)}
                   \cup UNION {Leaves(e) : e \in Nodes(root, {"Error"})}

\* What the parser takes for a definition is one in the tree too, whatever precedes it:
\* one at the margin begins a node of a definition, or lies in an Error node.  The parser
\* goes on with it after a fault; the tree guesses from brackets and lines where it begins.
DefinitionsFound ==
  control = "done" =>
    LET parts == UNION {modules[k].parts : k \in DOMAIN modules}
        begun == {Place(p.first) : p \in {q \in parts : Kind(q.first) # "KwImports"}}
    IN {i \in begun : Tree!starts_unindented_source_line(i)} \subseteq
         Accounted(Tree!parse_source_file.els[1])

==============================================================================
