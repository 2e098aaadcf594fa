# A verification of mib-rs

mib-rs loads SNMP MIB modules from directories, files, memory and an embedded
set, parses them, and resolves imports, types, object identifiers and the
objects on top into one immutable `Mib`. These TLA+ modules model it from the
letters of a text to the diagnostics a load fails on, and the table index codec
that works on the result. TLC checks them on small instances; TLAPS proves the
invariants of the two loaders, of the pipeline around them with lowering and the
checks, of import resolution, of the type graph, of OID resolution and of the
semantic passes for every size.

## Inventory

| Part (source) | State it keeps | Operations | What is hard, what makes it correct | Here |
|---|---|---|---|---|
| Sources (`source.rs`, `scan.rs`) | an index of names to documents | list names, yield candidates, scan a text for module headers | advertisements may be phantoms, reads fail, the scan must see the modules the parser sees | input of the loaders; the scan in `Parser` |
| Parallel load (`load.rs`, `load_all_modules`) | claim cursor, error latch, registry, decode cache, collected modules | list, claim, intern, decode once, match, merge, join | any interleaving gives the result of searching each name alone, and ends | `ParallelLoad` |
| Load by name (`load.rs`, `load_modules_by_name`) | modules, cache, registry, call stack | load a module, then its imports in any order | import cycles, the closure and nothing else, faults end the load | `NamedLoad` |
| Pipeline (`load.rs`, `load`; `resolver/mod.rs`) | collected diagnostics | choose the mode, run the phases, check the result | order of the error checks, what is collected decides what fails | `LoadPipeline` |
| Lexer (`lexer/mod.rs`) | position, mode, state within a skipped body | next token | two modes, comments and quotes, bodies of macros | `Lexer` |
| Parser (`parser/mod.rs`) | tokens ahead, pending reports, definitions | parse a module, recover | damaged text: end, skip nothing in silence, cross no boundary | `Grammar`, `Parser` |
| Syntax tree (`cst/`) | tokens, nodes | build from tokens, navigate, edit | every byte kept, faults reported, same definitions as the parser | `CstBody`, `Cst`; navigation and tooling are not |
| Lowering (`lower/`) | diagnostics | syntax to intermediate form, checks of dates and numbers | comparison with the previous entry only | `Lowering` |
| Registration (`registration.rs`) | `module_index`, defined names | one pass of insertions | several versions of a module under one name | input |
| Imports (`imports.rs`) | `module_imports`, modes, paths, attempts, unresolved | resolve a group at each stage, traverse forwarders, collapse | forwarding cycles, partial groups, preference between versions | `Imports` |
| Types (`resolver/types.rs`, `mib/types.rs`) | types with parents, bases, constraints | seed, link, inherit, intersect | cycles, links made after the cycle check, memory and depth limit | `Ranges`, `TypeGraph` |
| OIDs (`oids.rs`, `node.rs`, `graph/mod.rs`) | the tree, names of nodes, reports | order definitions, resolve components, finalize, place traps | order of resolution, contested nodes, side definitions | `OidResolve` |
| Semantics (`semantics.rs`) | kinds of nodes, objects and their links, declared tables | classify, link INDEX and AUGMENTS, type values | preference between modules over one node, two lookups with different rules | `Semantics`, `ObjectStructure`, `ObjectValues` |
| Checks (`checks.rs`, `rules.rs`) | none | scans of the result | what passes in silence must be in order | `ObjectChecks`, `TypeChecks`, `TableChecks` |
| Diagnostics (`diagnostic.rs`, `diagcode.rs`) | configuration | severity, collect, fail | a promoted or ignored diagnostic | `LoadPipeline`; rendering is not |
| Display hints (`display_hint.rs`) | none | parse, validate, format | three readings of one text with their own limits | `DisplayHint` |
| Index codec (`mib/index`) | none | compile, encode, decode | boundaries, canonical form, limits | `IndexCodec` |
| Symbol tracing (`trace.rs`) | none | trace a name in a scope or without one | follows the rules of resolution a second time, on other tables | `Trace` |
| Navigation spans, query API, writer, export, search path, command line | none | reads of the result, I/O | none that steps could bring apart | not modelled |

The parts interact through values, in one direction. Both loaders ask the
sources in their order of precedence, the embedded one last, and hand the
decoded modules, one per name and sorted, to the resolver. The resolver is
single-threaded and runs registration, imports, types, OIDs, semantics and the
checks in turn over a shared context: imports decide what a name in an OID or a
type means, the module preference decides which module owns a node, and each
phase emits diagnostics through one function that keeps or drops them. The only
concurrency is inside the bulk load. Nothing is persisted, so that there is no
recovery to model; the faults are those of reading files and of the input.

## The modules

Loading:

- `LoadSources` says what sources answer and what a search for one name must
  return; a source is a record of lists, candidates and contents, and a candidate
  that cannot be read is the value `IoError`. A candidate is identified by its
  source and document, as `CandidateKey` is.
- `ParallelLoad` models `load_all_modules`: `ListName` and its like collect the
  candidates; each thread claims an index (`Claim`, the `fetch_add`), looks at
  the latch (`CheckError`), and searches. Each lock is held for one action, and
  the cache entry and its initialisation are two (`CacheEntry`, `GetOrInit`,
  `Decode`, `Unblock`), so that a thread can block on another's `OnceLock`.
  `RegistryFree` keeps the registry locked while an intern error is latched, as
  the temporary in the `match` does. `BulkLoad` is what the load promises: one
  step with a result that depends on the sources alone.
- `NamedLoad` models `load_one` with its recursion as a stack of sets of imports
  still to take; a `HashSet` gives them in any order. `LoadRequests` defines the
  closure it must load and `NamedSelection` the promise.
- `LoadPipeline` models `load()` around them: a request names modules or none,
  the loader may fail, lowering and every phase emit diagnostics through `emit`,
  the checks run on the finished model, and the result is tested for missing
  modules and then against the threshold. Its first part is `DiagnosticConfig`.

Text:

- `Lexer` lists the token kinds and reads a sequence of letters, each
  of which is what the lexer treats as one (a keyword, a piece of an identifier,
  a quote, a dash), in the semantic and in the lossless mode.
- `Grammar` holds the parse functions as rules: the items each demands, options,
  and choices by the next three tokens. `Parser` runs them with a stack of items,
  one token, rule or skipped token a step; `StartDefinition`, `DefinitionFails`,
  `Recovered` and `Skip` are the loop of `parse_one_module` and
  `recover_to_definition`, and `Close` hands out the lexer's reports.
  `scan_module_names` is the scan of `scan.rs` over the same letters.
- `CstBody` and `Cst` build the concrete syntax tree from the lossless tokens;
  `Parser` takes them by INSTANCE to compare the two readings of one document.
- `Lowering` turns parsed definitions into those the resolver works on and
  reports of their numbers, ranges, dates and order.

Resolution:

- `Imports` models the import phase. A module is its position in the list; the
  clauses of a module are grouped by the module they name, and a group passes
  the stages `direct`, `alias`, `forwarding` and `partial`. The recursion of
  `explore_import_candidate` is the variable `stack`; a frame holds a module on
  the path and the candidates left there. Provenance is written by `Record`, the
  chains are collapsed by `Collapse`, and `CopyResolved` copies the targets.
- `Ranges` holds bounds, intersection and normalisation. `TypeGraph` models the
  type phase pass by pass: seeding, links by reference, the cycles, primitive
  parents, the RFC1213 links, bases, and effective constraints with their memory
  and depth limit.
- `OidResolve` models `resolve_oids`. A node is the path of arcs to it. Begin
  takes any definition whose dependencies had their turn, which is what the
  graph guarantees; the components are one action each, `Finalize` names the node
  and decides who owns it, and the traps follow.
- `LastUpdated` and `Preference` hold `normalize_timestamp` and
  `should_prefer_module`; the phases share them.
- `Semantics` models the passes of `resolve_semantics` over definitions of five
  sorts; `ObjectStructure` the tables a single module declares, whoever owns the
  nodes; `ObjectValues` what becomes of SYNTAX and DEFVAL.
- `Trace` is `trace_symbol` over the tables that `Semantics` fills: candidates by
  symbol, local, import and global fallback, and the unscoped lookup.
- `ResolvedMib` is the finished model as the checks read it, and `ObjectChecks`
  (with groups, compliances and capabilities), `TypeChecks` and `TableChecks` are
  the checks, each operator named after its function and equal to the reports it
  emits.
  `DisplayHint` holds the readings of a hint.

After the load: `IndexCodec` compiles an INDEX clause into a schema and then
runs an operation and its inverse.

Short vocabulary operators are to be read with the definitions that use them; the
map lists the definitions that say what the code does. `MC...` modules hold the inputs of the runs, `...Proofs` the
theorems.

What is left out of them: log messages, the wording of diagnostics, source
ranges (where they decide nothing), usage marks on imports in `Imports`, and the
warning for a symbol that matches in another case. Names whose spelling matters
to a check come with their parts (`Spelling`), dates as their fields.

## Runs

| Run | Instance | What it shows |
|---|---|---|
| `parallel_load` | two threads, two names, two sources of two documents; phantom, shared, unreadable and oversized documents, failing listings | a name comes from the first place that has it in any interleaving; a document is decoded once; the load implements `BulkLoad` and so ends with all that is there or with a real error |
| `named_load` | all import graphs of three modules up to the choice in `MCNamedLoad`, five places for one of them | what is loaded is owed and has its imports; the load implements `NamedSelection` |
| `parser` | definitions of every sort with each token missing or a brace too many, at the margin, between others; damaged headers and imports; two modules with reports around the border; scraps of up to a few letters | see below |
| `checks` | families of parsed and resolved modules around each group of checks, and configurations | see below |
| `imports` | an importer, two versions of the module it names, and a module these import from and that imports from them; macros, duplicates, aliases, missing modules | imports lead to definers along true paths, nothing is reported missing that a chain reaches, every symbol accounted for, with a target exactly if resolved |
| `import_alias` | as above, through an alias | violated: see Findings |
| `type_graph` | three user types with every reference between them and to known names; SNMPv2-TC and RFC1213-MIB, the former also a vendor's that refers back; chains of three constraints out of eight | references close no circle of parents, a type without a base is explained by a report on its chain where that has an end, effective constraints are the intersection of the chain |
| `oid_resolve` | a base module and two others with two definitions each, in every form of component, cycles, traps | the tree and its owners are right in any order, parents agree, no false orphans, every symbol has a node or a report |
| `oid_sync`, `oid_scope` | one node named before it is defined; a name referred to across modules | violated: see Findings |
| `semantics` | two modules that define the nodes of one table differently, either preferred, with imported, unplaced, duplicate and unknown names; declared structures with a second table or row | kinds follow the preferred module, AUGMENTS agrees at both ends, what is not linked is reported, a declared table is whole or marked; a trace finds what the passes linked |
| `index_codec` | one or two components of each kind and constraint, suffixes of up to four arcs, rows of values, three sets of limits | decoding inverts encoding, suffixes are as long as the schema says, and the components an error says were decoded are canonical encodings of a prefix |

`parser` shows: a definition that is skipped is reported (`SkippedIsReported`);
every report of the lexer goes to one module, the one in whose text it lies
(`DiagnosticsOwned`); recovery does not step over a definition that the parser
would find (`BoundariesKept`) and the parser ends (`Terminates`); the two modes of the lexer
differ in what is left out only (`ModesAgree`); the tree has every letter in order
(`Lossless`), reports where it holds an error (`ErrorsAreReported`) and begins a
definition wherever the parser does, outside of errors (`DefinitionsFound`); the scan of a well-formed text
advertises the modules the parser finds (`ScannedAreParsed`).

`checks` states what silence means: ranges, columns and numbers that nothing is
reported of are in order and apart (`AcceptedInOrder`); accepted indexes can be
encoded and accepted hints format every value and lose no octet
(`AcceptedIsUsable`); accepted numeric defaults are allowed by the type
and by the object (`DefaultsAllowed`); revisions go back in time from LAST-UPDATED in
the order in which the resolver compares versions (`LastUpdateIsFirst`); and a configuration that reports what it fails at hides no
failure (`FailureNotHidden`).

### Bounds

Two threads are enough for each race in the loader, as every one of them is
between a thread that holds something (an index, an entry, a lock) and one that
wants it; two documents per source let a name have a phantom before its hit and
two names share a document. Three modules give import cycles of every length
that differs to the code (self, mutual, through a third). Two versions under one
name are what distinguishes the orders of candidates. Versions reach the resolver
only through its crate-internal entry: a load keeps one module per name.

The integers of a type are shrunk (`IntMin`, `IntMax`, `UIntMax`, `UInt64Max`,
`SizeMax`, `OctetMax`, `MaxArc`) to a few values apart in the same order, which
keeps each comparison with them decided both ways; `DepthLimit` is beyond any
chain of the run, as 1000 is beyond real ones. `MaxSubIds`, `LargePosition` and
`Now` stand for 128 sub-identifiers, bit 128 and the clock; `MaxNesting` is how
deep the syntaxes of the run are nested at most, a constant because the models that
are proved about unfold nesting by a function of that depth. Three types and three
ranges are the longest chains that add a case (a middle one that is empty,
raw or inverted). One token missing or too many reaches each error path of each
parse function; a second one only repeats it behind the recovery, which the
definitions that follow the damaged one exercise. Two display-hint segments reach
every transition of the formatter, and the samples exhaust and repeat them.

Each input is a fixed record and no counter is unbounded, so no state constraint
is needed. `CHECK_DEADLOCK FALSE` is set since every model ends. No symmetry is
used: the orders of modules and documents matter.

`ParentsAgree` is checked over inputs in which a number given to a name agrees
with the definition of it, and in which no qualified reference rebinds a name its
module defines; `oid_scope` is the run that shows what happens otherwise.
Conditions of that kind of other properties are stated with them: the scan is
compared on texts without END as a label or a lower-case module name,
`ErrorsAreReported` with a configuration that collects parse errors,
`DefaultsAllowed` on resolved ranges.

### Fairness

A thread that can take a step eventually takes one (`WF` for each worker and for
the caller), which an operating system gives; the sequential phases have weak
fairness of `Next`, as a program keeps running. `Terminates` of `Imports`,
`OidResolve` and `Parser` and the liveness of the two refinements need no more.

### Mutants

Every property has a mutant in `PROJECT.json`: a change of one definition, like
one a slip in that code would make, that the run then finds. The mutants are the
operators marked `Mutant` in the modules; no specification uses them.

## Findings

- `oid_sync`: `set_intermediate_node` makes a module the owner of a node it only
  names. Its own definition of the node, resolved later, is not preferred over
  itself, so that kind, range and text stay unset, where the comment in
  `finalize_oid_definition` says that they reflect the preferred module.
- `oid_scope`: a `QualifiedNamedNumber` that resolves rebinds the name in the
  referring module over that module's own definition, where `context.rs` says of
  the lookup that local definitions come first.
- `import_alias`: a module that imports a symbol through an alias of a module's
  name cannot forward it, where the crate documentation says that forwarding
  follows the module's own imports.

### Observations

Met while modelling; the models do what the code does, and the properties are
stated so that they hold with it.

Types and semantics:
- `link_rfc1213_types_to_tcs` (types.rs:592) runs after the cycle check. With an
  SNMPv2-TC that refers back to RFC1213-MIB it closes a circle of parents that
  nothing reports, against typedef.rs:3-5. `OnlyLinksCloseCycles` says that
  nothing else can. Types on such a circle stay without a base unreported, which
  is why `UnknownIsReported` speaks of chains that end (`Ends`).
- A parent's alternative with its ends the wrong way round holds no number, yet
  MIN and MAX of a child refer to it; `ConstraintsAreIntersections` is exact where
  no alternative is like that or the child names no extreme (`Proper`,
  `NamesExtreme`), and never allows too much.
- `row_nodes` (semantics.rs:92) keeps nodes that a preferred module overruled:
  the children of a node that ends as no Row become columns, and the kind of a
  preferred module's NOTIFICATION is overwritten, against semantics.rs:54-56.
- A name defined twice in a module: both AUGMENTS links go to the first object,
  whose `augmented_by` then holds duplicates (object.rs:203).
- `lookup_notification_object` asks the global table before the module's own
  node at Permissive (semantics.rs:1562), unlike the other lookups.
- A trace is to follow the same rules as resolution (trace.rs:237), but differs in
  two cases, which `TraceAgrees` names. Below Permissive the resolver takes for a
  notification's object what a node in scope carries under another name or from
  another module (semantics.rs:1580), where the trace says Missing. An object
  without a node is a symbol for a trace of a group's member, where the resolver
  goes on to the import or to any module (context.rs:272).
- Odd hexadecimal digits of a default are padded on the left, for BITS too, where
  binary ones are padded on the right; a label on a type without enumeration is
  accepted in silence; `OidRef` is built by nothing.

Checks, lowering, diagnostics:
- Disjoint ranges in descending order are reported as overlapping; a column named
  twice in a SEQUENCE disables the test of the order; TypeUnreferenced does not
  see refinements by named numbers nor the fields of a SEQUENCE.
- The branches for `SNMP_MODULES` and `TRANSMISSION` in
  `check_module_identity_registration`, and the bounds of Counter64 and TimeTicks
  in the range check, cannot be reached.
- An empty LAST-UPDATED or REVISION date is accepted in silence; one date spelled
  with two and with four digits of the year counts as two.
- A configuration that reports less than it fails at hides failures: the
  threshold sees what was collected. No preset is one.

Text:
- `recover_to_definition` (parser/mod.rs:436) does not stop at a definition whose
  name is a keyword, against parser/mod.rs:34-36.
- `scan.rs` takes END for the end of a module wherever it stands, as a label too,
  and advertises no module with a lower-case name, though both parse.
- The tree accepts in silence what the parser refuses (text in a body that begins
  no definition, ranges without `..`, contents of DEFVAL of any kind) and refuses
  some of what it accepts (reserved words in lists of names, a missing comma
  between named numbers). The branch of `legacy_macro_end` for `::= BEGIN` is
  never taken. EXPORTS without a semicolon swallows the rest in both.

Display hints and codec:
- `d-N` is valid up to 255 places, formatted up to 100 and scaled up to 20. The
  formatters accept a sign the parser refuses and read a hint no further than the
  value takes them (display_hint.rs:615 says malformed hints give nothing). A text
  can end in a separator if the last octet is a repeat count of nothing.
- `with_max_value_arcs` (codec.rs:107) does not limit IpAddress in
  `encode_canonical`.

## Proofs

All proofs hold for every value of the constants that meets their assumptions:
any sources, documents, threads, modules, definitions, types and numbers. The
assumptions are the named `ASSUME`s next to the constants; they say that
sentinels differ from data, that tables are functions and that bounds are
integers, and TLC evaluates them in every run.

- `ParallelLoadProofs`: types, and `Precedence`. Lemmas about `LoadSources` come
  first: the order of positions, uniqueness of what a search returns, and that a
  search of all sources and of the advertisers differ in nothing that matters. The invariant says of each
  thread that all positions before the one it is at neither fail nor hold the
  module; the step that matches then finds what a lone search finds. Its second
  part proves that nothing is lost, that an error is a real one, and that each
  step is a step of `BulkLoad` or a stutter. The invariant there adds that an
  index below the cursor is in somebody's hands and that the registry holds the
  documents visited.
- `NamedLoadProofs`: types, closure, minimality, the bound of the recursion, and
  the refinement of `NamedSelection`. The invariant is their conjunction with the
  fact that what is loaded was found and what was read is retained.
- `ImportsProofs`: types, `AtDefiner`, `PathSound`, and that `Collapse` changes
  nothing. The invariant `SearchOK` says that the stack is a chain of clauses for
  the symbol sought through modules that do not define it, without repetition,
  and that the paths found for a group so far are sound; neither property is
  inductive without it. That `Collapse` is idle follows from `AtDefiner`: a chain
  from a definer ends where it starts. `NoFalseMissing` needs that a traversal is
  exhaustive (`Exhaustive`): the modules it has left for good, with those on its
  path, lead only to each other and to what is still to be tried, so that when the
  stack is empty they are closed and hold no definition. `Accounted` needs that
  the groups to come are untouched and those behind settled (`Progress`), and that
  of the attempts one is selected exactly if there is a target (`AllAgree`).
- `TypeGraphProofs`: types, and `OnlyLinksCloseCycles`. A link by reference is
  made only for a type outside every cycle of references, the other links lead
  to primitives, which have no parent; so a circle of parents without a linked
  RFC1213 type would be a circle of references, whose members have no parent. The
  invariant says of each parent that it is the reference's target, a primitive or
  a link, and which of them by pass; that the proof needs no induction over
  chains is due to reachability being stated by closed sets. `UnknownIsReported`
  follows the chain to its end: each type there is one that a name leads to, and
  these were linked or reported (`Followed`). `ConstraintsAreIntersections` is
  proved for graphs in which every chain ends within the limit (`AllEnd`); the
  calls under way are then one chain, no call is cut short, and every remembered
  constraint is the one its parent's gives (`FromParent`). That an intersection of
  alternatives holds the common numbers is a lemma about `Meet` and `Contains`.
- `OidResolveProofs`: types, the shape of the tree included, and
  `OwnerPreferred`. The invariant relates the owner of each node to all
  definitions placed there; preference is a strict order on the facts of modules.
  `Accounted` and `NoFalseOrphan` rest on the order of resolution (`Turns`): what a
  definition names has had its turn, is on a cycle or is being resolved, and what
  was passed without a node never gets one. `ParentsAgree` is proved for worlds
  whose references are `Plain`, since a name with a number and a qualified name
  with a number can rebind what a definition was resolved by (`oid_scope`): there
  each name leads to the node of what it names (`OwnNames`, `OtherNames`) and the
  path of a definition under way extends it (`LedBy`). TLC checks the property
  also in worlds with a number that agrees with the definition.
- `SemanticsProofs`: `KindOfOwner`, `AugmentsInverse`, `UnlinkedIsReported`,
  `DeclaredWhole` and `TraceAgrees`. The
  kind of a node and the object at it are decided by two passes; both keep the
  best of the definitions seen (`Classified`, `Carried`) under one order, that of
  modules and within a module of definitions, which is shown strict and total, so
  that the best is one. Lookups of objects are shown to answer the same from the
  last object created on, so that the pass that reports and the pass that links
  agree: the reports are the complaints about the definitions validated
  (`Validated`), and an object is linked as its clauses say once its turn came and
  stands in the list of its target once (`Linked`). A trace finds by the symbols of
  modules what the passes found by nodes: in each of its domains the candidate is
  the object, or at the node, that the lookup of the pass answers (`TracedObject`,
  `TracedNotificationObject`, `TracedMember`), and what the passes looked up when
  they came to a definition is marked and in its list for good (`Explained`). Where
  no scope is needed there are finitely many candidates, and what any module finds
  is one of them, also through the fallback: the object a name finds anywhere is
  the first of its name in its module, since its node carries the best of them
  (`ObjectByNameIsFirst`). The structure of a module is whole
  (`StructureIsWhole`) because each of its passes keeps a set of structures
  (`Paired`, then `Columned`) and only adds to what was linked and marked
  (`Extends`), so that what a step does for a table, a field or an object still
  holds at the end; one lemma says so for any list (`StepsKeep`). This rests on
  assumptions about the input that the code justifies: the passes go through every
  module, a definition has no clauses of other sorts, and the parser reads no
  SEQUENCE OF without the name of its entries.
- `LoadPipelineProofs`: `FailureNotHidden`, `LastUpdateIsFirst`, `DefaultsAllowed`
  and `AcceptedInOrder`, from three invariants of the load. `DiagnosticsKept`: a
  phase adds to what was emitted and removes nothing, what is collected is what had
  to be, and the reports of lowering are there as soon as the modules are
  registered. `MibKeptHolds`: the Mib has its form in every phase, which follows
  the modules from the request through lowering and what the resolver adds to
  them; `RequestsAssumption` says of the requests only that their records,
  sequences and numbers are what the crate's types make them. `ChecksKeptHolds`:
  the ranges of an object are the narrowing of its type's until the end, and
  what the checks find of the Mib at the result was emitted. The rest is about
  lists. A check that compares neighbours makes a list ordered because the order
  is transitive (`RangesAscend`, `NeighboursDescend`), for dates because one that
  passes the check is ordered by its reading as by its timestamp (`BeforeIsLater`). Two lists of which each holds the
  other's members, without repetition and in the same order, are one list
  (`SameLists`). What `Narrow` leaves is allowed by both
  constraints (`NarrowAllows`).
- `IndexCodecProofs`: types, `RoundTrip`, `PrefixRecoverable` and `WithinWidth`.
  The invariant says where a suffix is cut: each piece so far is the canonical
  encoding of one value (`Split`, `Joined`), and while a result goes through the
  other operation the two cut it at the same places (`Rejoining`, `Resplitting`).
  That they must is a lemma about one component: from the encoding of a value,
  whatever follows it, the decoder takes that value and nothing else
  (`TakesTheValue`), and what it takes has no other encoding
  (`TakenIsCanonical`). The widths follow from one lemma per component
  (`WidthOfValue`), summed along the pieces.

Some theorems are not repeated as properties of runs, because a run's refinement
implies them or because they are shapes of the state: `TypeCorrect` of each
module, that nothing is lost and errors are real (`ImplementsBulkLoad`), that
only wanted modules are loaded and the depth is bounded by the number of loaded
modules (`ImplementsSelection`).

The safety of the loaders' waiting is proved too (`OneDecoderHolds`): an entry of
the cache that is being initialised has a thread that will fill it; that the
thread then does is liveness.

Only model-checked: liveness (termination and the fair part of the two
refinements) and whatever needs ENABLED, which are out of this prover's reach;
what the formatters and the codec behind `AcceptedIsUsable` compute for every
text; and the properties of `Parser`, whose modules declare recursive operators.

## Not modelled

- Navigation spans, query API, writer, export, command line, search path, and the
  navigation, typed views and tooling of the syntax tree: reads of a finished
  result, formatting or I/O, without state that steps could bring apart.
- Files that change between the indexing of a directory and the reading: the code
  promises nothing then, and the loaders are modelled under the contract that an
  identity keeps its content. The cache is keyed by identity, so that the first
  content interned is kept for the rest of the load.
- The stack of the recursive loader: its depth is bounded by the number of
  modules (proved), the bytes of a frame are not known to the model.
- Within modelled parts: digits and suffixes of literals, UTF-8, line and column
  conversion, patterns of ignored codes, DEFVAL of a variation; the order in
  which a `HashMap` yields reports of the type phase (`TypeGraph` compares sets);
  tracing of types and OID components, with their foundation modules, and the
  choice among several versions of a scope.
