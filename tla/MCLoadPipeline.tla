---------------------------- MODULE MCLoadPipeline ----------------------------
(***************************************************************************)
(* Requests for the model checking of LoadPipeline: resolved models of one *)
(* or two modules, each family around what one group of checks looks at,   *)
(* and configurations that report, promote, ignore and fail differently.   *)
(***************************************************************************)
EXTENDS LoadPipeline, TLC

MCIntMin == -2
MCSpelling == [n \in {"tTable", "tEntry", "uEntry", "a-b", "A", "M-MIB"} |->
  CASE n = "tTable" -> [stem |-> "t", ending |-> "Table", folded |-> "ttable", hyphen |-> FALSE]
    [] n = "tEntry" -> [stem |-> "t", ending |-> "Entry", folded |-> "tentry", hyphen |-> FALSE]
    [] n = "uEntry" -> [stem |-> "u", ending |-> "Entry", folded |-> "uentry", hyphen |-> FALSE]
    [] n = "a-b" -> [stem |-> "a-b", ending |-> "", folded |-> "a-b", hyphen |-> TRUE]
    [] n = "M-MIB" -> [stem |-> "M", ending |-> "-MIB", folded |-> "m-mib", hyphen |-> TRUE]
    [] n = "A" -> [stem |-> "A", ending |-> "", folded |-> "a", hyphen |-> FALSE]]

------------------------------------------------------------------------------
(* Parts of a resolved model. *)

Syntax(form, name) == Plain(form, name, <<>>)
Ref(name) == Syntax("TypeRef", name)
Limited(kind, ranges) == [Ref("T") EXCEPT !.constraint = [kind |-> kind, ranges |-> ranges]]

NoDefault == ParsedDef("ObjectType", "").defval
Number(v) == [NoDefault EXCEPT !.k = "Int", !.value = v]

Blank == [lower_definition(ParsedDef("ObjectType", "")) EXCEPT
            !.module = 1, !.access = "read-only", !.keyword = "MAX-ACCESS", !.syntax = Ref("T")]
D(sort, name) == [Blank EXCEPT !.sort = sort, !.name = name]

Type(name, base) == [name |-> name, parent |-> NoType, tc |-> FALSE, status |-> "current",
                     base |-> base, enums |-> {}, bits |-> {}, hint |-> <<>>,
                     sizes |-> Unconstrained, ranges |-> Unconstrained]

Bare == [kind |-> "Node", name |-> "", module |-> 1, object |-> 0, notification |-> 0, group |-> 0]
Inner(name) == [Bare EXCEPT !.kind = "Internal", !.name = name]
Carrying(kind, name, d) == [Bare EXCEPT !.kind = kind, !.name = name, !.object = d]

Empty == [x \in {} |-> x]
Module(name, language, nodes, types) ==
  [name |-> name, language |-> language, base |-> FALSE, nodes |-> nodes, types |-> types,
   imports |-> Empty, symbols |-> {}, used |-> {}]

Mib(modules, defs, tree, types) ==
  [modules |-> modules, defs |-> defs, tree |-> tree @@ (<<>> :> Inner("")) @@ (<<1>> :> Inner("iso")),
   types |-> types, typeByName |-> Empty, fallbackTypes |-> Empty, permissive |-> FALSE]

------------------------------------------------------------------------------
(* Families of models. *)

TypeRanges(own, base) == Effective(own, Inherited(own, Unconstrained, base, FALSE))

\* A type definition with ranges that are in order, touch, overlap or are exchanged.
RangeMib(base, ranges) ==
  Mib(<<Module("M", "SMIv2", Empty, "T" :> 1)>>,
      <<[D("TypeDef", "T") EXCEPT !.syntax = Limited("Range", ranges), !.typ = 1]>>, Empty,
      <<[Type("T", base) EXCEPT !.ranges = TypeRanges(Elements(ranges), base)]>>)

Bounds == {Num(0), Num(1), Num(2), Num(3)}
Spans == {[min |-> a, max |-> b] : a, b \in Bounds}
OddSpans == {[min |-> a, max |-> b] : a, b \in {MIN, Num(1), Num(4), MAX, Raw}}
RangeMibs == {RangeMib("Integer32", <<p, q, r>>) : p \in Spans, q \in Spans, r \in Spans}
             \cup {RangeMib(b, <<p, q>>) : b \in {"Integer32", "OctetString", "TimeTicks"},
                                           p \in OddSpans, q \in OddSpans}

\* A table of two columns and the SEQUENCE of its row.
SequenceMib(fields, columns, spelled, rowName) ==
  Mib(<<Module("M", "SMIv2", ("tTable" :> <<1, 2>>) @@ (rowName :> <<1, 2, 1>>)
                             @@ (columns[1] :> <<1, 2, 1, 1>>) @@ (columns[2] :> <<1, 2, 1, 2>>),
               ("Integer32" :> 1) @@ ("DisplayString" :> 2))>>,
      <<[D("ObjectType", "tTable") EXCEPT !.access = "not-accessible",
                                          !.syntax = Syntax("SequenceOf", "")],
        [D("ObjectType", rowName) EXCEPT !.access = "not-accessible", !.syntax = Ref("TEntry")],
        [D("ObjectType", columns[1]) EXCEPT !.syntax = Ref("Integer32")],
        [D("ObjectType", columns[2]) EXCEPT !.syntax = Ref("DisplayString")],
        [D("TypeDef", "TEntry") EXCEPT !.registered = FALSE, !.syntax =
           [Syntax("Sequence", "") EXCEPT !.fields =
              [k \in DOMAIN fields |-> [name |-> fields[k], type |-> spelled]]]]>>,
      (<<1, 2>> :> Carrying("Table", "tTable", 1)) @@ (<<1, 2, 1>> :> Carrying("Row", rowName, 2))
      @@ (<<1, 2, 1, 1>> :> Carrying("Column", columns[1], 3))
      @@ (<<1, 2, 1, 2>> :> Carrying("Column", columns[2], 4)),
      <<Type("Integer32", "Integer32"), Type("DisplayString", "OctetString")>>)

FieldLists == UNION {[1 .. n -> {"a", "b", "c"}] : n \in 0 .. 3}
SequenceMibs == {SequenceMib(f, c, s, r) : f \in FieldLists, c \in {<<"a", "b">>, <<"b", "a">>, <<"a", "a">>},
                                           s \in {"INTEGER", "OCTET STRING"},
                                           r \in {"tEntry", "uEntry"}}

\* A row indexed by one column of any base, with and without sizes, names and a default.
Refining(enums, kind, ranges) ==
  [Syntax(IF enums = {} THEN "TypeRef" ELSE "IntegerEnum", "T") EXCEPT
     !.numbers = Seqs!SetToSeq(enums),
     !.constraint = IF ranges = {} THEN @ ELSE [kind |-> kind, ranges |-> Seqs!SetToSeq(ranges)]]

IndexMib(language, base, access, implied, sizes, enums, ranges, default) ==
  Mib(<<Module("M", language, ("tEntry" :> <<1, 2, 1>>) @@ ("a" :> <<1, 2, 1, 1>>), "T" :> 1)>>,
      <<[D("ObjectType", "tEntry") EXCEPT !.index =
           <<[object |-> 2, encoding |-> Encoding(base, implied, sizes)]>>],
        [D("ObjectType", "a") EXCEPT !.access = access, !.defval = default,
           !.syntax = IF sizes # {} THEN Refining({}, "Size", sizes)
                      ELSE Refining(enums, "Range", ranges)]>>,
      (<<1, 2>> :> Carrying("Table", "tTable", 0)) @@ (<<1, 2, 1>> :> Carrying("Row", "tEntry", 1))
      @@ (<<1, 2, 1, 1>> :> Carrying("Column", "a", 2)),
      <<Type("T", base)>>)

IndexBases == {"Integer32", "Unsigned32", "Counter32", "Counter64", "Bits", "OctetString",
               "Opaque", "IpAddress", "ObjectIdentifier", "Sequence", "Unknown"}
IndexMibs ==
  {IndexMib(l, b, x, i, s, {}, {}, NoDefault) :
     l \in {"SMIv1", "SMIv2"}, b \in IndexBases, x \in {"not-accessible", "read-only"},
     i \in BOOLEAN, s \in {{}, {Between(2, 2)}, {Between(1, 3)}, {Between(5, 5)}}}
  \cup {IndexMib("SMIv2", "Integer32", "not-accessible", FALSE, {}, e, r, d) :
          e \in {{}, {Label("one", 1)}, {Label("minus", -1)}},
          r \in {{}, {Between(0, 2)}, {Between(-1, 1)}, {[min |-> Raw, max |-> Raw]}},
          d \in {NoDefault, Number(-3), Number(1), Number(4),
                 [NoDefault EXCEPT !.k = "Enum", !.label = "one"]}}

\* An object that narrows its type and has a default, as it is parsed, with another
\* module that has a node and a type.
Date(length, year, month, day) ==
  [length |-> length, digits |-> TRUE, year |-> year, month |-> month, day |-> day,
   hour |-> 12, minute |-> 0]
NoDate == Date(0, 0, 0, 0)
MCNow == <<2024, 1, 1, 0, 0>>

Identity == [ParsedDef("ModuleIdentity", "m") EXCEPT !.updated = Date(13, 2020, 2, 29)]
Object(name, syntax, default) ==
  [ParsedDef("ObjectType", name) EXCEPT !.syntax = <<syntax>>, !.defval = default,
                                        !.access = "read-only", !.keyword = "MAX-ACCESS"]
ParsedModule(name, imports, body) == [name |-> name, imports |-> imports, body |-> body, codes |-> {}]
From(module, symbols) == [module |-> module, symbols |-> symbols]

DefaultWorld(type, syntax, default) ==
  [mib |-> Mib(<<Module("M", "", ("x" :> <<1, 2>>) @@ ("y" :> <<1, 3>>), "T" :> 1),
                 [Module("O", "", "z" :> <<1, 4>>, "U" :> 1) EXCEPT !.imports = "x" :> 1]>>,
               <<>>,
               (<<1, 2>> :> Carrying("Scalar", "x", 1)) @@ (<<1, 3>> :> Inner("y"))
               @@ (<<1, 4>> :> [Carrying("Scalar", "z", 2) EXCEPT !.module = 2]), <<type>>),
   parsed |-> <<ParsedModule("M", <<From("SNMPv2-SMI", <<"OBJECT-TYPE">>)>>,
                             <<Object("x", syntax, default)>>),
                ParsedModule("O", <<From("M", <<"x">>)>>,
                             <<Object("z", ParsedSyntax("TypeRef", "U"), NoDefault)>>)>>]

\* Ranges as they are written, and the same as a type has them.
Writings == {<<>>, <<<<Num(0), Num(1)>>>>, <<<<Num(0), Num(2)>>>>, <<<<MIN, Num(1)>>>>,
             <<<<Num(1), MAX>>>>, <<<<MAX>>>>, <<<<Num(0)>>, <<Num(2), Num(3)>>>>,
             <<<<AnyName, Num(1)>>>>}
OfWriting(w) == Elements(lower_constraint([kind |-> "Range", ranges |-> w]).ranges)
Wrapped(form, base, constraint) ==
  [ParsedSyntax(form, "") EXCEPT !.parts = <<base>>, !.constraint = constraint]
Ranged(base, w) == IF w = <<>> THEN base
                   ELSE Wrapped("Constrained", base, [kind |-> "Range", ranges |-> w])
NamedOf(form, name, numbers) == [ParsedSyntax(form, name) EXCEPT !.numbers = numbers]
Relabelled(e) == IF e = {} THEN ParsedSyntax("TypeRef", "T")
              ELSE NamedOf("IntegerEnum", "T", Seqs!SetToSeq(e))

DefaultWorlds ==
  {DefaultWorld([Type("T", b) EXCEPT !.ranges = TypeRanges(OfWriting(p), b)],
                Ranged(Relabelled(e), r), Number(v)) :
     b \in {"Integer32", "Unsigned32", "Counter64"}, p \in Writings, r \in Writings,
     e \in {{}, {Label("one", 1)}}, v \in {-3, 0, 1, 2, 3}}

\* Defaults that are no numbers, over types with and without named values.
Part(k, module, name, number) == [k |-> k, module |-> module, name |-> name, number |-> number]
Written(k, digits) == [NoDefault EXCEPT !.k = k, !.digits = digits]
OidValue(components) == [NoDefault EXCEPT !.k = "ObjectIdentifier", !.components = components]
Spelt(k) == [NoDefault EXCEPT !.k = k, !.label = "y", !.labels = {"one"}]
Parts == {Part(k, m, n, 7) : k \in {"Name", "NamedNumber", "QualifiedName", "QualifiedNamedNumber",
                                    "Number"}, m \in {"O", "X"}, n \in {"y", "z"}}
OtherDefaults ==
  {Written(k, s) : k \in {"Hex", "Binary"}, s \in {<<>>, <<1>>, <<0, 1, 1>>, <<1, 9, 0>>, <<-1, 1>>}}
  \cup {Spelt(k) : k \in {"String", "Identifier", "Bits", "Unparsed"}}
  \cup {OidValue(<<>>)} \cup {OidValue(<<p>>) : p \in Parts}
  \cup {OidValue(<<p, q>>) : p, q \in {r \in Parts : r.module = "O" /\ r.name = "y"}}
OtherWorlds ==
  {DefaultWorld([Type("T", b) EXCEPT !.enums = e, !.bits = e], ParsedSyntax(f, "T"), v) :
     b \in {"OctetString", "Bits", "ObjectIdentifier", "Integer32"},
     f \in {"TypeRef", "IntegerEnum", "Bits", "ObjectIdentifier"},
     e \in {{}, {Label("one", 1)}}, v \in OtherDefaults}

------------------------------------------------------------------------------
(* Conventions with a hint: short texts, one or two segments, and limits. *)

HintMib(base, hint) ==
  Mib(<<Module("M", "SMIv2", Empty, "T" :> 1)>>,
      <<[D("TypeDef", "T") EXCEPT !.tc = TRUE, !.hint = hint, !.typ = 1, !.syntax = Ref(base)]>>,
      Empty, <<[Type("T", base) EXCEPT !.tc = TRUE, !.hint = hint]>>)

Texts(letters, n) == UNION {[1 .. k -> letters] : k \in 0 .. n}
WrittenSegments ==
  {star \o length \o format \o sign :
     star \in {<<>>, <<"*">>}, length \in {<<"0">>, <<"1">>, <<"2">>}, format \in {<<"d">>, <<"x">>},
     sign \in {<<>>, <<":">>, <<":", ";">>}}
Limits == {<<"9", "d">>, <<"1", "0", "x">>, <<"9", "9", "a">>, <<"1", "0", "0", "a">>}
Places3 == {<<"d", "-", a>> \o b : a \in {"0", "1", "2", "+"}, b \in Texts({"0", "1", "5", "6"}, 2)}
HintMibs ==
  {HintMib(b, h) : b \in {"Integer32", "OctetString", "Counter32"},
                   h \in Texts({"*", "0", "1", "d", "x", "-", "."}, 3) \cup Limits \cup Places3}
  \cup {HintMib("OctetString", s \o t) : s \in WrittenSegments, t \in WrittenSegments}
MCNumerals == {<<"0">>, <<"5">>, <<"1", "2">>, <<"1", "2", "3">>}
MCSamples == (Texts({0, 1, 2}, 3) \ {<<>>}) \cup {<<2, 1, 3, 1, 0>>, [i \in 1 .. 11 |-> 3]}

------------------------------------------------------------------------------
(* A module with a conformance part about itself and about an older module. *)

Clause(module, mandatory, groups, refined) ==
  [module |-> module, mandatory |-> mandatory, groups |-> groups,
   objects |-> [k \in DOMAIN refined |-> [name |-> refined[k], syntaxes |-> {}]]]
Supports(module, includes, requires) ==
  [module |-> module, includes |-> includes,
   variations |-> <<[name |-> "x", syntaxes |-> {}, requires |-> requires]>>]

ConformanceMib(about, mandatory, groups, refined, statuses, permissive) ==
  [Mib(<<Module("M", "SMIv2", ("x" :> <<1, 2>>) @@ ("g" :> <<1, 4>>) @@ ("c" :> <<1, 5>>)
                              @@ ("k" :> <<1, 6>>), "T" :> 1),
         Module("O", "SMIv1", ("y" :> <<1, 3>>) @@ ("h" :> <<1, 7>>), "T" :> 1)>>,
       <<[D("ObjectType", "x") EXCEPT !.status = statuses[1]],
         [D("ObjectGroup", "g") EXCEPT !.names = <<"x", "y">>, !.members = {<<1, 2>>},
                                       !.status = statuses[2]],
         [D("ModuleCompliance", "c") EXCEPT !.status = statuses[3],
            !.modules = <<Clause(about, mandatory, groups, refined)>>],
         [D("AgentCapabilities", "k") EXCEPT !.supports =
            <<Supports(about, mandatory \o groups, refined)>>],
         [D("ObjectType", "y") EXCEPT !.module = 2, !.keyword = "ACCESS"],
         [D("NotificationGroup", "h") EXCEPT !.module = 2]>>,
       (<<1, 2>> :> Carrying("Scalar", "x", 1)) @@ (<<1, 3>> :> Carrying("Scalar", "y", 5))
       @@ (<<1, 4>> :> [Bare EXCEPT !.kind = "Group", !.name = "g", !.group = 2])
       @@ (<<1, 5>> :> [Bare EXCEPT !.kind = "Compliance", !.name = "c"])
       @@ (<<1, 6>> :> [Bare EXCEPT !.kind = "Capability", !.name = "k"])
       @@ (<<1, 7>> :> [Bare EXCEPT !.kind = "Group", !.name = "h", !.group = 6, !.module = 2]),
       <<Type("T", "Integer32")>>) EXCEPT !.permissive = permissive]

GroupLists == {<<>>, <<"g">>, <<"g", "g">>, <<"h">>, <<"x">>}
ConformanceMibs ==
  {ConformanceMib(m, a, g, r, s, p) :
     m \in {"", "O"}, a \in GroupLists, g \in {<<>>, <<"g">>}, r \in {<<>>, <<"x">>, <<"y", "y">>},
     s \in {<<"current", "current", "current">>, <<"deprecated", "current", "current">>,
            <<"obsolete", "obsolete", "deprecated">>, <<"current", "mandatory", "current">>},
     p \in BOOLEAN}

------------------------------------------------------------------------------
(* Parsed modules *)

World(module) == [mib |-> Mib(<<Module(module.name, "", Empty, "T" :> 1)>>, <<>>, Empty,
                              <<Type("T", "Integer32")>>),
                  parsed |-> <<module>>]

\* Dates that are right, equal in two spellings, at the pivot of the years, and wrong.
Dates == {NoDate, Date(13, 2020, 2, 29), Date(11, 20, 2, 29), Date(13, 2019, 2, 29),
          Date(13, 2021, 1, 1), Date(11, 69, 1, 1), Date(11, 70, 1, 1), Date(13, 2020, 13, 1),
          Date(13, 2020, 1, 0), [Date(13, 2020, 1, 1) EXCEPT !.hour = 24],
          [Date(13, 2020, 1, 1) EXCEPT !.minute = 60], [Date(13, 2020, 1, 1) EXCEPT !.digits = FALSE],
          [Date(13, 2020, 1, 1) EXCEPT !.length = 12]}
GoodDates == {Date(13, 2020, 2, 29), Date(13, 2021, 1, 1), Date(11, 69, 1, 1), NoDate}
Revisions(dates) == [k \in DOMAIN dates |-> [date |-> dates[k], empty |-> k = 2]]
Dated(updated, dates) ==
  World(ParsedModule("M-MIB", <<From("SNMPv2-SMI", <<"MODULE-IDENTITY">>)>>,
    <<[Identity EXCEPT !.updated = updated, !.revisions = Revisions(dates)]>>))
DateWorlds == {Dated(u, r) : u \in Dates, r \in UNION {[1 .. n -> Dates] : n \in 0 .. 2}}
              \cup {Dated(u, r) : u \in GoodDates, r \in [1 .. 3 -> GoodDates]}

\* Every form of syntax, as it may be nested.
NumberLists == {<<Label("a", x), Label(n, y)>> : n \in {"a", "b"}, x, y \in {-3, -1, 0, 1, 9, 39, 40}}
ParsedSyntaxes ==
  LET plain == {ParsedSyntax(f, "T") : f \in {"TypeRef", "OctetString", "ObjectIdentifier", "SequenceOf"}}
               \cup {NamedOf("IntegerEnum", "", <<Label("a", 0)>>)}
      field(s) == [name |-> "f", syntax |-> s]
  IN plain
     \cup {NamedOf(f, "", n) : f \in {"IntegerEnum", "Bits"}, n \in NumberLists}
     \cup {Wrapped(f, s, [kind |-> "None", ranges |-> <<>>]) : f \in {"Tagged", "Choice"}, s \in plain}
     \cup {Ranged(s, w) : s \in plain, w \in {<<<<MIN, AnyName>>>>, <<<<Raw>>>>}}
     \cup {ParsedSyntax("Choice", "")}
     \cup {[ParsedSyntax("Sequence", "") EXCEPT !.fields = <<field(s), field(NamedOf("Bits", "", <<>>))>>] :
              s \in plain}
SyntaxWorlds ==
  {World(ParsedModule(n, <<From(i, <<"T">>)>>,
     <<[ParsedDef("TypeAssignment", "T") EXCEPT !.syntax = <<s>>]>>)) :
     n \in {"M-MIB", "SNMPv2-SMI"}, i \in {"RFC1155-SMI", "SNMPv2-SMI"}, s \in ParsedSyntaxes}

\* Definitions of every sort, with and without what should be there.
Clauses == {"Description", "Reference", "Units", "Organization", "Contact", "Format"}
Sorts == {"ModuleIdentity", "ObjectIdentity", "ObjectType", "NotificationType", "TrapType",
          "TextualConvention", "TypeAssignment", "ValueAssignment", "ObjectGroup",
          "NotificationGroup", "ModuleCompliance", "AgentCapabilities", "MacroDefinition", "Error"}
Somewhat(sort) ==
  [ParsedDef(sort, "x") EXCEPT
     !.empty = Clauses,
     !.syntax = IF sort \in {"TextualConvention", "TypeAssignment"}
                THEN <<ParsedSyntax("TypeRef", "T")>> ELSE <<>>,
     !.modules = IF sort # "ModuleCompliance" THEN <<>>
       ELSE <<[module |-> "", mandatory |-> <<>>, compliances |->
                 <<[k |-> "Group", name |-> "g", syntaxes |-> {}],
                   [k |-> "Object", name |-> "x", syntaxes |-> {ParsedSyntax("TypeRef", "T")}]>>]>>,
     !.supports = IF sort # "AgentCapabilities" THEN <<>>
       ELSE <<[module |-> "O", includes |-> <<>>, variations |->
                 <<[name |-> "x", syntaxes |-> {ParsedSyntax("OctetString", "")},
                    requires |-> <<>>]>>]>>]
Bodies == UNION {[1 .. n -> {Somewhat(sort) : sort \in Sorts}] : n \in 0 .. 2}
ImportLists == {<<>>, <<From("SNMPv2-SMI", <<"MODULE-IDENTITY", "TEXTUAL-CONVENTION">>)>>,
                <<From("RFC-1212", <<"OBJECT-TYPE">>)>>}
BodyWorlds == {World(ParsedModule(n, i, b)) :
                 n \in {"M", "RFC-1215"}, i \in ImportLists, b \in Bodies}

------------------------------------------------------------------------------
(* Requests *)

NoEarly == [p \in {"registration", "imports", "types", "oids", "semantics"} |-> {}]
Asking(names) == [explicit |-> TRUE, system |-> FALSE, names |-> names, loads |-> TRUE,
                  config |-> for_reporting("Verbose"), early |-> NoEarly]
For(r, m) == r @@ [mib |-> m, parsed |-> <<>>]

Plainly(mibs) == {For(Asking(NoNames), m) : m \in mibs}
Lowered(worlds) == {Asking(NoNames) @@ w : w \in worlds}

\* Diagnostics of each severity that some phase emits, however they are configured.
Configs == {[reporting |-> l, failAt |-> f, overrides |-> o, ignored |-> i] :
              l \in Levels, f \in {"Fatal", "Severe", "Error", "Style"},
              o \in {Empty} \cup {"DescriptionMissing" :> s : s \in {"Fatal", "Error", "Info"}},
              i \in {{}, {"DescriptionMissing"}, {"ParseError"}}}
Early == {[NoEarly EXCEPT !["registration"] = r, !["oids"] = o] :
            r \in {{}, {"ParseError"}}, o \in {{}, {"OidRegistered"}}}
Undescribed == Mib(<<Module("M", "SMIv2", "x" :> <<1, 2>>, "T" :> 1)>>,
                   <<[D("ObjectType", "x") EXCEPT !.described = FALSE]>>,
                   <<1, 2>> :> Carrying("Scalar", "x", 1), <<Type("T", "Integer32")>>)
Configured ==
  {For([Asking(n) EXCEPT !.config = c, !.early = e], Undescribed) :
     n \in {NoNames, {"M"}}, c \in Configs, e \in Early}

Unusual == {For([Asking(n) EXCEPT !.explicit = x, !.system = y, !.loads = l], Undescribed) :
              n \in {NoNames, {"M", "X"}}, x \in BOOLEAN, y \in BOOLEAN, l \in BOOLEAN}

MCRequests ==
  <<Plainly(RangeMibs), Plainly(SequenceMibs), Plainly(IndexMibs), Plainly(HintMibs),
    Plainly(ConformanceMibs),
    Lowered(DefaultWorlds), Lowered(OtherWorlds), Lowered(DateWorlds), Lowered(SyntaxWorlds),
    Lowered(BodyWorlds), Configured, Unusual>>

==============================================================================
