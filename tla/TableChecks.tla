----------------------------- MODULE TableChecks -----------------------------
(***************************************************************************)
(* The checks of src/src/mib/resolver/checks.rs about tables: the columns  *)
(* of a row, its SEQUENCE and its INDEX, and about the default values of   *)
(* objects.                                                                *)
(***************************************************************************)
EXTENDS ResolvedMib

CONSTANT MaxSubIds   \* how many sub-identifiers an OID may have, 128

------------------------------------------------------------------------------
(* check_sequence_fields *)

\* The child nodes of n with a name, in the order of their arcs.
NamedChildren(n) == {c \in Children(n) : Tree(c).name # ""}
InOrder(S) == [k \in 1 .. Cardinality(S) |->
                 CHOOSE n \in S : Cardinality({o \in S : Last(o) < Last(n)}) = k - 1]
ColumnNames(n) == LET order == InOrder(NamedChildren(n))
                  IN [k \in DOMAIN order |-> Tree(order[k]).name]
FieldNames(fields) == [k \in DOMAIN fields |-> fields[k].name]

Common(names, others) == Filtered(names, Elements(others))

\* Mutant: the names of both are compared, not where they stand.
SameNames(fields, columns) == Elements(fields) # Elements(columns)

\* Two lists of different length, where a name is listed twice, are not compared.
OutOfOrder(fields, columns) ==
  LET f == Common(fields, columns)
      c == Common(columns, fields)
  IN Len(f) = Len(c) /\ f # c

\* The SEQUENCE of the module that a row's syntax names: the last of that name.
SequencesNamed(m, n) == {t \in DOMAIN mib.defs : /\ Def(t).module = m /\ Def(t).name = n
                                                /\ IsSequence(t)}
Latest(S) == CHOOSE d \in S : \A o \in S : o <= d

RowsWithSequence ==
  {d \in User("ObjectType") :
     /\ HasNode(d) /\ Kind(d) = "Row"
     /\ Def(d).syntax.form = "TypeRef" /\ Def(d).syntax.constraint.kind = "None"
     /\ SequencesNamed(Def(d).module, Def(d).syntax.name) # {}}
Fields(d) == Def(Latest(SequencesNamed(Def(d).module, Def(d).syntax.name))).syntax.fields

normalize_type_name(n) ==
  CASE n = "Counter" -> "Counter32"  [] n = "Gauge" -> "Gauge32"
    [] n = "INTEGER" -> "Integer32"  [] n = "NetworkAddress" -> "IpAddress"
    [] OTHER -> n

sequence_types_compatible(field, type) ==
  \/ normalize_type_name(field) = normalize_type_name(type.name)
  \/ normalize_type_name(field) = "Integer32" /\ type.base = "Integer32"
  \/ field \in {"OCTET STRING", "BITS"} /\ type.base = "Bits"

\* A field says its type by name; "" where the name is not looked at.  Of several columns
\* of its name the last is its own.
Mismatched(d) ==
  \E f \in Elements(Fields(d)), c \in NamedChildren(NodeOf(d)) :
    /\ Tree(c).name = f.name
    /\ \A o \in NamedChildren(NodeOf(d)) : Tree(o).name = f.name => Last(o) <= Last(c)
    /\ Tree(c).object # 0 /\ f.type # ""
    /\ Typed(Tree(c).object)
    /\ ~ sequence_types_compatible(f.type, mib.types[Def(Tree(c).object).typ])

check_sequence_fields ==
  LET fields(d)  == FieldNames(Fields(d))
      columns(d) == ColumnNames(NodeOf(d))
      rows(Bad(_, _)) == {d \in RowsWithSequence : Bad(fields(d), columns(d))}
      beyond(a, b) == Elements(a) \ Elements(b) # {}
  IN UNION {
       Report("SequenceNoColumn", rows(LAMBDA f, c : beyond(f, c))),
       Report("SequenceMissingColumn", rows(LAMBDA f, c : beyond(c, f))),
       Report("SequenceOrder", rows(OutOfOrder)),
       Report("SequenceTypeMismatch", {d \in RowsWithSequence : Mismatched(d)})}

------------------------------------------------------------------------------
(* Columns that belong together *)

\* row_object_for_column, row_column_objects
RowOf(d) == LET p == Front(NodeOf(d))
            IN IF NodeOf(d) = Root \/ Tree(p).kind # "Row" THEN 0 ELSE Tree(p).object
Siblings(d) ==
  LET row == NodeOf(RowOf(d))
  IN {Tree(c).object : c \in {n \in Children(row) :
                                Tree(n).kind = "Column" /\ Tree(n).object # 0}}

Columns == {d \in Objects : Kind(d) = "Column" /\ Typed(d)}
Alone(d, partner) == RowOf(d) # 0 /\ ~ \E s \in Siblings(d) : Derives(s, partner)

check_taddress_tdomain ==
  IF {"TAddress", "TDomain"} \subseteq DOMAIN mib.typeByName
  THEN Report("TAddressTDomain", {d \in Columns : /\ Derives(d, mib.typeByName["TAddress"])
                                                  /\ Alone(d, mib.typeByName["TDomain"])})
  ELSE {}

\* The syntax the column's module gives an object of a name: the last one.
DeclaredSyntax(m, n, Is(_)) ==
  LET same == {d \in All("ObjectType") : Def(d).module = m /\ Def(d).name = n}
  IN same # {} /\ Is(Def(Latest(same)).syntax)

\* Of the address columns beside d only the first is looked at.
FirstAddress(d, address) ==
  LET having == {s \in Siblings(d) : Derives(s, address)}
  IN CHOOSE s \in having : \A o \in having : Last(NodeOf(s)) <= Last(NodeOf(o))

check_address_type_pairing(module, types, specifics, codes) ==
  LET address == TypeIn(module, types.address)
      kind    == TypeIn(module, types.kind)
      refined(d) == DeclaredSyntax(Def(d).module, Def(d).name, LAMBDA s :
                      s.form = "IntegerEnum" /\ s.constraint.kind = "None")
      sized(m, s) == DeclaredSyntax(m, Def(s).name, LAMBDA x : x.constraint.kind = "Size")
      ofKind     == {d \in Columns : ~ Derives(d, address) /\ Derives(d, kind)}
      unsized(d) == /\ RowOf(d) # 0
                    /\ \E s \in Siblings(d) : Derives(s, address)
                    /\ ~ sized(Def(d).module, FirstAddress(d, address))
      specific(d) == /\ ~ Derives(d, address) /\ ~ Derives(d, kind)
                     /\ \E n \in specifics : /\ TypeIn(module, n) # NoType
                                             /\ Derives(d, TypeIn(module, n))
  IN IF address = NoType \/ kind = NoType THEN {}
     ELSE UNION {
       Report(codes.pairing, {d \in Columns : Derives(d, address) /\ Alone(d, kind)}),
       Report(codes.subtyped, {d \in ofKind : refined(d) /\ unsized(d)}),
       Report(codes.specific, {d \in Columns : specific(d)})}

check_inet_address_pairing ==
  check_address_type_pairing("INET-ADDRESS-MIB",
    [address |-> "InetAddress", kind |-> "InetAddressType"],
    {"InetAddressIPv4", "InetAddressIPv6", "InetAddressIPv4z", "InetAddressIPv6z",
     "InetAddressDNS"},
    [pairing |-> "InetAddressPairing", subtyped |-> "InetAddressTypeSubtyped",
     specific |-> "InetAddressSpecific"])

check_transport_address_pairing ==
  check_address_type_pairing("TRANSPORT-ADDRESS-MIB",
    [address |-> "TransportAddress", kind |-> "TransportAddressType"],
    {"TransportAddressIPv4", "TransportAddressIPv6", "TransportAddressIPv4z",
     "TransportAddressIPv6z", "TransportAddressLocal", "TransportAddressDns"},
    [pairing |-> "TransportAddressPairing", subtyped |-> "TransportAddressTypeSubtyped",
     specific |-> "TransportAddressSpecific"])

------------------------------------------------------------------------------
(* check_defval_constraints *)

Values(named) == {n.value : n \in named}
Labels(named) == {n.label : n \in named}
Resolved(ranges) == \A r \in ranges : r.min.k # "Raw" /\ r.max.k # "Raw"

\* What a number of the given sign may not be: a signed one also misses below.
BeyondBase(v, base) ==
  CASE base = "Integer32" -> v < IntMin \/ v > IntMax
    [] base \in {"Unsigned32", "Gauge32", "TimeTicks"} -> v < 0 \/ v > UIntMax
    [] OTHER -> FALSE

\* check_defval_numeric, check_defval_unsigned
NumberCodes(v, d) ==
  (IF BeyondBase(v, Base(Def(d).typ)) THEN {"DefvalBasetype"} ELSE {})
  \cup (IF /\ Def(d).ranges.present /\ Resolved(Def(d).ranges.values)
           /\ ~ Allows(Def(d).ranges.values, v)
        THEN {"DefvalRange"} ELSE {})
  \cup (IF Def(d).enums # {} /\ v \notin Values(Def(d).enums) THEN {"DefvalEnum"} ELSE {})

DefvalCodes(d) ==
  LET value == Def(d).default
  IN IF Base(Def(d).typ) \in {"Counter32", "Counter64"} THEN {"CounterDefvalIllegal"}
     ELSE CASE value.k \in {"Int", "Uint"} -> NumberCodes(value.value, d)
            [] value.k = "Enum" -> IF /\ Def(d).enums # {}
                                      /\ value.label \notin Labels(Def(d).enums)
                                   THEN {"DefvalEnum"} ELSE {}
            [] value.k = "Bits" -> IF value.labels \subseteq Labels(Def(d).bits)
                                   THEN {} ELSE {"DefvalBits"}
            [] OTHER -> {}

check_defval_constraints ==
  UNION {{Emitted(c, d) : c \in DefvalCodes(d)} :
           d \in {o \in Objects : Def(o).default.k # "None" /\ Typed(o)}}

------------------------------------------------------------------------------
(* check_index_constraints *)

\* Mutant: whatever base is known will do.
AnyKnownBase(base) == base # "Unknown"

is_legal_index_basetype(base) ==
  base \in {"Integer32", "Unsigned32", "Gauge32", "TimeTicks", "Counter32", "Counter64",
            "Bits", "OctetString", "Opaque", "IpAddress", "ObjectIdentifier"}

\* classify_index_encoding: how the values of an index object are written.
Encoding(base, implied, sizes) ==
  CASE base \in {"Integer32", "Unsigned32", "Gauge32", "TimeTicks", "Counter32", "Counter64"}
         -> "Integer"
    [] base = "IpAddress" -> "IpAddress"
    [] base \in {"OctetString", "Opaque", "Bits"} ->
         IF implied THEN "Implied"
         ELSE IF \E n \in 1 .. SizeMax : sizes = {Between(n, n)} THEN "FixedString"
         ELSE "LengthPrefixed"
    [] base = "ObjectIdentifier" -> IF implied THEN "Implied" ELSE "LengthPrefixed"
    [] OTHER -> "Unknown"

AccessCodes(language, o) ==
  CASE language = "SMIv2" /\ Def(o).access # "not-accessible" -> {"IndexAccessible"}
    [] language = "SMIv1" /\ Def(o).access = "not-accessible" -> {"IndexNotAccessible"}
    [] OTHER -> {}

BaseCodes(base) ==
  IF base = "Counter32" THEN {"IndexCounterIllegal"}
  ELSE IF is_legal_index_basetype(base) THEN {} ELSE {"IndexIllegalBasetype"}

\* Named numbers come before ranges; a range that is empty is reported elsewhere.
IntegerCodes(o) ==
  LET ranges == Def(o).ranges
      negative == IF Def(o).enums # {} THEN \E v \in Values(Def(o).enums) : v < 0
                  ELSE \E r \in ranges.values : r.min.k = "Num" /\ r.min.n < 0
  IN IF negative THEN {"IndexNegativeRange"}
     ELSE IF Def(o).enums = {} /\ ranges.values = {} /\ ~ ranges.present
          THEN {"IndexIntegerNoRange"} ELSE {}

ElementCodes(o) ==
  LET base == Base(Def(o).typ)
  IN BaseCodes(base)
     \cup (CASE base \in {"OctetString", "Opaque"} ->
                  IF Def(o).sizes = Unconstrained THEN {"IndexElementNoSize"} ELSE {}
             [] base = "Integer32" -> IntegerCodes(o)
             [] OTHER -> {})

EntryCodes(language, o) ==
  AccessCodes(language, o)
  \cup (IF Def(o).default.k # "None" THEN {"IndexDefval"} ELSE {})
  \cup (IF Typed(o) THEN ElementCodes(o) ELSE {})

\* index_element_sub_ids, at most: {} where it cannot be said.
Longest(sizes) ==
  LET lengths == {r.max.n : r \in {s \in sizes : s.max.k = "Num" /\ s.max.n >= 0}}
  IN IF lengths = {} THEN {} ELSE {CHOOSE n \in lengths : \A o \in lengths : o <= n}

index_element_sub_ids(entry) ==
  LET o     == entry.object
      sizes == Def(o).sizes.values
      oid   == Typed(o) /\ Base(Def(o).typ) = "ObjectIdentifier"
  IN IF o = 0 THEN {}
     ELSE CASE entry.encoding = "Integer" -> {1}
            [] entry.encoding = "IpAddress" -> {4}
            [] entry.encoding = "FixedString" -> Longest(sizes)
            [] entry.encoding = "LengthPrefixed" ->
                 IF oid THEN {MaxSubIds + 1} ELSE {n + 1 : n \in Longest(sizes)}
            [] entry.encoding = "Implied" -> IF oid THEN {MaxSubIds} ELSE Longest(sizes)
            [] entry.encoding = "Unknown" -> {}

\* check_index_oid_length: no length is known unless every element's is.
TooLong(d) ==
  LET index == Def(d).index
      least(k) == index_element_sub_ids(index[k])
  IN /\ \A k \in DOMAIN index : least(k) # {}
     /\ Len(NodeOf(d)) + Seqs!FoldSeq(LAMBDA e, sum : sum + First(index_element_sub_ids(e)),
                                       0, index) > MaxSubIds

check_index_constraints ==
  LET rows == {d \in Objects : Def(d).index # <<>>}
      codes(d) == UNION {EntryCodes(Language(d), e.object) :
                           e \in {i \in Elements(Def(d).index) : i.object # 0}}
  IN (UNION {{Emitted(c, d) : c \in codes(d)} : d \in rows})
     \cup Report("IndexExceedsTooLarge", {d \in rows : TooLong(d)})

==============================================================================
