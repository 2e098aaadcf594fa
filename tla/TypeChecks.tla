------------------------------ MODULE TypeChecks ------------------------------
(***************************************************************************)
(* The checks of src/src/mib/resolver/checks.rs about type definitions and *)
(* about the syntax and the constraints of objects.                        *)
(***************************************************************************)
EXTENDS ResolvedMib, DisplayHint

Numeric == {"Integer32", "Unsigned32", "Gauge32", "TimeTicks", "Counter32", "Counter64"}

\* collect_type_refs: the name a syntax refers to.  A refinement by named numbers,
\* the fields of a SEQUENCE and the rows of a table are not looked into.
TypeRefs(syntax) == IF syntax.form = "TypeRef" THEN {syntax.name} ELSE {}

\* The syntaxes of a definition: its own, and those of its refinements and variations.
Syntaxes(d) ==
  CASE Def(d).sort \in {"ObjectType", "TypeDef"} -> {Def(d).syntax}
    [] Def(d).sort = "ModuleCompliance" ->
         UNION {UNION {o.syntaxes : o \in Elements(c.objects)} : c \in Elements(Def(d).modules)}
    [] Def(d).sort = "AgentCapabilities" ->
         UNION {UNION {v.syntaxes : v \in Elements(s.variations)} :
                  s \in Elements(Def(d).supports)}
    [] OTHER -> {}

\* An import counts for every module of the name, whoever imports it.
Referenced(m) ==
  (UNION {UNION {TypeRefs(s) : s \in Syntaxes(d)} : d \in {e \in DOMAIN mib.defs : Def(e).module = m}})
  \cup {i[2] : i \in {j \in UNION {mib.modules[o].symbols : o \in Modules} :
                        j[1] = mib.modules[m].name}}

check_type_unreferenced ==
  Report("TypeUnreferenced", {d \in NotSequence(User("TypeDef")) :
                                Def(d).name \notin Referenced(Def(d).module)})

check_named_number_ordering ==
  Report("NamedNumbersAscending", {d \in Syntactic :
    LET numbers == Def(d).syntax.numbers
    IN \E k \in 2 .. Len(numbers) : numbers[k].value < numbers[k - 1].value})

------------------------------------------------------------------------------
(* check_range_constraints *)

\* base_type_from_name
NamedBase(name) ==
  CASE name \in {"INTEGER", "Integer32"} -> "Integer32"
    [] name \in {"Counter", "Counter32"} -> "Counter32"
    [] name \in {"Gauge", "Gauge32"} -> "Gauge32"
    [] name \in {"IpAddress", "NetworkAddress"} -> "IpAddress"
    [] name = "OCTET STRING" -> "OctetString"
    [] name \in {"OBJECT IDENTIFIER", "ObjectName", "NotificationName"} -> "ObjectIdentifier"
    [] name = "BITS" -> "Bits"
    [] name \in {"Unsigned32", "Counter64", "TimeTicks", "Opaque"} -> name
    [] OTHER -> "None"

diagnostic_base_from_syntax(syntax) ==
  CASE syntax.form = "IntegerEnum" /\ syntax.name = "" -> "Integer32"
    [] syntax.form = "IntegerEnum" /\ syntax.name # "" -> NamedBase(syntax.name)
    [] syntax.form = "TypeRef" -> NamedBase(syntax.name)
    [] syntax.form \in {"Bits", "OctetString", "ObjectIdentifier"} -> syntax.form
    [] OTHER -> "None"

\* The base of a type definition falls back to its syntax, that of an object does not.
TypeBase(d) ==
  IF TypeOf(d) = NoType \/ Base(TypeOf(d)) = "Unknown"
  THEN diagnostic_base_from_syntax(Def(d).syntax) ELSE Base(TypeOf(d))

\* lookup_object_for_module finds the module's first object of the name.
OwnObject(d) ==
  LET same == {o \in Objects : Def(o).module = Def(d).module /\ Def(o).name = Def(d).name}
  IN IF same = {} THEN 0 ELSE First(same)

CheckedBase(d) ==
  IF Def(d).sort = "TypeDef" THEN TypeBase(d)
  ELSE IF OwnObject(d) = 0 \/ ~ Typed(OwnObject(d)) THEN "None"
  ELSE Base(Def(OwnObject(d)).typ)

basetype_bounds(base) ==
  CASE base = "Integer32" -> {Between(IntMin, IntMax)}
    [] base \in Numeric \ {"Integer32", "Counter64"} -> {Between(0, UIntMax)}
    [] OTHER -> {}

\* What makes the constraint as a whole illegal for the base, the first of them.
Misapplied(constraint, base) ==
  IF base = "None" THEN {}
  ELSE IF constraint.kind = "Size"
  THEN IF base \in {"OctetString", "Opaque"} THEN {} ELSE {"SizeIllegal"}
  ELSE CASE base \notin Numeric -> {"RangeIllegal"}
         [] base \in {"Counter32", "Counter64"} -> {"CounterRangeIllegal"}
         [] base = "TimeTicks" -> {"TimeticksRangeIllegal"}
         [] OTHER -> {}

Greater(a, b) == Less(b, a)

NotGreater(a, b) == Comparable(a, b) /\ ~ Less(b, a)

\* Only numbers are compared with the bounds of the base.
Outside(b, bounds) == b.k = "Num" /\ (Less(b, bounds.min) \/ Greater(b, bounds.max))

\* One range after another: each is compared with its predecessor only.
RangeCodes(ranges, bounds) ==
  LET previous == {k \in DOMAIN ranges : k > 1}
  IN (IF \E r \in Elements(ranges) : Greater(r.min, r.max) THEN {"RangeExchanged"} ELSE {})
     \cup (IF \E r \in Elements(ranges), b \in bounds : Outside(r.min, b) \/ Outside(r.max, b)
           THEN {"RangeBounds"} ELSE {})
     \cup (IF \E k \in previous : Greater(ranges[k - 1].min, ranges[k].min)
           THEN {"RangeAscending"} ELSE {})
     \cup (IF \E k \in previous : NotGreater(ranges[k].min, ranges[k - 1].max)
           THEN {"RangeOverlap"} ELSE {})

collect_range_diags(syntax, base) ==
  LET constraint == syntax.constraint
      bounds     == IF constraint.kind = "Size" THEN {Between(0, SizeMax)}
                    ELSE basetype_bounds(base)
  IN IF constraint.kind = "None" THEN {}
     ELSE IF Misapplied(constraint, base) # {} THEN Misapplied(constraint, base)
     ELSE RangeCodes(constraint.ranges, bounds)

\* collect_empty_intersection_diag: a constraint is written, and nothing is left of it.
EmptyIntersection(syntax, effective) ==
  LET c == syntax.constraint
  IN /\ c.kind # "None" /\ c.ranges # <<>>
     /\ (IF c.kind = "Size" THEN effective.sizes ELSE effective.ranges).values = {}

check_range_constraints ==
  LET checked == NotSequence(User("TypeDef")) \cup User("ObjectType")
      emptied(d) == IF Def(d).sort = "TypeDef"
                    THEN TypeOf(d) # NoType /\ EmptyIntersection(Def(d).syntax, mib.types[TypeOf(d)])
                    ELSE OwnObject(d) # 0 /\ EmptyIntersection(Def(d).syntax, Def(OwnObject(d)))
  IN (UNION {{Emitted(c, d) :
               c \in collect_range_diags(Def(d).syntax, CheckedBase(d))} : d \in checked})
     \cup Report("ConstraintEmptyIntersection", {d \in checked : emptied(d)})

------------------------------------------------------------------------------

check_type_assignment_smiv2 ==
  Report("TypeAssignmentSMIv2", {d \in SMIv2(NotSequence(User("TypeDef"))) : ~ Def(d).tc})

check_tc_nested ==
  Report("TCNested", {d \in User("TypeDef") :
    /\ Def(d).tc /\ TypeOf(d) # NoType
    /\ mib.types[TypeOf(d)].parent # NoType
    /\ mib.types[mib.types[TypeOf(d)].parent].tc})

\* The named numbers of a refinement are among those of the type it refines.
check_enum_subtyping ==
  LET refines(d) == /\ Def(d).syntax.form = "IntegerEnum" /\ Def(d).syntax.name # ""
                    /\ Def(d).syntax.constraint.kind = "None"
                    /\ ScopeType(Def(d).module, Def(d).syntax.name) # NoType
      parent(d)  == mib.types[ScopeType(Def(d).module, Def(d).syntax.name)]
      bits       == [d \in {e \in Syntactic : refines(e) /\ parent(e).bits # {}} |-> parent(d).bits]
      enums      == [d \in {e \in Syntactic : /\ refines(e) /\ parent(e).bits = {}
                                              /\ parent(e).enums # {}} |-> parent(d).enums]
      outside(f) == {d \in DOMAIN f : Elements(Def(d).syntax.numbers) \ f[d] # {}}
  IN Report("SubtypeBitsIllegal", outside(bits)) \cup Report("SubtypeEnumIllegal", outside(enums))

\* A hint must parse for the base; a base that is printed should have one.
check_format_hints ==
  LET conventions == {d \in User("TypeDef") : Def(d).tc /\ TypeOf(d) # NoType}
      base(d)     == IF Base(TypeOf(d)) = "Unknown"
                     THEN diagnostic_base_from_syntax(Def(d).syntax) ELSE Base(TypeOf(d))
      valid(d)    == \/ /\ base(d) \in {"Integer32", "Unsigned32", "Gauge32", "TimeTicks"}
                        /\ parse_integer_hint(Def(d).hint)
                     \/ /\ base(d) \in {"OctetString", "Opaque"}
                        /\ is_valid_octet_string_hint(Def(d).hint)
  IN UNION {
       Report("InvalidFormat", {d \in conventions : Def(d).hint # <<>> /\ ~ valid(d)}),
       Report("TypeWithoutFormat", {d \in conventions :
         /\ Def(d).hint = <<>> /\ mib.types[TypeOf(d)].hint = <<>>
         /\ base(d) \in {"OctetString", "Integer32", "Unsigned32", "Gauge32"}})}

------------------------------------------------------------------------------
(* Objects of the types RowStatus and StorageType, whoever defines those.  *)

Using(name) ==
  IF name \in DOMAIN mib.typeByName
  THEN {d \in Objects : Derives(d, mib.typeByName[name])} ELSE {}

\* defval_as_i64, and the label of the value it found
DefaultIn(d, labels) ==
  LET v == Def(d).default
  IN \/ v.k \in {"Int", "Uint"} /\ \E l \in labels : l.value = v.value
     \/ v.k = "Enum" /\ \E l \in labels : l.label = v.label

Label(n, v) == [label |-> n, value |-> v]

check_row_status_defaults ==
  LET actions == {Label("createAndGo", 4), Label("createAndWait", 5), Label("destroy", 6)}
      expects(d) == CASE Language(d) = "SMIv2" -> "read-create"
                      [] Language(d) = "SMIv1" -> "read-write"
                      [] OTHER -> Def(d).access
  IN UNION {
       Report("RowStatusAccess", {d \in Using("RowStatus") : Def(d).access # expects(d)}),
       Report("RowStatusDefault", {d \in Using("RowStatus") : DefaultIn(d, actions)})}

check_storage_type_defaults ==
  Report("StorageTypeDefault",
         {d \in Using("StorageType") :
            DefaultIn(d, {Label("permanent", 4), Label("readOnly", 5)})})

==============================================================================
