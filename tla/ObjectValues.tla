----------------------------- MODULE ObjectValues -----------------------------
(***************************************************************************)
(* What create_resolved_objects of src/src/mib/resolver/semantics.rs makes *)
(* of the SYNTAX and the DEFVAL of an OBJECT-TYPE: the type they name, the *)
(* constraint narrowed by that of the type, the named values, and the      *)
(* default value; and what the refinements of compliances and capabilities *)
(* refer to.  A definition that has not been resolved yet has only its     *)
(* syntax and its defval; the other fields of the record say nothing.      *)
(***************************************************************************)
EXTENDS ResolvedMib

------------------------------------------------------------------------------
(* resolve_type_syntax *)

\* The name a syntax goes by; rows and tables name no type.
TypeName(syntax) ==
  CASE syntax.form = "TypeRef" -> syntax.name
    [] syntax.form = "IntegerEnum" -> IF syntax.name = "" THEN "INTEGER" ELSE syntax.name
    [] syntax.form = "Bits" -> "BITS"
    [] syntax.form = "OctetString" -> "OCTET STRING"
    [] syntax.form = "ObjectIdentifier" -> "OBJECT IDENTIFIER"
    [] OTHER -> ""
Refers(syntax) == syntax.form = "TypeRef" \/ (syntax.form = "IntegerEnum" /\ syntax.name # "")

SyntaxType(m, syntax) ==
  IF TypeName(syntax) = "" THEN NoType ELSE ScopeType(m, TypeName(syntax))

\* is_sequence_type_def: the type of a row need not be found.
NamesSequence(m, n) ==
  \E d \in DOMAIN mib.defs :
    IsSequence(d) /\ Def(d).name = n /\ Def(d).module \in {m} \cup ImportedFrom(m, n)

SyntaxReports(m, syntax) ==
  IF TypeName(syntax) = "" \/ SyntaxType(m, syntax) # NoType THEN {}
  ELSE IF ~ Refers(syntax) THEN {"PrimitiveTypeMissing"}
  ELSE IF syntax.form = "TypeRef" /\ NamesSequence(m, syntax.name) THEN {} ELSE {"TypeUnknown"}

\* inline_parent_constraint: what a type says of its values, or else what its base does.
InlineParent(t, isSize) ==
  LET own  == IF isSize THEN mib.types[t].sizes ELSE mib.types[t].ranges
      base == BaseConstraint(Base(t), isSize)
  IN IF own.present THEN own ELSE IF base # {} THEN Constrained(base) ELSE Unconstrained

\* Mutant: a constraint stands as it is written.
AsWritten(own, parent) == Constrained(own)

\* A constraint that is written counts as one even if it lists nothing.
Narrow(own, parent) ==
  IF ~ parent.present THEN Constrained(own)
  ELSE Constrained(IF parent.values = {} THEN {} ELSE Intersect(own, parent.values))

\* resolve_type_syntax and compute_effective_values
Effectively(syntax, t, kind) ==
  LET isSize == kind = "Size"
      written == Elements(syntax.constraint.ranges)
  IN IF syntax.constraint.kind = kind
     THEN Narrow(written, IF t = NoType THEN Unconstrained ELSE InlineParent(t, isSize))
     ELSE IF t = NoType THEN Unconstrained
     ELSE IF isSize THEN mib.types[t].sizes ELSE mib.types[t].ranges

\* The names a refinement gives to values of a type of bits are those of bits.
NamedBits(syntax, t) ==
  \/ syntax.form = "Bits"
  \/ syntax.form = "IntegerEnum" /\ t # NoType /\ Base(t) = "Bits"
OwnBits(syntax, t) == IF NamedBits(syntax, t) THEN Elements(syntax.numbers) ELSE {}
OwnEnums(syntax, t) ==
  IF syntax.form = "IntegerEnum" /\ ~ NamedBits(syntax, t) THEN Elements(syntax.numbers) ELSE {}

\* Without names of its own an object has those of its type.
OrInherited(own, t, inherited) == IF own # {} \/ t = NoType THEN own ELSE inherited

------------------------------------------------------------------------------
(* convert_defval.  A digit that is none is -1; white space is left out.   *)

Unset == [k |-> "Unset", value |-> 0, label |-> "", labels |-> {}, bytes |-> <<>>, oid |-> <<>>]
AsOid(n) == [Unset EXCEPT !.k = "Oid", !.oid = n]
AsBytes(b) == [Unset EXCEPT !.k = "Bytes", !.bytes = b]

HasBase(t, base) == t # NoType /\ Base(t) = base

\* Of a string of digits, `size` of which make a byte.
Bytes(digits, size, radix) ==
  [k \in 1 .. Len(digits) \div size |->
     Seqs!FoldLeft(LAMBDA byte, d : radix * byte + d, 0,
                   SubSeq(digits, size * (k - 1) + 1, size * k))]
Zeros(n) == [k \in 1 .. n |-> 0]

\* An odd digit gets a zero before it.
hex_decode(digits) == Bytes(Zeros(Len(digits) % 2) \o digits, 2, 16)

\* The bits of BITS are counted from the left, so that what is missing is on the right.
binary_decode(bits, rightPad) ==
  LET missing == Zeros((8 - (Len(bits) % 8)) % 8)
  IN Bytes(IF rightPad THEN bits \o missing ELSE missing \o bits, 8, 2)

Binary(digits) == Filtered(digits, {0, 1})

\* resolve_defval_oid: a name, of the scope or of a module, and numbers; the number
\* beside the first name is not compared with its node.
RootNode(m, c) ==
  CASE c.k \in {"Name", "NamedNumber"} -> ScopeNode(m, c.name)
    [] c.k \in {"QualifiedName", "QualifiedNamedNumber"} -> NodeIn(c.module, c.name)
    [] c.k = "Number" -> NoNode
Numbered(components) ==
  \A k \in 2 .. Len(components) : components[k].k \notin {"Name", "QualifiedName"}

DefvalOid(m, components) ==
  IF components = <<>> \/ ~ Numbered(components) THEN NoNode
  ELSE LET root == RootNode(m, components[1])
       IN IF root = NoNode THEN NoNode
          ELSE root \o [k \in 1 .. Len(components) - 1 |-> components[k + 1].number]

\* The node that a default value is said to be.
DefvalNode(m, v, t) ==
  CASE v.k = "OidValue" -> DefvalOid(m, v.components)
    [] v.k = "OidRef" \/ (v.k = "Enum" /\ HasBase(t, "ObjectIdentifier")) -> ScopeNode(m, v.label)
    [] OTHER -> NoNode
NamesNode(v, t) == v.k \in {"OidValue", "OidRef"} \/ (v.k = "Enum" /\ HasBase(t, "ObjectIdentifier"))

convert_defval(m, v, t) ==
  CASE v.k = "None" -> [Unset EXCEPT !.k = "None"]
    [] v.k \in {"Int", "Uint"} -> [Unset EXCEPT !.k = v.k, !.value = v.value]
    [] v.k = "String" -> [Unset EXCEPT !.k = "String"]
    [] v.k = "Hex" -> IF -1 \in Elements(v.digits) THEN Unset ELSE AsBytes(hex_decode(v.digits))
    [] v.k = "Binary" -> AsBytes(binary_decode(Binary(v.digits), HasBase(t, "Bits")))
    [] v.k = "Bits" -> [Unset EXCEPT !.k = "Bits", !.labels = v.labels]
    [] NamesNode(v, t) /\ DefvalNode(m, v, t) # NoNode -> AsOid(DefvalNode(m, v, t))
    [] v.k = "Enum" -> [Unset EXCEPT !.k = "Enum", !.label = v.label]
    [] OTHER -> Unset

DefvalReports(m, v, t) ==
  CASE v.k = "Hex" /\ -1 \in Elements(v.digits) -> {"MalformedHexDefval"}
    [] v.k = "Binary" /\ Binary(v.digits) # v.digits -> {"MalformedBinDefval"}
    [] NamesNode(v, t) /\ DefvalNode(m, v, t) = NoNode -> {"DefvalUnresolved"}
    [] OTHER -> {}

------------------------------------------------------------------------------
(* All objects of the modules *)

ResolvedObject(d) ==
  LET m == Def(d).module
      s == Def(d).syntax
      t == SyntaxType(m, s)
  IN [Def(d) EXCEPT
        !.typ = t, !.sizes = Effectively(s, t, "Size"), !.ranges = Effectively(s, t, "Range"),
        !.enums = OrInherited(OwnEnums(s, t), t, mib.types[t].enums),
        !.bits = OrInherited(OwnBits(s, t), t, mib.types[t].bits),
        !.default = convert_defval(m, Def(d).defval, t)]

\* The imports that the lookup of a type marks as used; the primitives' do not.
TypeUsed(m, s) ==
  {n \in {TypeName(s)} : /\ Refers(s) /\ SymbolType(m, n) = NoType
                         /\ \E o \in ImportedFrom(m, n) : SymbolType(o, n) # NoType}

Used(d) ==
  LET m == Def(d).module
      s == Def(d).syntax
      v == Def(d).defval
      t == SyntaxType(m, s)
      root == IF v.k = "OidValue" /\ v.components # <<>>
              THEN IF v.components[1].k \in {"Name", "NamedNumber"}
                   THEN {v.components[1].name} ELSE {}
              ELSE IF NamesNode(v, t) THEN {v.label} ELSE {}
  IN TypeUsed(m, s) \cup {n \in root : SymbolNode(m, n) = NoNode /\ ScopeNode(m, n) # NoNode}

create_resolved_objects ==
  [d \in DOMAIN mib.defs |-> IF Def(d).sort = "ObjectType" THEN ResolvedObject(d) ELSE Def(d)]

DefaultReports ==
  UNION {{Emitted(c, d) :
            c \in SyntaxReports(Def(d).module, Def(d).syntax)
                  \cup DefvalReports(Def(d).module, Def(d).defval,
                                     SyntaxType(Def(d).module, Def(d).syntax))} :
           d \in All("ObjectType")}

------------------------------------------------------------------------------
(* The SYNTAX and WRITE-SYNTAX clauses of compliances and capabilities; no *)
(* phase reads what they resolve to, nor the DEFVAL of a variation.        *)

\* is_notification_variation, of one that has a syntax.
OfNotification(m, supports, v) ==
  LET n == ConformanceNode(m, supports, v.name)
  IN n # NoNode /\ Tree(n).kind = "Notification"

\* A compliance needs no node for its clauses to be resolved, and a capability does.
RefinedSyntaxes(d) ==
  CASE Def(d).sort = "ModuleCompliance" ->
         UNION {UNION {o.syntaxes : o \in Elements(c.objects)} : c \in Elements(Def(d).modules)}
    [] Def(d).sort = "AgentCapabilities" /\ HasNode(d) ->
         UNION {UNION {v.syntaxes : v \in {w \in Elements(c.variations) :
                                              ~ OfNotification(Def(d).module, c.module, w)}} :
                  c \in Elements(Def(d).supports)}
    [] OTHER -> {}

RefinementReports ==
  UNION {{Emitted(c, d) : c \in UNION {SyntaxReports(Def(d).module, s) : s \in RefinedSyntaxes(d)}} :
           d \in DOMAIN mib.defs}

\* The imports that resolving a definition marks as used.
Resolving(d) == IF Def(d).sort = "ObjectType" THEN Used(d)
                ELSE UNION {TypeUsed(Def(d).module, s) : s \in RefinedSyntaxes(d)}
UsedBy(m) == UNION {Resolving(d) : d \in {e \in DOMAIN mib.defs : Def(e).module = m}}

resolve_values ==
  [mib EXCEPT !.defs = create_resolved_objects,
              !.modules = [m \in Modules |-> [mib.modules[m] EXCEPT
                                                !.used = mib.modules[m].used \cup UsedBy(m)]]]

ValueReports == DefaultReports \cup RefinementReports

==============================================================================
