------------------------------ MODULE IndexCodec ------------------------------
(***************************************************************************)
(* Table indexes: src/src/mib/index.  IndexSchema::compile turns the       *)
(* effective INDEX clause of a row into a schema, decode_exact splits the  *)
(* suffix of an instance OID into the values of its components, and        *)
(* encode_canonical joins values into a suffix.  A behaviour compiles a    *)
(* schema, runs one of the two operations and, if it succeeds, the other   *)
(* one on its result.                                                      *)
(*                                                                         *)
(* Gauge32, Unsigned32 and TimeTicks behave as Counter32, BITS and Opaque  *)
(* as OCTET STRING.  A normalized constraint is the set of its numbers.    *)
(***************************************************************************)
EXTENDS Ranges, Sequences, FiniteSets

CONSTANTS
  OctetMax,      \* 255
  None,          \* no bound, no failure
  Clauses,       \* the INDEX clauses
  Limits,        \* the options of the operations
  Suffixes(_),   \* what to decode under a clause
  Rows(_)        \* what to encode under a clause

VARIABLES
  world,       \* the INDEX clause, the limits, and what is decoded or encoded
  phase,       \* the operation that runs
  schema,      \* the components compiled so far
  i,           \* the component the operation has come to
  suffix,      \* the arcs to decode, or encoded so far
  position,    \* where decoding has come to
  values,      \* the values to encode, or decoded so far
  arcRanges,   \* for a decoded component, its first arc and the one after its last
  reported,    \* the components whose violations were reported
  failure      \* for an operation, how it failed

vars == <<world, phase, schema, i, suffix, position, values, arcRanges, reported, failure>>

\* A component of the clause, with the constraints of its object or type.
Declaration == [base : {"Unknown", "Integer32", "Counter32", "Counter64", "IpAddress",
                        "OctetString", "ObjectIdentifier"},
                implied : BOOLEAN,
                sizes : [present : BOOLEAN, values : SUBSET Interval],
                ranges : [present : BOOLEAN, values : SUBSET Interval],
                enums : SUBSET Int]

Arc == 0 .. UIntMax

Value == [kind : {"Integer32"}, arcs : {<<n>> : n \in IntMin .. IntMax}]
         \cup [kind : {"Counter32"}, arcs : {<<n>> : n \in Arc}]
         \cup [kind : {"IpAddress"}, arcs : [1 .. 4 -> 0 .. OctetMax]]
         \cup [kind : {"OctetString"}, arcs : Seq(0 .. OctetMax)]
         \cup [kind : {"ObjectIdentifier"}, arcs : Seq(Arc)]

Options == [maxSuffix : Nat, maxValue : Nat, maxComponents : Nat, bound : BOOLEAN,
            enforce : BOOLEAN, allowIncomplete : BOOLEAN]

World == [declared : Seq(Declaration), suffix : Seq(Arc), values : Seq(Value),
          first : {"decode", "encode"}, options : Options]

\* How an operation can fail.
Faults == {"UnresolvedType", "ImpliedNotLast", "ImpliedNonVariable", "EmptyDomain",
           "UnsupportedBaseType", "MinimumSuffixTooLong", "Limit", "Truncated", "TooLong",
           "InvalidOctet", "Integer32OutOfDomain", "ConstraintViolation", "TrailingArcs",
           "WrongValueKind", "NegativeInteger32", "ValueTooLong", "FixedLength",
           "IndeterminateConstraint", "SuffixTooLong", "LengthPrefixOverflow",
           "TooFewValues", "TooManyValues"}

ASSUME CodecAssumption ==
  /\ OctetMax \in Nat /\ UIntMax \in Nat /\ IntMax \in 0 .. UIntMax
  /\ OctetMax <= UIntMax /\ IntMin <= 0 /\ None \notin Nat \cup Faults
  /\ Clauses \subseteq Seq(Declaration) /\ Limits \subseteq Options
  /\ \A c \in Clauses : Suffixes(c) \subseteq Seq(Arc) /\ Rows(c) \subseteq Seq(Value)

------------------------------------------------------------------------------
(* Normalized constraints. *)

Unspecified == [kind |-> "Unspecified", known |-> {}, partial |-> {}]
Known(V) == [kind |-> IF V = {} THEN "Empty" ELSE "Known", known |-> V, partial |-> {}]
Incomplete(V, P) == [kind |-> "Incomplete", known |-> V, partial |-> P]

Smallest(S) == CHOOSE x \in S : \A y \in S : x <= y
Largest(S) == CHOOSE x \in S : \A y \in S : y <= x

\* normalize_i64 and normalize_usize: a length has no negative bound.
Normalize(c, signed, maximum) ==
  LET fixed(b) == b.k = "Num" /\ (signed \/ b.n >= 0)
      meant    == {r \in c.values : /\ ~ (fixed(r.min) /\ r.min.n > maximum)
                                    /\ ~ (fixed(r.max) /\ r.max.n < 0)}
      exact    == {r \in meant : fixed(r.min) /\ fixed(r.max)}
      known    == UNION {(r.min.n .. r.max.n) \cap (0 .. maximum) : r \in exact}
      partial  == {[min |-> IF fixed(r.min) THEN Num(Largest({r.min.n, 0})) ELSE Raw,
                    max |-> IF fixed(r.max) THEN Num(Smallest({r.max.n, maximum})) ELSE Raw] :
                     r \in meant \ exact}
  IN IF ~ c.present THEN Unspecified
     ELSE IF partial = {} THEN Known(known) ELSE Incomplete(known, partial)

CouldContain(r, v) == /\ r.min = Raw \/ r.min.n <= v
                      /\ r.max = Raw \/ v <= r.max.n

check(c, v) ==
  IF c.kind = "Unspecified" \/ v \in c.known THEN "Allowed"
  ELSE IF \E r \in c.partial : CouldContain(r, v) THEN "Indeterminate" ELSE "Violation"

exact_value(c) == IF c.kind = "Known" /\ Cardinality(c.known) = 1
                  THEN Smallest(c.known) ELSE None

\* Mutant: an alternative whose lower end is unknown is left out.
LowestKnown(c) ==
  LET known == c.known \cup {r.min.n : r \in {q \in c.partial : q.min # Raw}}
  IN IF known = {} THEN None ELSE Smallest(known)

proven_minimum(c) ==
  IF c.kind \in {"Unspecified", "Empty"} \/ \E r \in c.partial : r.min = Raw THEN None
  ELSE Smallest(c.known \cup {r.min.n : r \in c.partial})
proven_maximum(c) ==
  IF c.kind \in {"Unspecified", "Empty"} \/ \E r \in c.partial : r.max = Raw THEN None
  ELSE Largest(c.known \cup {r.max.n : r \in c.partial})

------------------------------------------------------------------------------
(* Compiling the schema. *)

IsInteger(base) == base \in {"Integer32", "Counter32"}
KindMax(base) == IF base = "Integer32" THEN IntMax ELSE UIntMax

Lengths(d) == Normalize(d.sizes, FALSE, UIntMax)
Integers32(d) == Normalize(d.ranges, TRUE, KindMax(d.base))

\* The named numbers that can be an arc within the ranges.
Enumeration(d) == {v \in d.enums : /\ v \in 0 .. KindMax(d.base)
                                   /\ check(Integers32(d), v) # "Violation"}

\* Why a component cannot be compiled, in the order of the code's returns.
CompileFault(d, last) ==
  IF d.base = "Unknown" THEN "UnresolvedType"
  ELSE IF d.implied /\ ~ last THEN "ImpliedNotLast"
  ELSE IF d.implied /\ (IsInteger(d.base) \/ d.base = "IpAddress") THEN "ImpliedNonVariable"
  ELSE IF IsInteger(d.base)
  THEN IF Integers32(d).kind = "Empty" \/ (d.enums # {} /\ Enumeration(d) = {})
       THEN "EmptyDomain" ELSE None
  ELSE IF d.base = "IpAddress" THEN None
  ELSE IF d.base = "Counter64" THEN "UnsupportedBaseType"
  ELSE IF Lengths(d).kind = "Empty" THEN "EmptyDomain"
  ELSE IF d.implied /\ d.base = "OctetString" /\ exact_value(Lengths(d)) # None
  THEN "ImpliedNonVariable"
  ELSE None

\* Where a value ends: at a fixed width, after as many arcs as its first one says, or
\* at the end of the suffix.
Framing(d) ==
  IF IsInteger(d.base) THEN [form |-> "Fixed", length |-> 1]
  ELSE IF d.base = "IpAddress" THEN [form |-> "Fixed", length |-> 4]
  ELSE IF d.implied THEN [form |-> "Implied", length |-> 0]
  ELSE IF d.base = "OctetString" /\ exact_value(Lengths(d)) # None
  THEN [form |-> "Fixed", length |-> exact_value(Lengths(d))]
  ELSE [form |-> "Prefixed", length |-> 0]

Wire(d) == [kind |-> d.base, framing |-> Framing(d), lengths |-> Lengths(d),
            allowed |-> Integers32(d), enumerated |-> d.enums # {}, enum |-> Enumeration(d)]

VariableLength(w) == w.kind \in {"OctetString", "ObjectIdentifier"}

minimum_width(w) ==
  IF w.framing.form = "Fixed" THEN w.framing.length
  ELSE (IF w.framing.form = "Prefixed" THEN 1 ELSE 0)
       + (IF proven_minimum(w.lengths) = None THEN 0 ELSE proven_minimum(w.lengths))
maximum_width(w) ==
  IF w.framing.form = "Fixed" THEN w.framing.length
  ELSE IF proven_maximum(w.lengths) = None THEN None
  ELSE (IF w.framing.form = "Prefixed" THEN 1 ELSE 0) + proven_maximum(w.lengths)

\* The sum of widths, None if one of them is unknown.
minimum_suffix_arcs ==
  LET sum[k \in 0 .. Len(schema)] == IF k = 0 THEN 0 ELSE sum[k - 1] + minimum_width(schema[k])
  IN sum[Len(schema)]
maximum_suffix_arcs ==
  LET sum[k \in 0 .. Len(schema)] ==
        IF k = 0 THEN 0
        ELSE LET below == sum[k - 1] IN
             IF below = None \/ maximum_width(schema[k]) = None THEN None
             ELSE below + maximum_width(schema[k])
  IN sum[Len(schema)]

Fail(op, kind, from) ==
  /\ failure' = [failure EXCEPT ![op] = [kind |-> kind, component |-> i, remaining |-> from]]
  /\ phase' = "done"

\* IndexSchema::compile, one component at a time.
CompileComponent ==
  /\ phase = "compile" /\ i <= Len(world.declared)
  /\ LET d     == world.declared[i]
         fault == CompileFault(d, i = Len(world.declared))
     IN IF fault # None THEN Fail("compile", fault, 0) /\ UNCHANGED <<schema, i>>
        ELSE schema' = Append(schema, Wire(d)) /\ i' = i + 1 /\ UNCHANGED <<phase, failure>>
  /\ UNCHANGED <<world, suffix, position, values, arcRanges, reported>>

\* The schema is complete, and the operation starts on its input; a bound codec needs
\* room for its shortest suffix.
StartFirst ==
  /\ phase = "compile" /\ i > Len(world.declared)
  /\ IF world.options.bound /\ minimum_suffix_arcs > world.options.maxSuffix
     THEN Fail("compile", "MinimumSuffixTooLong", 0) /\ UNCHANGED <<i, suffix, values>>
     ELSE /\ phase' = world.first /\ i' = 1
          /\ suffix' = IF world.first = "decode" THEN world.suffix ELSE <<>>
          /\ values' = IF world.first = "decode" THEN <<>> ELSE world.values
          /\ UNCHANGED failure
  /\ UNCHANGED <<world, schema, position, arcRanges, reported>>

------------------------------------------------------------------------------
(* decode_exact. *)

Remaining == SubSeq(suffix, position + 1, Len(suffix))

Prefix(w) == IF w.framing.form = "Prefixed" THEN 1 ELSE 0

ValueArcs(w, rest) == CASE w.framing.form = "Fixed"    -> w.framing.length
                        [] w.framing.form = "Prefixed" -> rest[1]
                        [] OTHER                       -> Len(rest)

Taken(w, rest) == SubSeq(rest, Prefix(w) + 1, Prefix(w) + ValueArcs(w, rest))

HasOctets(w) == w.kind \in {"IpAddress", "OctetString"}

\* framed_value and take_value_arcs: what is wrong with where the value ends.
FramingFault(w, rest) ==
  IF Len(rest) < Prefix(w) THEN "Truncated"
  ELSE IF ~ IsInteger(w.kind) /\ ValueArcs(w, rest) > world.options.maxValue THEN "TooLong"
  ELSE IF Len(rest) < Prefix(w) + ValueArcs(w, rest) THEN "Truncated"
  ELSE None

\* Mutant: an arc becomes an octet or an Integer32 unchecked.
ValueUnchecked(w, arcs) == None

\* What is wrong with the value: an arc that is no octet, or no Integer32.
ValueFault(w, arcs) ==
  IF HasOctets(w) /\ \E k \in DOMAIN arcs : arcs[k] > OctetMax THEN "InvalidOctet"
  ELSE IF w.kind = "Integer32" /\ arcs[1] > IntMax THEN "Integer32OutOfDomain"
  ELSE None

\* integer_violation and length_violation.
Violates(w, arcs) ==
  IF IsInteger(w.kind)
  THEN check(w.allowed, arcs[1]) = "Violation" \/ (w.enumerated /\ arcs[1] \notin w.enum)
  ELSE VariableLength(w) /\ check(w.lengths, Len(arcs)) = "Violation"

\* An octet of an arc is its low byte.
Decoded(w, arcs) ==
  [kind |-> w.kind,
   arcs |-> IF HasOctets(w) THEN [k \in DOMAIN arcs |-> arcs[k] % (OctetMax + 1)] ELSE arcs]

DecodeLimits ==
  /\ phase = "decode" /\ i = 1
  /\ \/ Len(suffix) > world.options.maxSuffix
     \/ Len(schema) > world.options.maxComponents

\* The whole suffix is refused before a component is looked at.
RefuseSuffix ==
  /\ DecodeLimits
  /\ Fail("decode", "Limit", 0)
  /\ UNCHANGED <<world, schema, i, suffix, position, values, arcRanges, reported>>

\* One component; a failure keeps the arcs from the component's start.
DecodeComponent ==
  /\ phase = "decode" /\ ~ DecodeLimits /\ i <= Len(schema)
  /\ LET w    == schema[i]
         rest == Remaining
     IN IF FramingFault(w, rest) # None
        THEN /\ Fail("decode", FramingFault(w, rest), position)
             /\ UNCHANGED <<i, position, values, arcRanges, reported>>
        ELSE LET arcs == Taken(w, rest)
                 end  == position + Prefix(w) + Len(arcs)
                 bad  == IF ValueFault(w, arcs) # None THEN ValueFault(w, arcs)
                         ELSE IF Violates(w, arcs) /\ world.options.enforce
                         THEN "ConstraintViolation" ELSE None
             IN IF bad # None
                THEN /\ Fail("decode", bad, position)
                     /\ UNCHANGED <<i, position, values, arcRanges, reported>>
                ELSE /\ i' = i + 1 /\ position' = end
                     /\ values' = Append(values, Decoded(w, arcs))
                     /\ arcRanges' = Append(arcRanges, <<position, end>>)
                     /\ reported' = reported \cup (IF Violates(w, arcs) THEN {i} ELSE {})
                     /\ UNCHANGED <<phase, failure>>
  /\ UNCHANGED <<world, schema, suffix>>

\* The suffix is split; if it was the input, the values found are joined again.
FinishDecode ==
  /\ phase = "decode" /\ ~ DecodeLimits /\ i > Len(schema)
  /\ IF position # Len(suffix)
     THEN Fail("decode", "TrailingArcs", position) /\ UNCHANGED <<i, suffix>>
     ELSE /\ UNCHANGED failure
          /\ IF world.first = "decode" THEN phase' = "encode" /\ i' = 1 /\ suffix' = <<>>
             ELSE phase' = "done" /\ UNCHANGED <<i, suffix>>
  /\ UNCHANGED <<world, schema, position, values, arcRanges, reported>>

------------------------------------------------------------------------------
(* encode_canonical. *)

\* Mutant: an empty value gets no length arc.
EncodedBare(w, arcs) == IF Prefix(w) = 1 /\ arcs # <<>> THEN <<Len(arcs)>> \o arcs ELSE arcs

Encoded(w, arcs) == IF Prefix(w) = 1 THEN <<Len(arcs)>> \o arcs ELSE arcs

Undecided(w, arcs) ==
  IF IsInteger(w.kind) THEN check(w.allowed, arcs[1]) = "Indeterminate"
  ELSE VariableLength(w) /\ check(w.lengths, Len(arcs)) = "Indeterminate"

\* Why a value cannot be encoded, in the order of the code's returns.
EncodeFault(w, v) ==
  IF v.kind # w.kind THEN "WrongValueKind"
  ELSE IF IsInteger(w.kind) /\ v.arcs[1] < 0 THEN "NegativeInteger32"
  ELSE IF VariableLength(w) /\ Len(v.arcs) > world.options.maxValue THEN "ValueTooLong"
  ELSE IF VariableLength(w) /\ w.framing.form = "Fixed" /\ Len(v.arcs) # w.framing.length
  THEN "FixedLength"
  ELSE IF Violates(w, v.arcs) THEN "ConstraintViolation"
  ELSE IF Undecided(w, v.arcs) /\ ~ world.options.allowIncomplete
  THEN "IndeterminateConstraint"
  ELSE IF Len(suffix) + Len(Encoded(w, v.arcs)) > world.options.maxSuffix THEN "SuffixTooLong"
  ELSE IF Prefix(w) = 1 /\ Len(v.arcs) > UIntMax THEN "LengthPrefixOverflow"
  ELSE None

EncodeComponent ==
  /\ phase = "encode" /\ i <= Len(schema)
  /\ IF i > Len(values) THEN Fail("encode", "TooFewValues", 0) /\ UNCHANGED <<i, suffix>>
     ELSE IF EncodeFault(schema[i], values[i]) # None
     THEN Fail("encode", EncodeFault(schema[i], values[i]), 0) /\ UNCHANGED <<i, suffix>>
     ELSE /\ suffix' = suffix \o Encoded(schema[i], values[i].arcs)
          /\ i' = i + 1 /\ UNCHANGED <<phase, failure>>
  /\ UNCHANGED <<world, schema, position, values, arcRanges, reported>>

\* The values are joined; if they were the input, the suffix is split again.
FinishEncode ==
  /\ phase = "encode" /\ i > Len(schema)
  /\ IF Len(values) > Len(schema) THEN Fail("encode", "TooManyValues", 0) /\ UNCHANGED <<i, values>>
     ELSE /\ UNCHANGED failure
          /\ IF world.first = "encode" THEN phase' = "decode" /\ i' = 1 /\ values' = <<>>
             ELSE phase' = "done" /\ UNCHANGED <<i, values>>
  /\ UNCHANGED <<world, schema, suffix, position, arcRanges, reported>>

------------------------------------------------------------------------------

NoFailure == [op \in {"compile", "decode", "encode"} |->
                [kind |-> None, component |-> 0, remaining |-> 0]]

Init ==
  /\ \E c \in Clauses, o \in Limits :
       \/ \E s \in Suffixes(c) :
            world = [declared |-> c, options |-> o, first |-> "decode",
                     suffix |-> s, values |-> <<>>]
       \/ \E r \in Rows(c) :
            world = [declared |-> c, options |-> o, first |-> "encode",
                     suffix |-> <<>>, values |-> r]
  /\ phase = "compile" /\ schema = <<>> /\ i = 1
  /\ suffix = <<>> /\ position = 0 /\ values = <<>> /\ arcRanges = <<>> /\ reported = {}
  /\ failure = NoFailure

Next == \/ CompileComponent \/ StartFirst
        \/ RefuseSuffix \/ DecodeComponent \/ FinishDecode
        \/ EncodeComponent \/ FinishEncode

Spec == Init /\ [][Next]_vars

------------------------------------------------------------------------------

\* The variables have their types: among them, that the decoder counts every arc of the
\* suffix at most once, that an octet is a byte and that an Integer32 read from an arc
\* is not negative.
TypeOK ==
  /\ world \in World
  /\ phase \in {"compile", "decode", "encode", "done"}
  /\ i \in 1 .. Len(world.declared) + 1 /\ Len(schema) <= Len(world.declared)
  /\ suffix \in Seq(Arc) /\ position \in 0 .. Len(world.suffix) + Len(suffix)
  /\ values \in Seq(Value) /\ Len(arcRanges) <= Len(schema)
  /\ reported \subseteq DOMAIN arcRanges
  /\ \A op \in DOMAIN failure : failure[op].remaining <= position

\* Splitting and joining are each other's inverse under the same limits: a suffix that
\* decodes without a violation is what its values encode to, unless a constraint that
\* cannot be decided refuses them, and what values encode to decodes to those values,
\* unless a limit that only decode_exact looks at refuses the suffix (codec.rs:670 for
\* the number of components, codec.rs:735 for the four arcs of an IpAddress).
RoundTrip ==
  phase = "done" /\ failure["compile"].kind = None =>
    IF world.first = "decode"
    THEN failure["decode"].kind = None /\ reported = {} =>
           IF failure["encode"].kind = None THEN suffix = world.suffix
           ELSE failure["encode"].kind = "IndeterminateConstraint"
    ELSE failure["encode"].kind = None =>
           IF failure["decode"].kind = None THEN values = world.values /\ reported = {}
           ELSE \/ failure["decode"].kind = "Limit" /\ Len(schema) > world.options.maxComponents
                \/ /\ failure["decode"].kind = "TooLong" /\ world.options.maxValue < 4
                   /\ schema[failure["decode"].component].kind = "IpAddress"

SplitWithoutViolation ==
  phase = "decode" /\ ~ DecodeLimits /\ position = Len(suffix) /\ reported = {}

\* A suffix that was split without a violation, and one that was joined, is as long as
\* the schema says it can be: a binding refuses an object whose budget is below the
\* minimum (codec.rs:965), so a minimum that is too large would refuse instances that
\* exist.
WithinWidth ==
  i > Len(schema) /\ (phase = "encode" \/ SplitWithoutViolation) =>
    /\ minimum_suffix_arcs <= Len(suffix)
    /\ maximum_suffix_arcs # None => Len(suffix) <= maximum_suffix_arcs

\* What an error says was decoded can be relied on (codec.rs:1318): the ranges of the
\* components follow each other from the start of the suffix up to what remains, and
\* the arcs of each are the canonical encoding of its value.
PrefixRecoverable ==
  phase = "decode" \/ failure["decode"].kind # None =>
    /\ \A k \in DOMAIN arcRanges :
         /\ arcRanges[k][1] = IF k = 1 THEN 0 ELSE arcRanges[k - 1][2]
         /\ SubSeq(suffix, arcRanges[k][1] + 1, arcRanges[k][2])
              = Encoded(schema[k], values[k].arcs)
    /\ Len(values) = Len(arcRanges)
    /\ position = IF arcRanges = <<>> THEN 0 ELSE arcRanges[Len(arcRanges)][2]
    /\ failure["decode"].kind \notin {None, "Limit"} =>
         failure["decode"].remaining = position

==============================================================================
