--------------------------- MODULE IndexCodecProofs ---------------------------
(***************************************************************************)
(* What the codec keeps for every INDEX clause, suffix, row of values and  *)
(* limit.  Splitting and joining are each other's inverse because both cut *)
(* a suffix at the same places: each piece is the encoding of one value,   *)
(* and what stands in front of the rest says where the value ends.         *)
(***************************************************************************)
EXTENDS IndexCodec, SequenceTheorems, FiniteSetTheorems, WellFoundedInduction, TLAPS

(* Numbers and sequences. *)

\* A non-empty set of numbers has a smallest one.
LEMMA SmallestMember ==
  ASSUME NEW S \in SUBSET Nat, S # {}
  PROVE  \E x \in S : \A y \in S : x <= y
<1>1. \A x, y \in Nat : y < x => <<y, x>> \in OpToRel(<, Nat)
  BY DEF OpToRel
<1>2. PICK x \in S : \A y \in S : ~ (<<y, x>> \in OpToRel(<, Nat))
  BY WFMin, NatLessThanWellFounded
<1>3. \A y \in S : ~ (y < x)
  BY <1>1, <1>2
<1> QED
  BY <1>3

\* A non-empty set of numbers up to n has a largest one.
LEMMA LargestMember ==
  ASSUME NEW n \in Nat, NEW S \in SUBSET (0 .. n), S # {}
  PROVE  \E x \in S : \A y \in S : y <= x
<1> DEFINE D == {n - x : x \in S}
<1>1. D \in SUBSET Nat /\ D # {}
  <2>1. \A x \in S : x \in Int /\ 0 <= x /\ x <= n /\ n - x \in Nat
    OBVIOUS
  <2> QED
    BY <2>1
<1>2. PICK d \in D : \A e \in D : d <= e
  <2> HIDE DEF D
  <2> QED
    BY <1>1, SmallestMember
<1>3. PICK x \in S : d = n - x
  OBVIOUS
<1>4. \A y \in S : n - x <= n - y
  BY <1>2, <1>3
<1> QED
  BY <1>3, <1>4

LEMMA SmallestIs ==
  ASSUME NEW S \in SUBSET Nat, S # {}
  PROVE  Smallest(S) \in S /\ \A y \in S : Smallest(S) <= y
BY SmallestMember DEF Smallest

LEMMA LargestIs ==
  ASSUME NEW n \in Nat, NEW S \in SUBSET (0 .. n), S # {}
  PROVE  Largest(S) \in S /\ \A y \in S : y <= Largest(S)
BY LargestMember DEF Largest

\* Induction over the numbers, for a set.
LEMMA Induction ==
  ASSUME NEW S, 0 \in S, \A n \in Nat : n \in S => n + 1 \in S
  PROVE  Nat \subseteq S
<1> SUFFICES ASSUME Nat \ S # {} PROVE FALSE
  OBVIOUS
<1>1. PICK n \in Nat \ S : \A k \in Nat \ S : n <= k
  BY SmallestMember
<1>2. n # 0 /\ n - 1 \in Nat
  BY <1>1
<1>3. n - 1 \in S
  BY <1>1, <1>2
<1> QED
  BY <1>1, <1>2, <1>3

\* A function on 1 .. n is a sequence of length n.
LEMMA FunctionIsSeq ==
  ASSUME NEW n \in Nat, NEW S, NEW f \in [1 .. n -> S]
  PROVE  f \in Seq(S) /\ Len(f) = n
BY IsASeq, LenProperties

------------------------------------------------------------------------------
(* What compiling leaves in the schema. *)

Kinds == {"Integer32", "Counter32", "IpAddress", "OctetString", "ObjectIdentifier"}

\* The constraint of a component, of lengths up to "maximum".
Constraint(c, maximum) ==
  /\ c.kind \in {"Unspecified", "Empty", "Known", "Incomplete"}
  /\ c.known \subseteq 0 .. maximum
  /\ \A r \in c.partial : /\ r.min # Raw => r.min.n \in 0 .. maximum
                          /\ r.max # Raw => r.max.n \in 0 .. maximum
  /\ c.kind = "Known" => c.known # {} /\ c.partial = {}
  /\ c.kind = "Incomplete" => c.partial # {}

LEMMA NumIsNotRaw == \A n : Num(n) # Raw /\ Num(n).n = n /\ Num(n).k = "Num"
BY DEF Num, Raw

LEMMA ExtremeOfTwo ==
  ASSUME NEW a \in Int, NEW b \in Int
  PROVE  /\ Largest({a, b}) = IF a <= b THEN b ELSE a
         /\ Smallest({a, b}) = IF a <= b THEN a ELSE b
<1>1. \A x \in {a, b} : (\A y \in {a, b} : y <= x) <=> x = IF a <= b THEN b ELSE a
  OBVIOUS
<1>2. \A x \in {a, b} : (\A y \in {a, b} : x <= y) <=> x = IF a <= b THEN a ELSE b
  OBVIOUS
<1> QED
  BY <1>1, <1>2 DEF Largest, Smallest

\* Normalized constraints hold no number beyond the maximum.
LEMMA NormalizeType ==
  ASSUME NEW c \in [present : BOOLEAN, values : SUBSET Interval], NEW maximum \in Nat,
         NEW signed \in BOOLEAN
  PROVE  Constraint(Normalize(c, signed, maximum), maximum)
<1> DEFINE fixed(b) == b.k = "Num" /\ (signed \/ b.n >= 0)
           meant    == {r \in c.values : /\ ~ (fixed(r.min) /\ r.min.n > maximum)
                                         /\ ~ (fixed(r.max) /\ r.max.n < 0)}
           exact    == {r \in meant : fixed(r.min) /\ fixed(r.max)}
           known    == UNION {(r.min.n .. r.max.n) \cap (0 .. maximum) : r \in exact}
           lower(r) == IF fixed(r.min) THEN Num(Largest({r.min.n, 0})) ELSE Raw
           upper(r) == IF fixed(r.max) THEN Num(Smallest({r.max.n, maximum})) ELSE Raw
           partial  == {[min |-> lower(r), max |-> upper(r)] : r \in meant \ exact}
<1>1. known \subseteq 0 .. maximum
  OBVIOUS
<1>2. ASSUME NEW p \in partial
      PROVE  /\ p.min # Raw => p.min.n \in 0 .. maximum
             /\ p.max # Raw => p.max.n \in 0 .. maximum
  <2>1. PICK r \in meant \ exact : p = [min |-> lower(r), max |-> upper(r)]
    OBVIOUS
  <2>2. r \in Interval /\ r.min \in Bound /\ r.max \in Bound /\ r.min.n \in Int /\ r.max.n \in Int
    BY <2>1 DEF Interval, Bound, MIN, MAX, Raw
  <2>3. /\ fixed(r.min) => ~ (r.min.n > maximum)
        /\ fixed(r.max) => ~ (r.max.n < 0)
    BY <2>1
  <2> HIDE DEF fixed, meant, exact
  <2>4. fixed(r.min) => Largest({r.min.n, 0}) \in 0 .. maximum
    <3>1. Largest({r.min.n, 0}) = IF r.min.n <= 0 THEN 0 ELSE r.min.n
      BY <2>2, ExtremeOfTwo
    <3> QED
      BY <2>2, <2>3, <3>1
  <2>5. fixed(r.max) => Smallest({r.max.n, maximum}) \in 0 .. maximum
    <3>1. Smallest({r.max.n, maximum}) = IF r.max.n <= maximum THEN r.max.n ELSE maximum
      <4>1. r.max.n \in Int /\ maximum \in Int
        BY <2>2
      <4> QED
        BY <4>1, ExtremeOfTwo, Zenon
    <3> QED
      BY <2>2, <2>3, <3>1
  <2>6. p.min = lower(r) /\ p.max = upper(r)
    BY <2>1
  <2> QED
    BY <2>4, <2>5, <2>6, NumIsNotRaw
<1>3. Normalize(c, signed, maximum) =
        IF ~ c.present THEN Unspecified
        ELSE IF partial = {} THEN Known(known) ELSE Incomplete(known, partial)
  BY DEF Normalize
<1> HIDE DEF known, partial
<1> QED
  BY <1>1, <1>2, <1>3 DEF Constraint, Unspecified, Known, Incomplete


\* The numbers that a constraint's least and greatest come from.
LEMMA EndsKnown ==
  ASSUME NEW m \in Nat, NEW c, Constraint(c, m), c.kind \notin {"Unspecified", "Empty"}
  PROVE  /\ (\A r \in c.partial : r.min # Raw) =>
              /\ c.known \cup {r.min.n : r \in c.partial} \in SUBSET (0 .. m)
              /\ c.known \cup {r.min.n : r \in c.partial} # {}
         /\ (\A r \in c.partial : r.max # Raw) =>
              /\ c.known \cup {r.max.n : r \in c.partial} \in SUBSET (0 .. m)
              /\ c.known \cup {r.max.n : r \in c.partial} # {}
BY DEF Constraint

\* What a constraint does not exclude lies between its proven ends.
LEMMA WithinProvenEnds ==
  ASSUME NEW m \in Nat, NEW c, Constraint(c, m), NEW v \in Nat, check(c, v) # "Violation"
  PROVE  /\ proven_minimum(c) # None => proven_minimum(c) \in 0 .. v
         /\ proven_maximum(c) # None => proven_maximum(c) \in Nat /\ v <= proven_maximum(c)
<1>1. CASE c.kind \in {"Unspecified", "Empty"}
  BY <1>1 DEF proven_minimum, proven_maximum
<1>2. CASE c.kind \notin {"Unspecified", "Empty"}
  <2> DEFINE low  == c.known \cup {r.min.n : r \in c.partial}
             high == c.known \cup {r.max.n : r \in c.partial}
  <2>1. v \in c.known \/ \E r \in c.partial : CouldContain(r, v)
    BY <1>2 DEF check
  <2>2. ASSUME \A r \in c.partial : r.min # Raw
        PROVE  Smallest(low) \in 0 .. v
    <3>1. low \in SUBSET (0 .. m) /\ low # {}
      BY <1>2, <2>2, EndsKnown
    <3>2. \E n \in low : n <= v
      BY <2>1, <2>2 DEF CouldContain, Constraint
    <3> HIDE DEF low
    <3>3. Smallest(low) \in low /\ \A y \in low : Smallest(low) <= y
      BY <3>1, SmallestIs
    <3>4. PICK n \in low : n <= v
      BY <3>2
    <3>5. n \in 0 .. m /\ Smallest(low) \in 0 .. m /\ Smallest(low) <= n
      BY <3>1, <3>3
    <3> QED
      BY <3>4, <3>5
  <2>3. ASSUME \A r \in c.partial : r.max # Raw
        PROVE  Largest(high) \in Nat /\ v <= Largest(high)
    <3>1. high \in SUBSET (0 .. m) /\ high # {}
      BY <1>2, <2>3, EndsKnown
    <3>2. \E n \in high : v <= n
      BY <2>1, <2>3 DEF CouldContain, Constraint
    <3> HIDE DEF high
    <3>3. Largest(high) \in high /\ \A y \in high : y <= Largest(high)
      BY <3>1, LargestIs
    <3>4. PICK n \in high : v <= n
      BY <3>2
    <3>5. n \in 0 .. m /\ Largest(high) \in 0 .. m /\ n <= Largest(high)
      BY <3>1, <3>3
    <3> QED
      BY <3>4, <3>5
  <2>4. /\ proven_minimum(c) = IF \E r \in c.partial : r.min = Raw THEN None ELSE Smallest(low)
        /\ proven_maximum(c) = IF \E r \in c.partial : r.max = Raw THEN None ELSE Largest(high)
    BY <1>2 DEF proven_minimum, proven_maximum
  <2> HIDE DEF low, high
  <2> QED
    BY <2>2, <2>3, <2>4
<1> QED
  BY <1>1, <1>2

LEMMA ExactValueType ==
  ASSUME NEW m \in Nat, NEW c, Constraint(c, m)
  PROVE  exact_value(c) = None \/ exact_value(c) \in 0 .. m
<1> SUFFICES ASSUME c.kind = "Known" PROVE Smallest(c.known) \in 0 .. m
  BY DEF exact_value
<1>1. c.known \in SUBSET Nat /\ c.known # {} /\ c.known \subseteq 0 .. m
  BY DEF Constraint
<1> QED
  BY <1>1, SmallestIs

\* A component of a schema.
Compiled(w) ==
  /\ w.kind \in Kinds
  /\ w.framing.form \in {"Fixed", "Implied", "Prefixed"} /\ w.framing.length \in Nat
  /\ IsInteger(w.kind) => w.framing.form = "Fixed" /\ w.framing.length = 1
  /\ w.kind = "IpAddress" => w.framing.form = "Fixed" /\ w.framing.length = 4
  /\ w.kind = "ObjectIdentifier" => w.framing.form # "Fixed"
  /\ Constraint(w.lengths, UIntMax)

LEMMA WireIsCompiled ==
  ASSUME NEW d \in Declaration, NEW last \in BOOLEAN, CompileFault(d, last) = None
  PROVE  Compiled(Wire(d)) /\ (Wire(d).framing.form = "Implied" => last)
<1>1. UIntMax \in Nat /\ None \notin Nat /\ None \notin Faults
  BY CodecAssumption
<1>2. d.base \in Kinds \cup {"Unknown", "Counter64"} /\ d.implied \in BOOLEAN
  BY DEF Declaration, Kinds
<1>3. d.base \in Kinds /\ (d.implied => last)
  <2>1. d.base # "Unknown" /\ ~ (d.implied /\ ~ last)
    BY <1>1, Zenon DEF CompileFault, Faults
  <2>2. d.base # "Counter64"
    BY <1>1, <2>1, Zenon DEF CompileFault, Faults, IsInteger
  <2> QED
    BY <1>2, <2>1, <2>2, Zenon DEF Kinds
<1>4. Constraint(Lengths(d), UIntMax)
  <2>1. d.sizes \in [present : BOOLEAN, values : SUBSET Interval]
    BY DEF Declaration
  <2> QED
    BY <1>1, <2>1, NormalizeType DEF Lengths
<1>5. exact_value(Lengths(d)) # None => exact_value(Lengths(d)) \in Nat
  BY <1>1, <1>4, ExactValueType
<1>6. /\ Wire(d).kind = d.base /\ Wire(d).framing = Framing(d) /\ Wire(d).lengths = Lengths(d)
  BY DEF Wire
<1>7. /\ Framing(d).form \in {"Fixed", "Implied", "Prefixed"} /\ Framing(d).length \in Nat
      /\ IsInteger(d.base) => Framing(d).form = "Fixed" /\ Framing(d).length = 1
      /\ d.base = "IpAddress" => Framing(d).form = "Fixed" /\ Framing(d).length = 4
      /\ d.base = "ObjectIdentifier" => Framing(d).form # "Fixed"
      /\ Framing(d).form = "Implied" => d.implied
  BY <1>5 DEF Framing, IsInteger
<1> QED
  BY <1>3, <1>4, <1>6, <1>7 DEF Compiled

------------------------------------------------------------------------------
(* A value and its encoding. *)

LEMMA ArcType == /\ 0 .. OctetMax \subseteq Arc /\ Arc \subseteq Nat
                 /\ \A n : n \in Arc <=> n \in Nat /\ n <= UIntMax
BY CodecAssumption DEF Arc

LEMMA ValueFacts ==
  ASSUME NEW v \in Value
  PROVE  /\ v.kind \in Kinds /\ v = [kind |-> v.kind, arcs |-> v.arcs]
         /\ v.kind = "Integer32" => \E n \in IntMin .. IntMax : v.arcs = <<n>>
         /\ v.kind = "Counter32" => \E n \in Arc : v.arcs = <<n>>
         /\ v.kind = "IpAddress" => v.arcs \in [1 .. 4 -> 0 .. OctetMax]
         /\ v.kind = "OctetString" => v.arcs \in Seq(0 .. OctetMax)
         /\ v.kind = "ObjectIdentifier" => v.arcs \in Seq(Arc)
BY DEF Value, Kinds

LEMMA ValueLength ==
  ASSUME NEW v \in Value
  PROVE  /\ Len(v.arcs) \in Nat /\ v.arcs \in Seq(Int)
         /\ v.kind # "Integer32" => v.arcs \in Seq(Arc)
         /\ IsInteger(v.kind) => Len(v.arcs) = 1 /\ v.arcs = <<v.arcs[1]>> /\ v.arcs[1] \in Int
         /\ v.kind = "IpAddress" => Len(v.arcs) = 4
<1> USE ArcType, CodecAssumption, RangesAssumption
<1>1. CASE v.kind = "Integer32"
  <2>1. PICK n \in IntMin .. IntMax : v.arcs = <<n>>
    BY <1>1, ValueFacts
  <2>2. n \in Int
    BY <2>1
  <2> QED
    BY <1>1, <2>1, <2>2 DEF IsInteger
<1>2. CASE v.kind = "Counter32"
  <2>1. PICK n \in Arc : v.arcs = <<n>>
    BY <1>2, ValueFacts
  <2>2. n \in Int
    BY <2>1
  <2> QED
    BY <1>2, <2>1, <2>2 DEF IsInteger
<1>3. CASE v.kind = "IpAddress"
  <2>1. v.arcs \in Seq(0 .. OctetMax) /\ Len(v.arcs) = 4
    <3>1. v.arcs \in [1 .. 4 -> 0 .. OctetMax]
      BY <1>3, ValueFacts
    <3> QED
      BY <3>1, FunctionIsSeq
  <2>2. v.arcs \in Seq(Arc) /\ v.arcs \in Seq(Int)
    BY <2>1, SeqMonotonic
  <2> QED
    BY <1>3, <2>1, <2>2 DEF IsInteger
<1>4. CASE v.kind = "OctetString"
  <2>1. v.arcs \in Seq(0 .. OctetMax)
    BY <1>4, ValueFacts
  <2>2. v.arcs \in Seq(Arc) /\ v.arcs \in Seq(Int) /\ Len(v.arcs) \in Nat
    BY <2>1, SeqMonotonic
  <2> QED
    BY <1>4, <2>2 DEF IsInteger
<1>5. CASE v.kind = "ObjectIdentifier"
  <2>1. v.arcs \in Seq(Arc)
    BY <1>5, ValueFacts
  <2>2. v.arcs \in Seq(Int) /\ Len(v.arcs) \in Nat
    BY <2>1, SeqMonotonic
  <2> QED
    BY <1>5, <2>1, <2>2 DEF IsInteger
<1> QED
  BY <1>1, <1>2, <1>3, <1>4, <1>5, ValueFacts DEF Kinds

\* The value v is one that component w has an encoding for.
Canonical(w, v) ==
  /\ v \in Value /\ v.kind = w.kind /\ v.arcs \in Seq(Arc)
  /\ w.framing.form = "Fixed" => Len(v.arcs) = w.framing.length
  /\ VariableLength(w) => Len(v.arcs) <= world.options.maxValue
  /\ Prefix(w) = 1 => Len(v.arcs) <= UIntMax

\* What can be encoded has a canonical encoding, within the constraints and the limit.
LEMMA EncodedIsCanonical ==
  ASSUME NEW w, Compiled(w), NEW v \in Value, EncodeFault(w, v) = None,
         world.options.maxValue \in Nat
  PROVE  /\ Canonical(w, v) /\ ~ Violates(w, v.arcs)
         /\ ~ (Len(suffix) + Len(Encoded(w, v.arcs)) > world.options.maxSuffix)
<1>1. None \notin Faults /\ UIntMax \in Nat /\ IntMax <= UIntMax /\ IntMax \in Int
  BY CodecAssumption
<1>2. /\ v.kind = w.kind
      /\ ~ (IsInteger(w.kind) /\ v.arcs[1] < 0)
      /\ ~ (VariableLength(w) /\ Len(v.arcs) > world.options.maxValue)
      /\ ~ (VariableLength(w) /\ w.framing.form = "Fixed" /\ Len(v.arcs) # w.framing.length)
      /\ ~ Violates(w, v.arcs)
      /\ ~ (Len(suffix) + Len(Encoded(w, v.arcs)) > world.options.maxSuffix)
      /\ ~ (Prefix(w) = 1 /\ Len(v.arcs) > UIntMax)
  BY <1>1, Zenon DEF EncodeFault, Faults
<1>3. v.arcs \in Seq(Arc)
  <2>1. CASE v.kind = "Integer32"
    <3>1. PICK n \in IntMin .. IntMax : v.arcs = <<n>>
      BY <2>1, ValueFacts
    <3>2. n \in Arc
      BY <1>1, <1>2, <2>1, <3>1, ArcType, RangesAssumption DEF IsInteger
    <3> QED
      BY <3>1, <3>2
  <2> QED
    BY <2>1, ValueLength
<1>4. w.framing.form = "Fixed" => Len(v.arcs) = w.framing.length
  BY <1>2, ValueLength DEF Compiled, Kinds, VariableLength, IsInteger
<1> QED
  BY <1>1, <1>2, <1>3, <1>4, ValueLength DEF Canonical

\* A length arc and the arcs of the value.
LEMMA EncodedType ==
  ASSUME NEW w, NEW arcs \in Seq(Arc), Prefix(w) = 1 => Len(arcs) <= UIntMax
  PROVE  /\ Encoded(w, arcs) \in Seq(Arc) /\ Prefix(w) \in {0, 1}
         /\ Len(Encoded(w, arcs)) = Prefix(w) + Len(arcs)
         /\ Prefix(w) = 1 => Encoded(w, arcs)[1] = Len(arcs)
         /\ \A j \in 1 .. Len(arcs) : Encoded(w, arcs)[Prefix(w) + j] = arcs[j]
<1>1. Prefix(w) \in {0, 1} /\ Len(arcs) \in Nat
  BY DEF Prefix
<1>2. CASE Prefix(w) = 0
  BY <1>1, <1>2 DEF Encoded
<1>3. CASE Prefix(w) = 1
  <2>1. Len(arcs) \in Arc
    BY <1>1, <1>3, ArcType
  <2>2. <<Len(arcs)>> \in Seq(Arc) /\ Len(<<Len(arcs)>>) = 1
    BY <2>1
  <2> DEFINE first == <<Len(arcs)>>
  <2>3. first[1] = Len(arcs)
    OBVIOUS
  <2>4. Encoded(w, arcs) = first \o arcs
    BY <1>3 DEF Encoded
  <2> HIDE DEF first
  <2>5. /\ first \o arcs \in Seq(Arc) /\ Len(first \o arcs) = 1 + Len(arcs)
        /\ \A j \in 1 .. 1 + Len(arcs) : (first \o arcs)[j] = IF j <= 1 THEN first[j] ELSE arcs[j - 1]
    BY <2>2, ConcatProperties DEF first
  <2>6. (first \o arcs)[1] = Len(arcs)
    BY <1>1, <2>3, <2>5
  <2>7. \A j \in 1 .. Len(arcs) : (first \o arcs)[1 + j] = arcs[j]
    BY <1>1, <2>5
  <2> QED
    BY <1>3, <2>4, <2>5, <2>6, <2>7
<1> QED
  BY <1>1, <1>2, <1>3

\* The piece of s behind the first p arcs up to q.
Piece(s, p, q) == SubSeq(s, p + 1, q)

LEMMA PieceType ==
  ASSUME NEW s \in Seq(Arc), NEW q \in 0 .. Len(s), NEW p \in 0 .. q
  PROVE  /\ Piece(s, p, q) \in Seq(Arc) /\ Len(Piece(s, p, q)) = q - p
         /\ \A j \in 1 .. q - p : Piece(s, p, q)[j] = s[p + j]
<1>1. Len(s) \in Nat /\ p + 1 \in Int /\ q \in Int
  OBVIOUS
<1>2. \A j \in p + 1 .. q : s[j] \in Arc
  BY <1>1, ElementOfSeq
<1>3. /\ SubSeq(s, p + 1, q) \in Seq(Arc)
      /\ Len(SubSeq(s, p + 1, q)) = IF p + 1 <= q THEN q - (p + 1) + 1 ELSE 0
      /\ \A j \in 1 .. q - (p + 1) + 1 : SubSeq(s, p + 1, q)[j] = s[(p + 1) + j - 1]
  BY <1>1, <1>2, SubSeqProperties
<1>4. q - (p + 1) + 1 = q - p /\ \A j \in Int : (p + 1) + j - 1 = p + j
  BY <1>1
<1>5. Piece(s, p, q) = SubSeq(s, p + 1, q)
  BY DEF Piece
<1>6. Len(SubSeq(s, p + 1, q)) = q - p
  <2>1. p <= q /\ (p + 1 <= q \/ q - p = 0)
    BY <1>1
  <2> QED
    BY <1>3, <1>4, <2>1
<1>7. ASSUME NEW j \in 1 .. q - p PROVE SubSeq(s, p + 1, q)[j] = s[p + j]
  <2>1. j \in 1 .. q - (p + 1) + 1
    BY <1>4
  <2>2. (p + 1) + j - 1 = p + j
    BY <1>4
  <2> QED
    BY <1>3, <2>1, <2>2
<1> QED
  BY <1>3, <1>5, <1>6, <1>7

\* The low byte of an octet is the octet.
LEMMA ByteOfOctet == \A x \in 0 .. OctetMax : x % (OctetMax + 1) = x
BY CodecAssumption

\* What is left of s behind the first p arcs.
Rest(s, p) == SubSeq(s, p + 1, Len(s))

LEMMA RestType ==
  ASSUME NEW s \in Seq(Arc), NEW p \in 0 .. Len(s)
  PROVE  /\ Rest(s, p) \in Seq(Arc) /\ Len(Rest(s, p)) = Len(s) - p
         /\ \A j \in 1 .. Len(s) - p : Rest(s, p)[j] = s[p + j]
<1>1. Len(s) \in 0 .. Len(s) /\ p \in 0 .. Len(s)
  OBVIOUS
<1>2. Rest(s, p) = Piece(s, p, Len(s))
  BY DEF Rest, Piece
<1>3. PICK n : n = Len(s)
  OBVIOUS
<1>4. /\ Piece(s, p, n) \in Seq(Arc) /\ Len(Piece(s, p, n)) = n - p
      /\ \A j \in 1 .. n - p : Piece(s, p, n)[j] = s[p + j]
  <2>1. n \in 0 .. Len(s) /\ p \in 0 .. n
    BY <1>1, <1>3
  <2> QED
    BY <2>1, PieceType
<1> QED
  BY <1>2, <1>3, <1>4

\* The arcs that encode a value are taken for it again, whatever follows them.
LEMMA TakesTheValue ==
  ASSUME NEW w, Compiled(w), NEW v, Canonical(w, v),
         NEW s \in Seq(Arc), NEW q \in 0 .. Len(s), NEW p \in 0 .. q,
         Piece(s, p, q) = Encoded(w, v.arcs),
         w.framing.form = "Implied" => q = Len(s)
  PROVE  /\ ValueArcs(w, Rest(s, p)) = Len(v.arcs) /\ Taken(w, Rest(s, p)) = v.arcs
         /\ q = p + Prefix(w) + Len(v.arcs)
         /\ Len(Rest(s, p)) \in Nat /\ Prefix(w) + Len(v.arcs) <= Len(Rest(s, p))
<1> DEFINE rest == Rest(s, p)
           arcs == v.arcs
           n    == Len(arcs)
<1>1. Len(s) \in Nat /\ p \in 0 .. Len(s)
  OBVIOUS
<1>2. rest \in Seq(Arc) /\ Len(rest) = Len(s) - p /\ \A j \in 1 .. Len(s) - p : rest[j] = s[p + j]
  BY <1>1, RestType
<1>3. arcs \in Seq(Arc) /\ n \in Nat /\ (Prefix(w) = 1 => n <= UIntMax)
  BY DEF Canonical
<1>4. /\ Prefix(w) \in {0, 1} /\ Len(Encoded(w, arcs)) = Prefix(w) + n
      /\ Prefix(w) = 1 => Encoded(w, arcs)[1] = n
      /\ \A j \in 1 .. n : Encoded(w, arcs)[Prefix(w) + j] = arcs[j]
  BY <1>3, EncodedType
<1>5. /\ q - p = Prefix(w) + n
      /\ \A j \in 1 .. q - p : Encoded(w, arcs)[j] = s[p + j]
  BY <1>4, PieceType
<1>6. w.framing.form \in {"Fixed", "Implied", "Prefixed"}
  BY DEF Compiled
<1>7. Prefix(w) = IF w.framing.form = "Prefixed" THEN 1 ELSE 0
  BY DEF Prefix
<1>8. w.framing.form = "Fixed" => n = w.framing.length
  BY DEF Canonical
<1> HIDE DEF rest, arcs, n
<1>9. ValueArcs(w, rest) = n
  <2>1. CASE w.framing.form = "Fixed"
    BY <1>8, <2>1 DEF ValueArcs
  <2>2. CASE w.framing.form = "Prefixed"
    <3>1. 1 \in 1 .. q - p /\ 1 \in 1 .. Len(s) - p
      BY <1>1, <1>3, <1>5, <1>7, <2>2
    <3>2. rest[1] = n
      BY <1>2, <1>4, <1>5, <1>7, <2>2, <3>1
    <3> QED
      BY <2>2, <3>2 DEF ValueArcs
  <2>3. CASE w.framing.form = "Implied"
    <3>1. Len(rest) = n
      BY <1>1, <1>2, <1>3, <1>5, <1>7, <2>3
    <3> QED
      BY <2>3, <3>1 DEF ValueArcs
  <2> QED
    BY <1>6, <2>1, <2>2, <2>3
<1>10. Prefix(w) + n <= Len(rest) /\ Len(rest) \in Nat
  BY <1>1, <1>2, <1>3, <1>4, <1>5
<1>11. Taken(w, rest) = arcs
  <2>1. Taken(w, rest) = Piece(rest, Prefix(w), Prefix(w) + n)
    BY <1>9 DEF Taken, Piece
  <2>2. Prefix(w) + n \in 0 .. Len(rest) /\ Prefix(w) \in 0 .. Prefix(w) + n
    BY <1>3, <1>4, <1>10
  <2>3. /\ Taken(w, rest) \in Seq(Arc) /\ Len(Taken(w, rest)) = n
        /\ \A j \in 1 .. n : Taken(w, rest)[j] = rest[Prefix(w) + j]
    <3>1. PICK a, b : a = Prefix(w) /\ b = Prefix(w) + n
      OBVIOUS
    <3>2. b \in 0 .. Len(rest) /\ a \in 0 .. b
      BY <2>2, <3>1
    <3>3. /\ Piece(rest, a, b) \in Seq(Arc) /\ Len(Piece(rest, a, b)) = b - a
          /\ \A j \in 1 .. b - a : Piece(rest, a, b)[j] = rest[a + j]
      BY <1>2, <3>2, PieceType
    <3>4. b - a = n
      BY <1>3, <1>4, <3>1
    <3>5. Taken(w, rest) = Piece(rest, a, b)
      BY <2>1, <3>1
    <3> QED
      BY <3>1, <3>3, <3>4, <3>5
  <2>4. ASSUME NEW j \in 1 .. n PROVE Taken(w, rest)[j] = arcs[j]
    <3>1. /\ Prefix(w) + j \in 1 .. q - p
          /\ Prefix(w) + j \in 1 .. Len(s) - p
      BY <1>1, <1>3, <1>4, <1>5
    <3> QED
      BY <1>2, <1>4, <1>5, <2>3, <3>1
  <2>5. Len(Taken(w, rest)) = Len(arcs)
    BY <1>3, <1>4, <2>3 DEF n
  <2> QED
    BY <1>3, <2>3, <2>4, <2>5, SeqEqual DEF n
<1>12. q = p + Prefix(w) + n
  <2>1. PICK m : m = Prefix(w)
    OBVIOUS
  <2>2. m \in Int /\ n \in Int /\ p \in Int /\ q \in Int
    BY <1>3, <1>4, <2>1
  <2>3. q - p = m + n
    BY <1>5, <2>1
  <2>4. q = p + m + n
    BY <2>2, <2>3
  <2> QED
    BY <2>1, <2>4
<1> QED
  BY <1>9, <1>10, <1>11, <1>12 DEF rest, arcs, n

\* What a component takes without fault is a value, and what was taken its encoding.
LEMMA TakenIsCanonical ==
  ASSUME NEW w, Compiled(w), world.options.maxValue \in Nat,
         NEW rest \in Seq(Arc), FramingFault(w, rest) = None,
         ValueFault(w, Taken(w, rest)) = None
  PROVE  LET arcs == Taken(w, rest) IN
           /\ Decoded(w, arcs).arcs = arcs /\ Canonical(w, Decoded(w, arcs))
           /\ Prefix(w) + Len(arcs) \in 0 .. Len(rest)
           /\ Piece(rest, 0, Prefix(w) + Len(arcs)) = Encoded(w, arcs)
<1> DEFINE arcs == Taken(w, rest)
           n    == ValueArcs(w, rest)
           a    == Prefix(w)
<1>1. None \notin Faults /\ OctetMax \in Nat /\ UIntMax \in Nat /\ IntMin <= 0 /\ IntMin \in Int
      /\ IntMax \in Nat
  BY CodecAssumption, RangesAssumption
<1>2. /\ a \in {0, 1} /\ (a = 1 <=> w.framing.form = "Prefixed")
      /\ w.framing.form \in {"Fixed", "Implied", "Prefixed"} /\ w.framing.length \in Nat
      /\ Len(rest) \in Nat
  BY DEF Prefix, Compiled
<1>3. /\ ~ (Len(rest) < a)
      /\ ~ (~ IsInteger(w.kind) /\ n > world.options.maxValue)
      /\ ~ (Len(rest) < a + n)
  BY <1>1, Zenon DEF FramingFault, Faults
<1>4. n \in Nat /\ (a = 1 => n \in Arc)
  <2>1. CASE w.framing.form = "Prefixed"
    <3>1. 1 \in 1 .. Len(rest)
      BY <1>2, <1>3, <2>1
    <3>2. rest[1] \in Arc
      BY <3>1, ElementOfSeq
    <3> QED
      BY <2>1, <3>2, ArcType DEF ValueArcs
  <2>2. CASE w.framing.form = "Fixed"
    BY <1>2, <2>2 DEF ValueArcs
  <2>3. CASE w.framing.form = "Implied"
    BY <1>2, <2>3 DEF ValueArcs
  <2> QED
    BY <1>2, <2>1, <2>2, <2>3
<1>5. a + n \in 0 .. Len(rest) /\ a \in 0 .. a + n
  BY <1>2, <1>3, <1>4
<1>6. arcs = Piece(rest, a, a + n)
  BY DEF Taken, Piece
<1> HIDE DEF arcs, n, a
<1>7. arcs \in Seq(Arc) /\ Len(arcs) = n /\ \A j \in 1 .. n : arcs[j] = rest[a + j]
  <2>1. PICK b : b = a + n
    OBVIOUS
  <2>2. b \in 0 .. Len(rest) /\ a \in 0 .. b /\ b - a = n
    BY <1>2, <1>4, <1>5, <2>1
  <2>3. /\ Piece(rest, a, b) \in Seq(Arc) /\ Len(Piece(rest, a, b)) = b - a
        /\ \A j \in 1 .. b - a : Piece(rest, a, b)[j] = rest[a + j]
    BY <2>2, PieceType
  <2> QED
    BY <1>6, <2>1, <2>2, <2>3
<1>8. /\ HasOctets(w) => \A k \in DOMAIN arcs : ~ (arcs[k] > OctetMax)
      /\ w.kind = "Integer32" => ~ (arcs[1] > IntMax)
  BY <1>1, Zenon DEF ValueFault, Faults, arcs
<1>9. \A k \in 1 .. n : arcs[k] \in Arc
  BY <1>7, ElementOfSeq
<1>10. HasOctets(w) => \A k \in 1 .. n : arcs[k] \in 0 .. OctetMax /\ arcs[k] % (OctetMax + 1) = arcs[k]
  <2> SUFFICES ASSUME HasOctets(w), NEW k \in 1 .. n
               PROVE  arcs[k] \in 0 .. OctetMax /\ arcs[k] % (OctetMax + 1) = arcs[k]
    OBVIOUS
  <2>1. arcs[k] \in Nat
    BY <1>9, ArcType
  <2>2. k \in DOMAIN arcs
    BY <1>7, LenProperties
  <2>3. ~ (arcs[k] > OctetMax)
    BY <1>8, <2>2
  <2>4. arcs[k] \in 0 .. OctetMax
    BY <1>1, <2>1, <2>3
  <2> QED
    BY <1>1, <2>4
<1>11. Decoded(w, arcs).kind = w.kind /\ Decoded(w, arcs).arcs = arcs
  <2>1. HasOctets(w) => [k \in DOMAIN arcs |-> arcs[k] % (OctetMax + 1)] = arcs
    <3>1. DOMAIN arcs = 1 .. n /\ arcs = [k \in DOMAIN arcs |-> arcs[k]]
      BY <1>7, LenProperties
    <3> QED
      BY <1>10, <3>1
  <2> QED
    BY <2>1 DEF Decoded
<1>12. w.framing.form = "Fixed" => n = w.framing.length
  BY DEF ValueArcs, n
<1>13. Decoded(w, arcs) \in Value
  <2>1. Decoded(w, arcs) = [kind |-> w.kind, arcs |-> arcs]
    BY <1>11 DEF Decoded
  <2>2. ASSUME IsInteger(w.kind)
        PROVE  \E x \in Arc : arcs = <<x>> /\ (w.kind = "Integer32" => x \in IntMin .. IntMax)
    <3>1. n = 1
      BY <1>12, <2>2 DEF Compiled
    <3>2. arcs[1] \in Arc
      BY <1>9, <3>1
    <3>3. arcs = <<arcs[1]>>
      BY <1>7, <3>1
    <3>4. w.kind = "Integer32" => arcs[1] \in IntMin .. IntMax
      BY <1>1, <1>8, <3>2, ArcType
    <3> QED
      BY <3>2, <3>3, <3>4
  <2>3. HasOctets(w) => arcs \in [1 .. n -> 0 .. OctetMax]
    <3>1. DOMAIN arcs = 1 .. n /\ arcs = [k \in DOMAIN arcs |-> arcs[k]]
      BY <1>7, LenProperties
    <3> QED
      BY <1>10, <3>1
  <2>4. CASE w.kind = "Integer32"
    BY <2>1, <2>2, <2>4 DEF Value, IsInteger
  <2>5. CASE w.kind = "Counter32"
    BY <2>1, <2>2, <2>5 DEF Value, IsInteger
  <2>6. CASE w.kind = "IpAddress"
    <3>1. n = 4
      BY <1>12, <2>6 DEF Compiled
    <3> QED
      BY <2>1, <2>3, <2>6, <3>1 DEF Value, HasOctets
  <2>7. CASE w.kind = "OctetString"
    <3>1. arcs \in Seq(0 .. OctetMax)
      BY <1>4, <2>3, <2>7, FunctionIsSeq DEF HasOctets
    <3> QED
      BY <2>1, <2>7, <3>1 DEF Value
  <2>8. CASE w.kind = "ObjectIdentifier"
    BY <1>7, <2>1, <2>8 DEF Value
  <2> QED
    BY <2>4, <2>5, <2>6, <2>7, <2>8 DEF Compiled, Kinds
<1>14. Canonical(w, Decoded(w, arcs))
  <2>1. VariableLength(w) => ~ IsInteger(w.kind)
    BY DEF VariableLength, IsInteger
  <2>2. Prefix(w) = 1 => n <= UIntMax
    BY <1>4, ArcType DEF a
  <2> QED
    BY <1>3, <1>4, <1>7, <1>11, <1>12, <1>13, <2>1, <2>2 DEF Canonical
<1>15. Piece(rest, 0, a + n) = Encoded(w, arcs)
  <2>1. PICK b : b = a + n
    OBVIOUS
  <2>2. b \in 0 .. Len(rest) /\ 0 \in 0 .. b /\ b - 0 = b
    BY <1>5, <2>1
  <2>3. /\ Piece(rest, 0, b) \in Seq(Arc) /\ Len(Piece(rest, 0, b)) = b
        /\ \A j \in 1 .. b : Piece(rest, 0, b)[j] = rest[0 + j]
    BY <2>2, PieceType
  <2>4. /\ Encoded(w, arcs) \in Seq(Arc) /\ Len(Encoded(w, arcs)) = a + n
        /\ a = 1 => Encoded(w, arcs)[1] = n
        /\ \A j \in 1 .. n : Encoded(w, arcs)[a + j] = arcs[j]
    BY <1>4, <1>7, ArcType, EncodedType DEF a
  <2>5. a = 1 => n = rest[1]
    BY <1>2 DEF ValueArcs, n
  <2>6. ASSUME NEW j \in 1 .. b PROVE Piece(rest, 0, b)[j] = Encoded(w, arcs)[j]
    <3>1. CASE j <= a
      <4>1. j = 1 /\ a = 1
        BY <1>2, <3>1
      <4> QED
        BY <2>3, <2>4, <2>5, <4>1
    <3>2. CASE ~ (j <= a)
      <4>1. j - a \in 1 .. n /\ a + (j - a) = j /\ 0 + j = j
        BY <1>2, <1>4, <2>1, <3>2
      <4>2. Encoded(w, arcs)[j] = arcs[j - a] /\ arcs[j - a] = rest[j]
        BY <1>7, <2>4, <4>1
      <4> QED
        BY <2>3, <4>1, <4>2
    <3> QED
      BY <3>1, <3>2
  <2>7. Len(Piece(rest, 0, b)) = Len(Encoded(w, arcs))
    BY <2>1, <2>3, <2>4
  <2>8. Piece(rest, 0, b) = Encoded(w, arcs)
    BY <2>3, <2>4, <2>6, <2>7, SeqEqual
  <2> QED
    BY <2>1, <2>8
<1> QED
  BY <1>5, <1>7, <1>11, <1>14, <1>15 DEF arcs, a

\* A value that was encoded is found again, but for the limit that only splitting has.
LEMMA FindsTheValue ==
  ASSUME NEW w, Compiled(w), NEW v, Canonical(w, v), world.options.maxValue \in Nat,
         NEW rest \in Seq(Arc), ValueArcs(w, rest) = Len(v.arcs),
         Prefix(w) + Len(v.arcs) <= Len(rest)
  PROVE  /\ ValueFault(w, v.arcs) = None /\ Decoded(w, v.arcs) = v
         /\ \/ FramingFault(w, rest) = None
            \/ /\ FramingFault(w, rest) = "TooLong"
               /\ w.kind = "IpAddress" /\ world.options.maxValue < 4
<1>1. /\ v \in Value /\ v.kind = w.kind /\ v.arcs \in Seq(Arc) /\ Len(v.arcs) \in Nat
      /\ VariableLength(w) => Len(v.arcs) <= world.options.maxValue
      /\ w.kind \in Kinds /\ v = [kind |-> v.kind, arcs |-> v.arcs]
      /\ Len(rest) \in Nat /\ Prefix(w) \in {0, 1} /\ OctetMax \in Nat
  BY ValueFacts, CodecAssumption DEF Canonical, Compiled, Prefix
<1>2. HasOctets(w) => v.arcs \in Seq(0 .. OctetMax)
  <2>1. w.kind = "IpAddress" => v.arcs \in Seq(0 .. OctetMax)
    <3>1. w.kind = "IpAddress" => v.arcs \in [1 .. 4 -> 0 .. OctetMax]
      BY <1>1, ValueFacts
    <3> QED
      BY <3>1, FunctionIsSeq
  <2>2. w.kind = "OctetString" => v.arcs \in Seq(0 .. OctetMax)
    BY <1>1, ValueFacts
  <2> QED
    BY <2>1, <2>2 DEF HasOctets
<1>3. HasOctets(w) => \A k \in DOMAIN v.arcs : v.arcs[k] \in 0 .. OctetMax
  BY <1>2, LenProperties, ElementOfSeq
<1>4. w.kind = "Integer32" => v.arcs[1] <= IntMax
  <2>1. ASSUME w.kind = "Integer32" PROVE v.arcs[1] <= IntMax
    <3>1. PICK n \in IntMin .. IntMax : v.arcs = <<n>>
      BY <1>1, <2>1, ValueFacts
    <3> QED
      BY <3>1, RangesAssumption
  <2> QED
    BY <2>1
<1>5. ValueFault(w, v.arcs) = None
  <2>1. ~ (HasOctets(w) /\ \E k \in DOMAIN v.arcs : v.arcs[k] > OctetMax)
    BY <1>1, <1>3
  <2>2. ~ (w.kind = "Integer32" /\ v.arcs[1] > IntMax)
    <3>1. w.kind = "Integer32" => v.arcs[1] \in Int /\ IntMax \in Int
      BY <1>1, ValueLength, RangesAssumption DEF IsInteger
    <3> QED
      BY <1>4, <3>1
  <2> QED
    BY <2>1, <2>2, Zenon DEF ValueFault
<1>6. Decoded(w, v.arcs) = v
  <2>1. HasOctets(w) => [k \in DOMAIN v.arcs |-> v.arcs[k] % (OctetMax + 1)] = v.arcs
    <3> SUFFICES ASSUME HasOctets(w)
                 PROVE  [k \in DOMAIN v.arcs |-> v.arcs[k] % (OctetMax + 1)] = v.arcs
      OBVIOUS
    <3>1. DOMAIN v.arcs = 1 .. Len(v.arcs) /\ v.arcs = [k \in DOMAIN v.arcs |-> v.arcs[k]]
      BY <1>1, LenProperties
    <3>2. ASSUME NEW k \in DOMAIN v.arcs
          PROVE  v.arcs[k] % (OctetMax + 1) = v.arcs[k]
      <4>1. v.arcs[k] \in 0 .. OctetMax
        BY <1>3
      <4> QED
        BY <4>1, ByteOfOctet
    <3> QED
      BY <3>1, <3>2
  <2>2. Decoded(w, v.arcs) = [kind |-> w.kind, arcs |-> v.arcs]
    BY <2>1 DEF Decoded
  <2> QED
    BY <1>1, <2>2
<1>7. ~ (Len(rest) < Prefix(w)) /\ ~ (Len(rest) < Prefix(w) + Len(v.arcs))
  BY <1>1
<1>8. ~ IsInteger(w.kind) /\ Len(v.arcs) > world.options.maxValue =>
        w.kind = "IpAddress" /\ world.options.maxValue < 4
  <2>1. w.kind = "IpAddress" => Len(v.arcs) = 4
    BY <1>1, ValueLength
  <2>2. IsInteger(w.kind) \/ VariableLength(w) \/ w.kind = "IpAddress"
    BY <1>1 DEF IsInteger, VariableLength, Kinds
  <2> SUFFICES ASSUME ~ IsInteger(w.kind), Len(v.arcs) > world.options.maxValue
               PROVE  w.kind = "IpAddress" /\ world.options.maxValue < 4
    OBVIOUS
  <2>3. w.kind = "IpAddress"
    <3>1. ~ VariableLength(w)
      <4>1. ~ (Len(v.arcs) <= world.options.maxValue)
        BY <1>1
      <4> QED
        BY <1>1, <4>1
    <3> QED
      BY <2>2, <3>1
  <2> QED
    BY <2>1, <2>3
<1> QED
  BY <1>5, <1>6, <1>7, <1>8, Zenon DEF FramingFault

------------------------------------------------------------------------------
(* The invariant. *)

Wires == {Wire(d) : d \in Declaration}

\* Where the first k components end.
End(k) == IF k = 0 THEN 0 ELSE arcRanges[k][2]

Typed ==
  /\ world \in World /\ phase \in {"compile", "decode", "encode", "done"} /\ i \in Nat \ {0}
  /\ schema \in Seq(Wires) /\ Len(schema) <= Len(world.declared)
  /\ suffix \in Seq(Arc) /\ position \in Nat /\ values \in Seq(Value)
  /\ arcRanges \in Seq(Nat \X Nat)

\* How far the operation is.
Stage ==
  /\ phase # "done" => failure = NoFailure
  /\ \A k \in 1 .. Len(schema) :
       Compiled(schema[k]) /\ (schema[k].framing.form = "Implied" => k = Len(world.declared))
  /\ phase = "compile" => /\ i = Len(schema) + 1
                          /\ suffix = <<>> /\ position = 0 /\ values = <<>>
                          /\ arcRanges = <<>> /\ reported = {}
  /\ phase \in {"decode", "encode"} =>
       Len(schema) = Len(world.declared) /\ i \in 1 .. Len(schema) + 1
  /\ phase = "decode" => Len(values) = i - 1
  /\ phase = "encode" => i - 1 <= Len(values)

\* The values are those of the suffix s up to the position.
Split(s) ==
  /\ Len(arcRanges) = Len(values) /\ Len(values) <= Len(schema)
  /\ reported \subseteq 1 .. Len(values)
  /\ position = End(Len(values)) /\ position \in 0 .. Len(s)
  /\ \A k \in 1 .. Len(values) :
       /\ arcRanges[k] = <<End(k - 1), End(k)>>
       /\ End(k) \in 0 .. Len(s) /\ End(k - 1) \in 0 .. End(k)
       /\ Piece(s, End(k - 1), End(k)) = Encoded(schema[k], values[k].arcs)
       /\ Canonical(schema[k], values[k])
       /\ k \notin reported => ~ Violates(schema[k], values[k].arcs)

\* The suffix s is what the first n values of vs encode to; component k ends at e[k].
Joined(e, s, vs, n) ==
  /\ e \in [0 .. n -> 0 .. Len(s)] /\ e[0] = 0 /\ e[n] = Len(s)
  /\ \A k \in 1 .. n :
       /\ e[k - 1] \in 0 .. e[k]
       /\ Piece(s, e[k - 1], e[k]) = Encoded(schema[k], vs[k].arcs)
       /\ Canonical(schema[k], vs[k]) /\ ~ Violates(schema[k], vs[k].arcs)

Splitting == phase = "decode" \/ failure["decode"].kind # None => Split(suffix)

Joining == phase = "encode" => /\ Len(suffix) <= world.options.maxSuffix
                               /\ \E e : Joined(e, suffix, values, i - 1)

\* The first operation works on its input.
Source ==
  /\ phase = "encode" /\ world.first = "encode" =>
       values = world.values /\ position = 0 /\ arcRanges = <<>> /\ reported = {}
  /\ phase = "decode" /\ world.first = "decode" =>
       suffix = world.suffix /\ (i > 1 => Len(suffix) <= world.options.maxSuffix)

\* The values of a suffix are joined again up to where component i begins.
Rejoining ==
  phase = "encode" /\ world.first = "decode" =>
    /\ Split(world.suffix) /\ Len(values) = Len(schema)
    /\ position = Len(world.suffix) /\ Len(world.suffix) <= world.options.maxSuffix
    /\ suffix = Piece(world.suffix, 0, End(i - 1))

\* The encoding of a row is split again where its values were joined.
Resplitting ==
  phase = "decode" /\ world.first = "encode" =>
    /\ Len(world.values) = Len(schema) /\ Len(suffix) <= world.options.maxSuffix
    /\ reported = {} /\ \A k \in 1 .. i - 1 : values[k] = world.values[k]
    /\ \E e : /\ Joined(e, suffix, world.values, Len(schema))
              /\ \A k \in 0 .. i - 1 : End(k) = e[k]

CInv == /\ Typed /\ Stage /\ Splitting /\ Joining /\ Source /\ Rejoining /\ Resplitting
        /\ RoundTrip

LEMMA WorldFacts ==
  ASSUME world \in World
  PROVE  /\ world.declared \in Seq(Declaration) /\ Len(world.declared) \in Nat
         /\ world.suffix \in Seq(Arc) /\ world.values \in Seq(Value)
         /\ world.first \in {"decode", "encode"}
         /\ world.options.maxValue \in Nat /\ world.options.maxSuffix \in Nat
         /\ world.options.maxComponents \in Nat
BY DEF World, Options

LEMMA FreshFailure ==
  /\ \A op \in {"compile", "decode", "encode"} : NoFailure[op].kind = None
  /\ \A op, other \in {"compile", "decode", "encode"} : \A kind, from :
       LET after == [NoFailure EXCEPT ![op] =
                       [kind |-> kind, component |-> i, remaining |-> from]]
       IN after[other].kind = (IF other = op THEN kind ELSE None)
          /\ after[op].component = i /\ after[op].remaining = from
BY DEF NoFailure

\* What a failure records.
LEMMA AfterFailure ==
  ASSUME failure = NoFailure, NEW op \in {"compile", "decode", "encode"}, NEW kind, NEW from,
         Fail(op, kind, from)
  PROVE  /\ phase' = "done" /\ failure'[op].kind = kind /\ failure'[op].component = i
         /\ failure'[op].remaining = from
         /\ \A other \in {"compile", "decode", "encode"} \ {op} : failure'[other].kind = None
<1>1. /\ phase' = "done"
      /\ failure' = [NoFailure EXCEPT ![op] = [kind |-> kind, component |-> i, remaining |-> from]]
  BY DEF Fail
<1> QED
  BY <1>1 DEF NoFailure

LEMMA NoneIsNoFault == None \notin Nat /\ \A f \in Faults : f # None
BY CodecAssumption

\* A suffix stays split as long as nothing is taken from it.
LEMMA SplitStays ==
  ASSUME NEW s, Split(s), UNCHANGED <<world, schema, position, values, arcRanges, reported>>
  PROVE  Split(s)'
BY DEF Split, End, Canonical, VariableLength, Prefix

LEMMA JoinedStays ==
  ASSUME NEW e, NEW s, NEW vs, NEW n, Joined(e, s, vs, n), UNCHANGED <<world, schema>>
  PROVE  Joined(e, s, vs, n)'
BY DEF Joined, Canonical, VariableLength, Prefix

------------------------------------------------------------------------------
(* Compiling. *)

LEMMA InitHolds == Init => CInv
<1> SUFFICES ASSUME Init PROVE CInv
  OBVIOUS
<1>1. world \in World
  <2>1. PICK c \in Clauses, o \in Limits :
          \/ \E s \in Suffixes(c) :
               world = [declared |-> c, options |-> o, first |-> "decode",
                        suffix |-> s, values |-> <<>>]
          \/ \E r \in Rows(c) :
               world = [declared |-> c, options |-> o, first |-> "encode",
                        suffix |-> <<>>, values |-> r]
    BY DEF Init
  <2>2. /\ c \in Seq(Declaration) /\ o \in Options
        /\ Suffixes(c) \subseteq Seq(Arc) /\ Rows(c) \subseteq Seq(Value)
    BY CodecAssumption
  <2>3. <<>> \in Seq(Arc) /\ <<>> \in Seq(Value)
    OBVIOUS
  <2>4. CASE \E s \in Suffixes(c) :
               world = [declared |-> c, options |-> o, first |-> "decode",
                        suffix |-> s, values |-> <<>>]
    BY <2>2, <2>3, <2>4 DEF World
  <2>5. CASE \E r \in Rows(c) :
               world = [declared |-> c, options |-> o, first |-> "encode",
                        suffix |-> <<>>, values |-> r]
    BY <2>2, <2>3, <2>5 DEF World
  <2> QED
    BY <2>1, <2>4, <2>5
<1>2. /\ phase = "compile" /\ schema = <<>> /\ i = 1 /\ suffix = <<>> /\ position = 0
      /\ values = <<>> /\ arcRanges = <<>> /\ reported = {} /\ failure = NoFailure
  BY DEF Init
<1>3. Typed
  BY <1>1, <1>2, WorldFacts DEF Typed
<1>4. Stage
  BY <1>2 DEF Stage
<1>5. failure["decode"].kind = None
  BY <1>2, FreshFailure
<1> QED
  BY <1>2, <1>3, <1>4, <1>5
  DEF CInv, Splitting, Joining, Source, Rejoining, Resplitting, RoundTrip

LEMMA CompileStep == CInv /\ CompileComponent => CInv'
<1> SUFFICES ASSUME CInv, CompileComponent PROVE CInv'
  OBVIOUS
<1>1. /\ phase = "compile" /\ i = Len(schema) + 1 /\ failure = NoFailure /\ world' = world
      /\ i <= Len(world.declared) /\ world \in World /\ schema \in Seq(Wires)
      /\ UNCHANGED <<suffix, position, values, arcRanges, reported>>
      /\ suffix = <<>> /\ position = 0 /\ values = <<>> /\ arcRanges = <<>> /\ reported = {}
      /\ Len(schema) \in Nat
  BY DEF CInv, Typed, Stage, CompileComponent
<1>2. PICK d : d = world.declared[i]
  OBVIOUS
<1>3. PICK last \in BOOLEAN : last <=> i = Len(world.declared)
  OBVIOUS
<1>4. d \in Declaration
  BY <1>1, <1>2, WorldFacts, ElementOfSeq
<1>5. failure["decode"].kind = None /\ failure["compile"].kind = None
  BY <1>1, FreshFailure
<1>6. CASE CompileFault(d, i = Len(world.declared)) # None
  <2>1. Fail("compile", CompileFault(d, i = Len(world.declared)), 0) /\ UNCHANGED <<schema, i>>
    BY <1>2, <1>6 DEF CompileComponent
  <2>2. phase' = "done" /\ failure'["compile"].kind # None /\ failure'["decode"].kind = None
    BY <1>1, <1>6, <2>1, AfterFailure
  <2>3. Typed'
    BY <1>1, <2>1, <2>2 DEF CInv, Typed
  <2>4. Stage'
    BY <1>1, <2>1, <2>2 DEF CInv, Stage
  <2> QED
    BY <1>1, <2>1, <2>2, <2>3, <2>4
    DEF CInv, Splitting, Joining, Source, Rejoining, Resplitting, RoundTrip
<1>7. CASE CompileFault(d, i = Len(world.declared)) = None
  <2>1. schema' = Append(schema, Wire(d)) /\ i' = i + 1 /\ UNCHANGED <<phase, failure>>
    BY <1>2, <1>7 DEF CompileComponent
  <2>2. Compiled(Wire(d)) /\ (Wire(d).framing.form = "Implied" => i = Len(world.declared))
    BY <1>3, <1>4, <1>7, WireIsCompiled
  <2>3. Wire(d) \in Wires
    BY <1>4 DEF Wires
  <2>4. /\ schema' \in Seq(Wires) /\ Len(schema') = Len(schema) + 1
        /\ \A k \in 1 .. Len(schema) : schema'[k] = schema[k]
        /\ schema'[Len(schema) + 1] = Wire(d)
    BY <1>1, <2>1, <2>3, AppendProperties
  <2>5. Typed'
    BY <1>1, <2>1, <2>4, WorldFacts DEF CInv, Typed
  <2>6. \A k \in 1 .. Len(schema') :
          Compiled(schema'[k]) /\ (schema'[k].framing.form = "Implied" => k = Len(world.declared))
    <3>1. ASSUME NEW k \in 1 .. Len(schema')
          PROVE  k \in 1 .. Len(schema) \/ k = Len(schema) + 1
      BY <1>1, <2>4
    <3> QED
      BY <1>1, <2>2, <2>4, <3>1 DEF CInv, Stage
  <2>7. Stage'
    BY <1>1, <2>1, <2>4, <2>6 DEF Stage, Compiled, Constraint
  <2> QED
    BY <1>1, <1>5, <2>1, <2>5, <2>7
    DEF CInv, Splitting, Joining, Source, Rejoining, Resplitting, RoundTrip
<1> QED
  BY <1>6, <1>7

LEMMA StartStep == CInv /\ StartFirst => CInv'
<1> SUFFICES ASSUME CInv, StartFirst PROVE CInv'
  OBVIOUS
<1>1. /\ phase = "compile" /\ i = Len(schema) + 1 /\ failure = NoFailure /\ world' = world
      /\ i > Len(world.declared) /\ world \in World /\ schema \in Seq(Wires)
      /\ UNCHANGED <<schema, position, arcRanges, reported>>
      /\ suffix = <<>> /\ position = 0 /\ values = <<>> /\ arcRanges = <<>> /\ reported = {}
      /\ Len(schema) \in Nat /\ Len(schema) <= Len(world.declared)
  BY DEF CInv, Typed, Stage, StartFirst
<1>2. Len(schema) = Len(world.declared)
  BY <1>1, WorldFacts
<1>3. CASE world.options.bound /\ minimum_suffix_arcs > world.options.maxSuffix
  <2>1. Fail("compile", "MinimumSuffixTooLong", 0) /\ UNCHANGED <<i, suffix, values>>
    BY <1>3 DEF StartFirst
  <2>2. phase' = "done" /\ failure'["compile"].kind # None /\ failure'["decode"].kind = None
    BY <1>1, <2>1, AfterFailure, NoneIsNoFault DEF Faults
  <2>3. Typed'
    BY <1>1, <2>1, <2>2 DEF CInv, Typed
  <2>4. Stage'
    BY <1>1, <2>1, <2>2 DEF CInv, Stage
  <2> QED
    BY <1>1, <2>1, <2>2, <2>3, <2>4
    DEF CInv, Splitting, Joining, Source, Rejoining, Resplitting, RoundTrip
<1>4. CASE ~ (world.options.bound /\ minimum_suffix_arcs > world.options.maxSuffix)
  <2>1. /\ phase' = world.first /\ i' = 1 /\ failure' = failure
        /\ suffix' = IF world.first = "decode" THEN world.suffix ELSE <<>>
        /\ values' = IF world.first = "decode" THEN <<>> ELSE world.values
    BY <1>4 DEF StartFirst
  <2>2. Typed'
    BY <1>1, <2>1, WorldFacts DEF CInv, Typed
  <2>3. world.first \in {"decode", "encode"} /\ failure["decode"].kind = None
    BY <1>1, WorldFacts, FreshFailure
  <2>4. Stage'
    <3>1. world.first = "decode" => Len(values') = 0
      BY <2>1
    <3>2. Len(values') \in Nat
      BY <2>2 DEF Typed
    <3> QED
      BY <1>1, <1>2, <2>1, <2>3, <3>1, <3>2 DEF CInv, Stage, Compiled, Constraint
  <2>5. CASE world.first = "decode"
    <3>1. Split(suffix)'
      <4>1. PICK s : s = suffix'
        OBVIOUS
      <4>2. Split(s)'
        <5>1. s \in Seq(Arc) /\ position' = 0 /\ values' = <<>> /\ arcRanges' = <<>>
              /\ reported' = {} /\ schema' \in Seq(Wires)
          BY <1>1, <2>1, <2>5, <4>1, WorldFacts
        <5>2. Len(s) \in Nat /\ Len(schema') \in Nat
          BY <5>1
        <5> QED
          BY <5>1, <5>2 DEF Split, End
      <4> QED
        BY <4>1, <4>2 DEF Split
    <3> QED
      BY <1>1, <2>1, <2>2, <2>3, <2>4, <2>5, <3>1
      DEF CInv, Splitting, Joining, Source, Rejoining, Resplitting, RoundTrip
  <2>6. CASE world.first = "encode"
    <3>1. PICK e : e = [k \in 0 .. 0 |-> 0]
      OBVIOUS
    <3>2. suffix' = <<>> /\ i' - 1 = 0 /\ Len(suffix') = 0
      BY <2>1, <2>6
    <3>3. Joined(e, suffix, values, i - 1)'
      <4>1. e \in [0 .. 0 -> 0 .. 0] /\ e[0] = 0
        BY <3>1
      <4> QED
        BY <3>2, <4>1 DEF Joined
    <3>4. Joining'
      BY <1>1, <3>2, <3>3, WorldFacts DEF Joining
    <3> QED
      BY <1>1, <2>1, <2>2, <2>3, <2>4, <2>6, <3>4
      DEF CInv, Splitting, Source, Rejoining, Resplitting, RoundTrip
  <2> QED
    BY <2>3, <2>5, <2>6
<1> QED
  BY <1>3, <1>4

------------------------------------------------------------------------------
(* Splitting. *)

\* A suffix that a row was joined to is not too long, so that what it is refused for is
\* the number of components.
LEMMA RefuseStep == CInv /\ RefuseSuffix => CInv'
<1> SUFFICES ASSUME CInv, RefuseSuffix PROVE CInv'
  OBVIOUS
<1>1. /\ phase = "decode" /\ i = 1 /\ failure = NoFailure /\ world \in World
      /\ Len(suffix) > world.options.maxSuffix \/ Len(schema) > world.options.maxComponents
      /\ Fail("decode", "Limit", 0)
      /\ UNCHANGED <<world, schema, i, suffix, position, values, arcRanges, reported>>
      /\ suffix \in Seq(Arc) /\ schema \in Seq(Wires)
  BY DEF CInv, Typed, Stage, RefuseSuffix, DecodeLimits
<1>2. /\ phase' = "done" /\ failure'["decode"].kind = "Limit"
      /\ failure'["compile"].kind = None /\ failure'["encode"].kind = None
  BY <1>1, AfterFailure
<1>3. "Limit" # None /\ world.first \in {"decode", "encode"}
  BY <1>1, NoneIsNoFault, WorldFacts DEF Faults
<1>4. Split(suffix)
  BY <1>1 DEF CInv, Splitting
<1>5. Splitting'
  BY <1>1, <1>4, SplitStays DEF Splitting
<1>6. RoundTrip'
  <2>1. world.first = "encode" => Len(schema) > world.options.maxComponents
    <3>1. world.first = "encode" => Len(suffix) <= world.options.maxSuffix
      BY <1>1 DEF CInv, Resplitting
    <3>2. Len(suffix) \in Nat /\ world.options.maxSuffix \in Nat
      BY <1>1, WorldFacts
    <3> QED
      BY <1>1, <3>1, <3>2
  <2> QED
    BY <1>1, <1>2, <1>3, <2>1 DEF RoundTrip
<1>7. Typed' /\ Stage'
  BY <1>1, <1>2 DEF CInv, Typed, Stage, Compiled, Constraint
<1> QED
  BY <1>1, <1>2, <1>5, <1>6, <1>7
  DEF CInv, Joining, Source, Rejoining, Resplitting

\* What is found at the next component of a suffix that a row was joined to.
LEMMA FindsTheNext ==
  ASSUME Typed, Stage, Splitting, Resplitting, phase = "decode", world.first = "encode",
         i <= Len(schema)
  PROVE  LET w == schema[i]
             v == world.values[i]
         IN /\ Taken(w, Remaining) = v.arcs /\ ValueFault(w, v.arcs) = None
            /\ Decoded(w, v.arcs) = v /\ ~ Violates(w, v.arcs)
            /\ \/ FramingFault(w, Remaining) = None
               \/ /\ FramingFault(w, Remaining) = "TooLong"
                  /\ w.kind = "IpAddress" /\ world.options.maxValue < 4
            /\ \E e : /\ Joined(e, suffix, world.values, Len(schema))
                      /\ \A k \in 0 .. i - 1 : End(k) = e[k]
                      /\ e[i] = position + Prefix(w) + Len(v.arcs)
<1> DEFINE w == schema[i]
           v == world.values[i]
<1>1. /\ world \in World /\ schema \in Seq(Wires) /\ suffix \in Seq(Arc) /\ Len(schema) \in Nat
      /\ Len(suffix) \in Nat /\ i \in Nat \ {0} /\ Len(values) = i - 1
      /\ world.options.maxValue \in Nat /\ Len(schema) = Len(world.declared)
  BY WorldFacts DEF Typed, Stage
<1>2. Compiled(w) /\ (w.framing.form = "Implied" => i = Len(schema))
  BY <1>1 DEF Stage
<1>3. PICK e : /\ Joined(e, suffix, world.values, Len(schema))
               /\ \A k \in 0 .. i - 1 : End(k) = e[k]
  BY DEF Resplitting
<1>4. /\ e[i - 1] \in 0 .. e[i] /\ e[i] \in 0 .. Len(suffix) /\ e[Len(schema)] = Len(suffix)
      /\ Piece(suffix, e[i - 1], e[i]) = Encoded(w, v.arcs)
      /\ Canonical(w, v) /\ ~ Violates(w, v.arcs)
  <2>1. i \in 1 .. Len(schema) /\ i \in 0 .. Len(schema)
    BY <1>1
  <2> QED
    BY <1>3, <2>1 DEF Joined
<1>5. position = e[i - 1]
  <2>1. position = End(i - 1)
    BY <1>1 DEF Splitting, Split
  <2>2. i - 1 \in 0 .. i - 1
    BY <1>1
  <2> QED
    BY <1>3, <2>1, <2>2
<1>6. w.framing.form = "Implied" => e[i] = Len(suffix)
  BY <1>2, <1>4
<1>7. Remaining = Rest(suffix, e[i - 1])
  BY <1>5 DEF Remaining, Rest
<1> HIDE DEF w, v
<1>8. /\ ValueArcs(w, Remaining) = Len(v.arcs) /\ Taken(w, Remaining) = v.arcs
      /\ e[i] = e[i - 1] + Prefix(w) + Len(v.arcs)
      /\ Prefix(w) + Len(v.arcs) <= Len(Remaining)
  BY <1>1, <1>2, <1>4, <1>6, <1>7, TakesTheValue
<1>9. Remaining \in Seq(Arc)
  <2>1. e[i - 1] \in 0 .. Len(suffix)
    BY <1>1, <1>4
  <2> QED
    BY <1>1, <1>7, <2>1, RestType
<1>10. /\ ValueFault(w, v.arcs) = None /\ Decoded(w, v.arcs) = v
       /\ \/ FramingFault(w, Remaining) = None
          \/ /\ FramingFault(w, Remaining) = "TooLong"
             /\ w.kind = "IpAddress" /\ world.options.maxValue < 4
  BY <1>1, <1>2, <1>4, <1>8, <1>9, FindsTheValue
<1> QED
  BY <1>3, <1>4, <1>5, <1>8, <1>10 DEF w, v

\* What is wrong with a component, and what it is otherwise taken for.
Wrong(w, rest) ==
  IF FramingFault(w, rest) # None THEN FramingFault(w, rest)
  ELSE IF ValueFault(w, Taken(w, rest)) # None THEN ValueFault(w, Taken(w, rest))
  ELSE IF Violates(w, Taken(w, rest)) /\ world.options.enforce THEN "ConstraintViolation"
  ELSE None

LEMMA DecodeCases ==
  ASSUME DecodeComponent
  PROVE  LET w    == schema[i]
             arcs == Taken(w, Remaining)
             end  == position + Prefix(w) + Len(arcs)
         IN /\ phase = "decode" /\ ~ DecodeLimits /\ i <= Len(schema)
            /\ UNCHANGED <<world, schema, suffix>>
            /\ Wrong(w, Remaining) # None =>
                 /\ Fail("decode", Wrong(w, Remaining), position)
                 /\ UNCHANGED <<i, position, values, arcRanges, reported>>
            /\ Wrong(w, Remaining) = None =>
                 /\ FramingFault(w, Remaining) = None /\ ValueFault(w, arcs) = None
                 /\ i' = i + 1 /\ position' = end
                 /\ values' = Append(values, Decoded(w, arcs))
                 /\ arcRanges' = Append(arcRanges, <<position, end>>)
                 /\ reported' = reported \cup (IF Violates(w, arcs) THEN {i} ELSE {})
                 /\ UNCHANGED <<phase, failure>>
<1>1. "ConstraintViolation" # None
  BY NoneIsNoFault DEF Faults
<1> QED
  BY <1>1, Zenon DEF DecodeComponent, Wrong

\* A component that is refused; one of a suffix that a row was joined to is so only for
\* the length of an IpAddress.
LEMMA DecodeFails ==
  ASSUME CInv, DecodeComponent, Wrong(schema[i], Remaining) # None
  PROVE  CInv'
<1> DEFINE w == schema[i]
           kind == Wrong(w, Remaining)
<1>1. /\ phase = "decode" /\ i <= Len(schema) /\ failure = NoFailure /\ world \in World
      /\ Fail("decode", kind, position) /\ kind # None
      /\ UNCHANGED <<world, schema, i, suffix, position, values, arcRanges, reported>>
  BY DecodeCases DEF CInv, Stage, Typed
<1> HIDE DEF kind
<1>2. /\ phase' = "done" /\ failure'["decode"].kind = kind /\ failure'["decode"].component = i
      /\ failure'["compile"].kind = None /\ failure'["encode"].kind = None
  BY <1>1, AfterFailure
<1>3. world.first \in {"decode", "encode"}
  BY <1>1, WorldFacts
<1>4. Split(suffix)
  BY <1>1 DEF CInv, Splitting
<1>5. Splitting'
  BY <1>1, <1>4, SplitStays DEF Splitting
<1>6. RoundTrip'
  <2>1. world.first = "encode" =>
          kind = "TooLong" /\ world.options.maxValue < 4 /\ w.kind = "IpAddress"
    <3> SUFFICES ASSUME world.first = "encode"
                 PROVE  kind = "TooLong" /\ world.options.maxValue < 4 /\ w.kind = "IpAddress"
      OBVIOUS
    <3>1. PICK v : v = world.values[i]
      OBVIOUS
    <3>2. /\ Taken(w, Remaining) = v.arcs /\ ValueFault(w, v.arcs) = None
          /\ ~ Violates(w, v.arcs)
          /\ \/ FramingFault(w, Remaining) = None
             \/ /\ FramingFault(w, Remaining) = "TooLong"
                /\ w.kind = "IpAddress" /\ world.options.maxValue < 4
      BY <1>1, <3>1, FindsTheNext DEF CInv
    <3> QED
      BY <1>1, <3>2, Zenon DEF kind, Wrong
  <2> QED
    BY <1>1, <1>2, <1>3, <2>1 DEF RoundTrip
<1>7. Typed' /\ Stage'
  BY <1>1, <1>2 DEF CInv, Typed, Stage
<1> QED
  BY <1>1, <1>2, <1>5, <1>6, <1>7
  DEF CInv, Joining, Source, Rejoining, Resplitting

\* The beginning of what is left of s is a piece of s.
LEMMA PieceOfRest ==
  ASSUME NEW s \in Seq(Arc), NEW p \in 0 .. Len(s), NEW b \in 0 .. Len(s) - p
  PROVE  Piece(Rest(s, p), 0, b) = Piece(s, p, p + b)
<1>1. Len(s) \in Nat /\ p \in Nat /\ b \in Nat
  OBVIOUS
<1>2. /\ Rest(s, p) \in Seq(Arc) /\ Len(Rest(s, p)) = Len(s) - p
      /\ \A j \in 1 .. Len(s) - p : Rest(s, p)[j] = s[p + j]
  BY RestType
<1>3. PICK q : q = p + b
  OBVIOUS
<1>4. q \in 0 .. Len(s) /\ p \in 0 .. q /\ q - p = b /\ b - 0 = b
      /\ b \in 0 .. Len(Rest(s, p)) /\ 0 \in 0 .. b
  BY <1>1, <1>2, <1>3
<1>5. /\ Piece(s, p, q) \in Seq(Arc) /\ Len(Piece(s, p, q)) = b
      /\ \A j \in 1 .. b : Piece(s, p, q)[j] = s[p + j]
  BY <1>4, PieceType
<1>6. /\ Piece(Rest(s, p), 0, b) \in Seq(Arc) /\ Len(Piece(Rest(s, p), 0, b)) = b
      /\ \A j \in 1 .. b : Piece(Rest(s, p), 0, b)[j] = Rest(s, p)[0 + j]
  <2>1. PICK r : r = Rest(s, p)
    OBVIOUS
  <2>2. r \in Seq(Arc) /\ b \in 0 .. Len(r) /\ 0 \in 0 .. b
    BY <1>2, <1>4, <2>1
  <2>3. /\ Piece(r, 0, b) \in Seq(Arc) /\ Len(Piece(r, 0, b)) = b - 0
        /\ \A j \in 1 .. b - 0 : Piece(r, 0, b)[j] = r[0 + j]
    BY <2>2, PieceType
  <2> QED
    BY <1>4, <2>1, <2>3
<1>7. ASSUME NEW j \in 1 .. b PROVE Piece(Rest(s, p), 0, b)[j] = Piece(s, p, q)[j]
  <2>1. 0 + j = j /\ j \in 1 .. Len(s) - p
    BY <1>1
  <2> QED
    BY <1>2, <1>5, <1>6, <2>1
<1> QED
  BY <1>3, <1>5, <1>6, <1>7, SeqEqual

\* A component taken extends what is split.
LEMMA SplitGrows ==
  ASSUME Typed, Stage, Split(suffix), DecodeComponent, Wrong(schema[i], Remaining) = None,
         Len(values) = i - 1
  PROVE  /\ Split(suffix)'
         /\ \A k \in 0 .. i - 1 : End(k)' = End(k)
         /\ \A k : k = i => End(k)' = position + Prefix(schema[i])
                                     + Len(Taken(schema[i], Remaining))
         /\ Len(values') = i /\ \A k \in 1 .. i - 1 : values'[k] = values[k]
         /\ values'[i] = Decoded(schema[i], Taken(schema[i], Remaining))
         /\ values' \in Seq(Value) /\ arcRanges' \in Seq(Nat \X Nat)
<1> DEFINE w    == schema[i]
           rest == Remaining
           arcs == Taken(w, rest)
           end  == position + Prefix(w) + Len(arcs)
           v    == Decoded(w, arcs)
<1>1. /\ i \in Nat \ {0} /\ i <= Len(schema) /\ Len(schema) \in Nat /\ Len(values) = i - 1
      /\ values \in Seq(Value) /\ arcRanges \in Seq(Nat \X Nat) /\ position \in Nat
      /\ suffix \in Seq(Arc) /\ Len(suffix) \in Nat /\ world.options.maxValue \in Nat
  <2>1. i <= Len(schema)
    BY DecodeCases
  <2>2. world.options.maxValue \in Nat
    BY WorldFacts DEF Typed
  <2>3. /\ i \in Nat \ {0} /\ values \in Seq(Value) /\ arcRanges \in Seq(Nat \X Nat)
        /\ position \in Nat /\ suffix \in Seq(Arc) /\ schema \in Seq(Wires)
    BY DEF Typed
  <2> QED
    BY <2>1, <2>2, <2>3
<1>2. /\ UNCHANGED <<world, schema, suffix>>
      /\ FramingFault(w, rest) = None /\ ValueFault(w, arcs) = None
      /\ position' = end /\ values' = Append(values, v)
      /\ arcRanges' = Append(arcRanges, <<position, end>>)
      /\ reported' = reported \cup (IF Violates(w, arcs) THEN {i} ELSE {})
  BY DecodeCases
<1>3. Compiled(w)
  BY <1>1 DEF Stage
<1>4. position = End(i - 1) /\ position \in 0 .. Len(suffix) /\ Len(arcRanges) = i - 1
  BY <1>1 DEF Split
<1>5. /\ rest \in Seq(Arc) /\ Len(rest) = Len(suffix) - position /\ rest = Rest(suffix, position)
  <2>1. rest = Rest(suffix, position)
    BY DEF Remaining, Rest
  <2> QED
    BY <1>1, <1>4, <2>1, RestType
<1> HIDE DEF w, rest
<1>6. /\ v.arcs = arcs /\ Canonical(w, v)
      /\ Prefix(w) + Len(arcs) \in 0 .. Len(rest)
      /\ Piece(rest, 0, Prefix(w) + Len(arcs)) = Encoded(w, arcs)
  BY <1>1, <1>2, <1>3, <1>5, TakenIsCanonical
<1>7. Prefix(w) \in {0, 1} /\ Len(arcs) \in Nat
  BY <1>6 DEF Prefix, Canonical
<1>8. end \in 0 .. Len(suffix) /\ position \in 0 .. end /\ end \in Nat
  BY <1>1, <1>5, <1>6, <1>7
<1>9. Piece(suffix, position, end) = Encoded(w, arcs)
  <2>1. PICK b : b = Prefix(w) + Len(arcs)
    OBVIOUS
  <2>2. b \in 0 .. Len(suffix) - position /\ position + b = end
    BY <1>1, <1>5, <1>6, <1>7, <2>1
  <2>3. Piece(Rest(suffix, position), 0, b) = Piece(suffix, position, position + b)
    BY <1>1, <1>4, <2>2, PieceOfRest
  <2> QED
    BY <1>5, <1>6, <2>1, <2>2, <2>3
<1> HIDE DEF arcs, end, v
<1>10. v \in Value
  BY <1>6 DEF Canonical
<1>11. /\ values' \in Seq(Value) /\ Len(values') = i /\ values'[i] = v
       /\ \A k \in 1 .. i - 1 : values'[k] = values[k]
  <2>1. Len(values) + 1 = i
    BY <1>1
  <2> QED
    BY <1>1, <1>2, <1>10, <2>1, AppendProperties
<1>12. /\ arcRanges' \in Seq(Nat \X Nat) /\ Len(arcRanges') = i
       /\ arcRanges'[i] = <<position, end>>
       /\ \A k \in 1 .. i - 1 : arcRanges'[k] = arcRanges[k]
  <2>1. Len(arcRanges) + 1 = i /\ <<position, end>> \in Nat \X Nat
    BY <1>1, <1>4, <1>8
  <2> QED
    BY <1>1, <1>2, <1>4, <2>1, AppendProperties
<1>13. /\ \A k \in 0 .. i - 1 : End(k)' = End(k)
       /\ \A k : k = i => End(k)' = end
  <2>1. ASSUME NEW k \in 0 .. i - 1 PROVE End(k)' = End(k)
    <3>1. k = 0 \/ k \in 1 .. i - 1
      BY <1>1
    <3> QED
      BY <1>12, <3>1 DEF End
  <2>2. ASSUME NEW k, k = i PROVE End(k)' = end
    <3>1. k # 0 /\ arcRanges'[k][2] = end
      BY <1>1, <1>12, <2>2
    <3> QED
      BY <3>1 DEF End
  <2> QED
    BY <2>1, <2>2
<1>14. PICK s : s = suffix
  OBVIOUS
<1>15. PICK n : n = i
  OBVIOUS
<1>16. ASSUME NEW k \in 1 .. n
       PROVE  /\ arcRanges'[k] = <<End(k - 1)', End(k)'>>
              /\ End(k)' \in 0 .. Len(s) /\ End(k - 1)' \in 0 .. End(k)'
              /\ Piece(s, End(k - 1)', End(k)') = Encoded(schema[k], values'[k].arcs)
              /\ Canonical(schema[k], values'[k])
              /\ k \notin reported' => ~ Violates(schema[k], values'[k].arcs)
  <2>1. CASE k \in 1 .. i - 1
    <3>1. k \in 0 .. i - 1 /\ k - 1 \in 0 .. i - 1 /\ k # i /\ k \in 1 .. Len(values)
      BY <1>1, <2>1
    <3>2. End(k)' = End(k) /\ End(k - 1)' = End(k - 1)
      BY <1>13, <3>1
    <3>3. /\ values'[k] = values[k] /\ arcRanges'[k] = arcRanges[k]
          /\ k \notin reported' => k \notin reported
      BY <1>2, <1>11, <1>12, <2>1
    <3>4. /\ arcRanges[k] = <<End(k - 1), End(k)>>
          /\ End(k) \in 0 .. Len(s) /\ End(k - 1) \in 0 .. End(k)
          /\ Piece(s, End(k - 1), End(k)) = Encoded(schema[k], values[k].arcs)
          /\ Canonical(schema[k], values[k])
          /\ k \notin reported => ~ Violates(schema[k], values[k].arcs)
      BY <1>14, <3>1 DEF Split
    <3> QED
      BY <3>2, <3>3, <3>4
  <2>2. CASE k = i
    <3>1. End(k)' = end /\ i - 1 \in 0 .. i - 1 /\ k - 1 = i - 1
      BY <1>1, <1>13, <2>2
    <3>2. End(k - 1)' = position
      BY <1>4, <1>13, <3>1
    <3>3. /\ values'[k] = v /\ v.arcs = arcs /\ schema[k] = w
          /\ arcRanges'[k] = <<position, end>>
      BY <1>6, <1>11, <1>12, <2>2 DEF w
    <3>4. k \notin reported' => ~ Violates(w, arcs)
      BY <1>2, <2>2, Zenon
    <3> QED
      BY <1>6, <1>8, <1>9, <1>14, <3>1, <3>2, <3>3, <3>4
  <2> QED
    BY <1>1, <1>15, <2>1, <2>2
<1>17. Split(s)'
  <2>1. Len(arcRanges') = n /\ Len(values') = n /\ n <= Len(schema') /\ n \in Nat
    BY <1>1, <1>2, <1>11, <1>12, <1>15
  <2>2. reported' \subseteq 1 .. n
    <3>1. reported \subseteq 1 .. i - 1
      BY <1>1 DEF Split
    <3>2. ASSUME NEW k \in reported' PROVE k \in reported \/ k = i
      BY <1>2, Zenon
    <3>3. ASSUME NEW k \in reported' PROVE k \in 1 .. n
      <4>1. CASE k \in reported
        BY <1>1, <1>15, <3>1, <4>1
      <4>2. CASE k = i
        BY <1>1, <1>15, <4>2
      <4> QED
        BY <3>2, <4>1, <4>2
    <3> QED
      BY <3>3
  <2>3. position' = End(n)' /\ position' \in 0 .. Len(s)
    BY <1>2, <1>8, <1>13, <1>14, <1>15
  <2>4. ASSUME NEW k \in 1 .. n PROVE Canonical(schema[k], values[k])'
    <3>1. Canonical(schema[k], values'[k])
      BY <1>16
    <3> QED
      BY <1>2, <3>1 DEF Canonical, VariableLength, Prefix
  <2>5. ASSUME NEW k \in 1 .. n
        PROVE  /\ (Piece(s, End(k - 1), End(k)) = Encoded(schema[k], values[k].arcs))'
               /\ (k \notin reported => ~ Violates(schema[k], values[k].arcs))'
    BY <1>2, <1>16
  <2> QED
    BY <1>16, <2>1, <2>2, <2>3, <2>4, <2>5 DEF Split
<1> QED
  BY <1>2, <1>11, <1>12, <1>13, <1>14, <1>17 DEF w, arcs, rest, end, v, Split

\* A component that is taken; one of a suffix that a row was joined to is taken for the
\* value that was joined.
LEMMA DecodeGoesOn ==
  ASSUME CInv, DecodeComponent, Wrong(schema[i], Remaining) = None
  PROVE  CInv'
<1> DEFINE w    == schema[i]
           arcs == Taken(w, Remaining)
           v    == Decoded(w, arcs)
<1>1. /\ phase = "decode" /\ i <= Len(schema) /\ failure = NoFailure /\ world \in World
      /\ phase' = "decode" /\ failure' = failure /\ i' = i + 1 /\ ~ DecodeLimits
      /\ UNCHANGED <<world, schema, suffix>>
      /\ reported' = reported \cup (IF Violates(w, arcs) THEN {i} ELSE {})
      /\ i \in Nat \ {0} /\ Len(schema) \in Nat /\ Len(values) = i - 1
      /\ suffix \in Seq(Arc) /\ schema \in Seq(Wires)
  BY DecodeCases DEF CInv, Stage, Typed
<1>2. Split(suffix)
  BY <1>1 DEF CInv, Splitting
<1>3. /\ Split(suffix)'
      /\ \A k \in 0 .. i - 1 : End(k)' = End(k)
      /\ \A k : k = i => End(k)' = position + Prefix(w) + Len(arcs)
      /\ Len(values') = i /\ \A k \in 1 .. i - 1 : values'[k] = values[k]
      /\ values'[i] = v
      /\ values' \in Seq(Value) /\ arcRanges' \in Seq(Nat \X Nat)
  BY <1>1, <1>2, SplitGrows DEF CInv
<1> HIDE DEF w, arcs, v
<1>4. position' \in Nat
  <2>1. position' \in 0 .. Len(suffix') /\ Len(suffix') \in Nat
    BY <1>1, <1>3 DEF Split
  <2> QED
    BY <2>1
<1>5. Typed'
  BY <1>1, <1>3, <1>4 DEF CInv, Typed
<1>6. Stage'
  <2>1. i' \in 1 .. Len(schema') + 1 /\ Len(values') = i' - 1
    BY <1>1, <1>3
  <2> QED
    BY <1>1, <2>1 DEF CInv, Stage, Compiled, Constraint
<1>7. Source'
  <2>1. Len(suffix) <= world.options.maxSuffix \/ i > 1
    BY <1>1, WorldFacts DEF DecodeLimits
  <2> QED
    BY <1>1, <2>1 DEF CInv, Source
<1>8. Resplitting'
  <2> SUFFICES ASSUME world.first = "encode" PROVE Resplitting'
    BY <1>1 DEF Resplitting
  <2>1. PICK u : u = world.values[i]
    OBVIOUS
  <2>2. PICK n : n = i
    OBVIOUS
  <2>3. /\ arcs = u.arcs /\ v = u /\ ~ Violates(w, u.arcs)
        /\ \E e : /\ Joined(e, suffix, world.values, Len(schema))
                  /\ \A k \in 0 .. i - 1 : End(k) = e[k]
                  /\ e[i] = position + Prefix(w) + Len(u.arcs)
    <3>1. /\ Taken(w, Remaining) = u.arcs /\ Decoded(w, u.arcs) = u /\ ~ Violates(w, u.arcs)
          /\ \E e : /\ Joined(e, suffix, world.values, Len(schema))
                    /\ \A k \in 0 .. i - 1 : End(k) = e[k]
                    /\ e[i] = position + Prefix(w) + Len(u.arcs)
      BY <1>1, <2>1, FindsTheNext DEF CInv, w
    <3> QED
      BY <3>1 DEF arcs, v
  <2>4. PICK e : /\ Joined(e, suffix, world.values, Len(schema))
                 /\ \A k \in 0 .. i - 1 : End(k) = e[k]
                 /\ e[i] = position + Prefix(w) + Len(u.arcs)
    BY <2>3
  <2>5. /\ Len(world.values) = Len(schema) /\ Len(suffix) <= world.options.maxSuffix
        /\ reported = {} /\ \A k \in 1 .. i - 1 : values[k] = world.values[k]
    BY <1>1 DEF CInv, Resplitting
  <2>6. reported' = {}
    <3>1. ~ Violates(w, arcs)
      BY <2>3
    <3>2. reported' = reported \cup {}
      BY <1>1, <3>1, Zenon
    <3> QED
      BY <2>5, <3>2
  <2>7. ASSUME NEW k \in 1 .. n PROVE values'[k] = world.values[k]
    <3>1. k \in 1 .. i - 1 \/ k = i
      BY <1>1, <2>2
    <3> QED
      BY <1>3, <2>1, <2>3, <2>5, <3>1
  <2>8. ASSUME NEW k \in 0 .. n PROVE End(k)' = e[k]
    <3>1. k \in 0 .. i - 1 \/ k = i
      BY <1>1, <2>2
    <3> QED
      BY <1>3, <2>3, <2>4, <3>1
  <2>9. PICK s, m : s = suffix /\ m = Len(schema)
    OBVIOUS
  <2>10. PICK vs : vs = world.values
    OBVIOUS
  <2>11. Joined(e, s, vs, m)'
    BY <1>1, <2>4, <2>9, <2>10, JoinedStays
  <2>12. Joined(e, suffix, world.values, Len(schema))'
    BY <1>1, <2>9, <2>10, <2>11 DEF Joined
  <2>13. i' - 1 = n
    BY <1>1, <2>2
  <2> QED
    BY <1>1, <2>5, <2>6, <2>7, <2>8, <2>12, <2>13 DEF Resplitting
<1> QED
  BY <1>1, <1>3, <1>5, <1>6, <1>7, <1>8
  DEF CInv, Splitting, Joining, Rejoining, RoundTrip

LEMMA DecodeStep == CInv /\ DecodeComponent => CInv'
BY DecodeFails, DecodeGoesOn

\* The whole suffix is split.  No arc is left of one that a row was joined to, and its
\* values are the row's.
LEMMA FinishDecodeStep == CInv /\ FinishDecode => CInv'
<1> SUFFICES ASSUME CInv, FinishDecode PROVE CInv'
  OBVIOUS
<1>1. /\ phase = "decode" /\ i > Len(schema) /\ failure = NoFailure /\ world \in World
      /\ ~ DecodeLimits
      /\ UNCHANGED <<world, schema, position, values, arcRanges, reported>>
      /\ i \in Nat \ {0} /\ Len(schema) \in Nat /\ Len(values) = i - 1
      /\ i \in 1 .. Len(schema) + 1 /\ Len(schema) = Len(world.declared)
      /\ suffix \in Seq(Arc) /\ schema \in Seq(Wires) /\ values \in Seq(Value)
      /\ arcRanges \in Seq(Nat \X Nat)
  BY DEF CInv, Stage, Typed, FinishDecode
<1>2. Split(suffix) /\ i = Len(schema) + 1 /\ Len(values) = Len(schema)
  <2>1. Split(suffix)
    BY <1>1 DEF CInv, Splitting
  <2>2. i = Len(schema) + 1
    <3>1. i \in Nat /\ Len(schema) \in Nat /\ i > Len(schema) /\ i <= Len(schema) + 1
      BY <1>1
    <3> QED
      BY <3>1
  <2> QED
    BY <1>1, <2>1, <2>2
<1>3. world.first \in {"decode", "encode"}
  BY <1>1, WorldFacts
<1>4. world.first = "encode" =>
        position = Len(suffix) /\ values = world.values /\ reported = {}
  <2> SUFFICES ASSUME world.first = "encode"
               PROVE  position = Len(suffix) /\ values = world.values /\ reported = {}
    OBVIOUS
  <2>1. /\ Len(world.values) = Len(schema) /\ reported = {}
        /\ \A k \in 1 .. i - 1 : values[k] = world.values[k]
    BY <1>1 DEF CInv, Resplitting
  <2>2. PICK e : /\ Joined(e, suffix, world.values, Len(schema))
                 /\ \A k \in 0 .. i - 1 : End(k) = e[k]
    BY <1>1 DEF CInv, Resplitting
  <2>3. position = Len(suffix)
    <3>1. Len(schema) \in 0 .. i - 1
      BY <1>1, <1>2
    <3>2. position = End(Len(schema)) /\ End(Len(schema)) = e[Len(schema)]
      BY <1>2, <2>2, <3>1 DEF Split
    <3> QED
      BY <2>2, <3>2 DEF Joined
  <2>4. values = world.values
    <3>1. world.values \in Seq(Value) /\ i - 1 = Len(schema)
      BY <1>1, <1>2, WorldFacts
    <3> QED
      BY <1>1, <1>2, <2>1, <3>1, SeqEqual
  <2> QED
    BY <2>1, <2>3, <2>4
<1>5. CASE position # Len(suffix)
  <2>1. Fail("decode", "TrailingArcs", position) /\ UNCHANGED <<i, suffix>>
    BY <1>5 DEF FinishDecode
  <2>2. /\ phase' = "done" /\ failure'["decode"].kind = "TrailingArcs"
        /\ failure'["compile"].kind = None /\ failure'["encode"].kind = None
    BY <1>1, <2>1, AfterFailure
  <2>3. "TrailingArcs" # None /\ world.first = "decode"
    BY <1>3, <1>4, <1>5, NoneIsNoFault DEF Faults
  <2>4. Splitting'
    BY <1>1, <1>2, <2>1, SplitStays DEF Splitting
  <2>5. Typed' /\ Stage'
    BY <1>1, <2>1, <2>2 DEF CInv, Typed, Stage, Compiled, Constraint
  <2> QED
    BY <1>1, <2>2, <2>3, <2>4, <2>5
    DEF CInv, Joining, Source, Rejoining, Resplitting, RoundTrip
<1>6. CASE position = Len(suffix) /\ world.first = "decode"
  <2>1. phase' = "encode" /\ i' = 1 /\ suffix' = <<>> /\ failure' = failure
    BY <1>6 DEF FinishDecode
  <2>2. suffix = world.suffix /\ Len(suffix) <= world.options.maxSuffix
    <3>1. Len(suffix) <= world.options.maxSuffix \/ i > 1
      BY <1>1, WorldFacts DEF DecodeLimits
    <3> QED
      BY <1>1, <1>6, <3>1 DEF CInv, Source
  <2>3. Typed' /\ Stage'
    <3>1. Len(values') \in Nat /\ 1 \in 1 .. Len(schema) + 1 /\ <<>> \in Seq(Arc)
      BY <1>1
    <3> QED
      BY <1>1, <1>2, <2>1, <3>1 DEF CInv, Typed, Stage, Compiled, Constraint
  <2>4. Joining'
    <3>1. PICK e : e = [k \in 0 .. 0 |-> 0]
      OBVIOUS
    <3>2. i' - 1 = 0 /\ Len(suffix') = 0
      BY <2>1
    <3>3. Joined(e, suffix, values, i - 1)'
      <4>1. e \in [0 .. 0 -> 0 .. 0] /\ e[0] = 0
        BY <3>1
      <4> QED
        BY <3>2, <4>1 DEF Joined
    <3> QED
      BY <1>1, <3>2, <3>3, WorldFacts DEF Joining
  <2>5. Rejoining'
    <3>1. PICK s : s = world.suffix
      OBVIOUS
    <3>2. Split(s)'
      BY <1>1, <1>2, <2>2, <3>1, SplitStays
    <3>3. Split(world.suffix)'
      BY <1>1, <3>1, <3>2 DEF Split
    <3>4. s \in Seq(Arc) /\ Len(s) \in Nat
      BY <1>1, <3>1, WorldFacts
    <3>5. Piece(s, 0, 0) = <<>>
      <4>1. Piece(s, 0, 0) \in Seq(Arc) /\ Len(Piece(s, 0, 0)) = 0 - 0
        BY <3>4, PieceType
      <4> QED
        BY <4>1, EmptySeq
    <3>6. End(i - 1)' = 0
      BY <2>1 DEF End
    <3> QED
      BY <1>1, <1>2, <1>6, <2>1, <2>2, <3>1, <3>3, <3>5, <3>6 DEF Rejoining
  <2>6. Source' /\ Splitting'
    BY <1>1, <1>6, <2>1, FreshFailure DEF Source, Splitting
  <2> QED
    BY <2>1, <2>3, <2>4, <2>5, <2>6 DEF CInv, Resplitting, RoundTrip
<1>7. CASE position = Len(suffix) /\ world.first = "encode"
  <2>1. phase' = "done" /\ UNCHANGED <<i, suffix, failure>>
    BY <1>7, <1>3 DEF FinishDecode
  <2>2. Typed' /\ Stage'
    BY <1>1, <2>1 DEF CInv, Typed, Stage, Compiled, Constraint
  <2>3. failure'["decode"].kind = None
    BY <1>1, <2>1, FreshFailure
  <2>4. RoundTrip' /\ Splitting'
    BY <1>1, <1>4, <1>7, <2>1, <2>3, Zenon DEF RoundTrip, Splitting
  <2> QED
    BY <2>1, <2>2, <2>3, <2>4 DEF CInv, Joining, Source, Rejoining, Resplitting
<1> QED
  BY <1>3, <1>5, <1>6, <1>7

------------------------------------------------------------------------------
(* Joining. *)

\* Pieces of a sequence do not change when something is added to it, and what is added is
\* its last piece.
LEMMA PieceOfConcat ==
  ASSUME NEW s \in Seq(Arc), NEW t \in Seq(Arc)
  PROVE  /\ s \o t \in Seq(Arc) /\ Len(s \o t) = Len(s) + Len(t)
         /\ \A q \in 0 .. Len(s) : \A p \in 0 .. q : Piece(s \o t, p, q) = Piece(s, p, q)
         /\ Piece(s \o t, Len(s), Len(s) + Len(t)) = t
<1>1. PICK u : u = s \o t
  OBVIOUS
<1>2. PICK m, n : m = Len(s) /\ n = Len(t)
  OBVIOUS
<1>3. /\ u \in Seq(Arc) /\ Len(u) = m + n /\ m \in Nat /\ n \in Nat
      /\ \A j \in 1 .. m + n : u[j] = IF j <= m THEN s[j] ELSE t[j - m]
  BY <1>1, <1>2, ConcatProperties
<1>4. ASSUME NEW q \in 0 .. m, NEW p \in 0 .. q PROVE Piece(u, p, q) = Piece(s, p, q)
  <2>1. q \in 0 .. Len(u) /\ q \in 0 .. Len(s)
    BY <1>2, <1>3
  <2>2. /\ Piece(u, p, q) \in Seq(Arc) /\ Len(Piece(u, p, q)) = q - p
        /\ \A j \in 1 .. q - p : Piece(u, p, q)[j] = u[p + j]
    BY <1>3, <2>1, PieceType
  <2>3. /\ Piece(s, p, q) \in Seq(Arc) /\ Len(Piece(s, p, q)) = q - p
        /\ \A j \in 1 .. q - p : Piece(s, p, q)[j] = s[p + j]
    BY <2>1, PieceType
  <2>4. ASSUME NEW j \in 1 .. q - p PROVE u[p + j] = s[p + j]
    <3>1. p + j \in 1 .. m + n /\ p + j <= m
      BY <1>3
    <3> QED
      BY <1>3, <3>1
  <2> QED
    BY <2>2, <2>3, <2>4, SeqEqual
<1>5. Piece(u, m, m + n) = t
  <2>1. PICK q : q = m + n
    OBVIOUS
  <2>2. q \in 0 .. Len(u) /\ m \in 0 .. q /\ q - m = n
    BY <1>3, <2>1
  <2>3. /\ Piece(u, m, q) \in Seq(Arc) /\ Len(Piece(u, m, q)) = n
        /\ \A j \in 1 .. n : Piece(u, m, q)[j] = u[m + j]
    BY <1>3, <2>2, PieceType
  <2>4. ASSUME NEW j \in 1 .. n PROVE u[m + j] = t[j]
    <3>1. m + j \in 1 .. m + n /\ ~ (m + j <= m) /\ (m + j) - m = j
      BY <1>3
    <3> QED
      BY <1>3, <3>1
  <2> QED
    BY <1>2, <2>1, <2>3, <2>4, SeqEqual
<1> QED
  BY <1>1, <1>2, <1>3, <1>4, <1>5

\* Two pieces that follow each other make one.
LEMMA PiecesJoin ==
  ASSUME NEW s \in Seq(Arc), NEW q \in 0 .. Len(s), NEW p \in 0 .. q
  PROVE  Piece(s, 0, p) \o Piece(s, p, q) = Piece(s, 0, q)
<1>1. Len(s) \in Nat /\ p \in 0 .. Len(s) /\ 0 \in 0 .. p /\ 0 \in 0 .. q /\ p \in Nat /\ q \in Nat
  OBVIOUS
<1>2. /\ Piece(s, 0, p) \in Seq(Arc) /\ Len(Piece(s, 0, p)) = p - 0
      /\ \A j \in 1 .. p - 0 : Piece(s, 0, p)[j] = s[0 + j]
  BY <1>1, PieceType
<1>3. /\ Piece(s, p, q) \in Seq(Arc) /\ Len(Piece(s, p, q)) = q - p
      /\ \A j \in 1 .. q - p : Piece(s, p, q)[j] = s[p + j]
  BY <1>1, PieceType
<1>4. /\ Piece(s, 0, q) \in Seq(Arc) /\ Len(Piece(s, 0, q)) = q - 0
      /\ \A j \in 1 .. q - 0 : Piece(s, 0, q)[j] = s[0 + j]
  BY <1>1, PieceType
<1>5. PICK t : t = Piece(s, 0, p) \o Piece(s, p, q)
  OBVIOUS
<1>6. /\ t \in Seq(Arc) /\ Len(t) = p + (q - p)
      /\ \A j \in 1 .. p + (q - p) :
           t[j] = IF j <= p THEN Piece(s, 0, p)[j] ELSE Piece(s, p, q)[j - p]
  <2>1. Len(Piece(s, 0, p)) = p
    BY <1>1, <1>2
  <2> QED
    BY <1>2, <1>3, <1>5, <2>1, ConcatProperties
<1>7. ASSUME NEW j \in 1 .. q PROVE t[j] = Piece(s, 0, q)[j]
  <2>1. j \in 1 .. p + (q - p) /\ j \in 1 .. q - 0 /\ 0 + j = j
    BY <1>1
  <2>2. CASE j <= p
    <3>1. j \in 1 .. p - 0
      BY <1>1, <2>2
    <3> QED
      BY <1>2, <1>4, <1>6, <2>1, <2>2, <3>1
  <2>3. CASE ~ (j <= p)
    <3>1. j - p \in 1 .. q - p /\ p + (j - p) = j
      BY <1>1, <2>3
    <3> QED
      BY <1>3, <1>4, <1>6, <2>1, <2>3, <3>1
  <2> QED
    BY <2>2, <2>3
<1>8. Len(t) = q /\ Len(Piece(s, 0, q)) = q
  BY <1>1, <1>4, <1>6
<1> QED
  BY <1>4, <1>5, <1>6, <1>7, <1>8, SeqEqual

LEMMA WholePiece ==
  ASSUME NEW s \in Seq(Arc)
  PROVE  Piece(s, 0, Len(s)) = s
<1>1. Len(s) \in Nat /\ Len(s) \in 0 .. Len(s) /\ 0 \in 0 .. Len(s)
  OBVIOUS
<1>2. /\ Piece(s, 0, Len(s)) \in Seq(Arc) /\ Len(Piece(s, 0, Len(s))) = Len(s) - 0
      /\ \A j \in 1 .. Len(s) - 0 : Piece(s, 0, Len(s))[j] = s[0 + j]
  BY <1>1, PieceType
<1>3. Len(s) - 0 = Len(s) /\ \A j \in 1 .. Len(s) : 0 + j = j
  BY <1>1
<1> QED
  BY <1>2, <1>3, SeqEqual

\* A value added to the encoding of the values before it.
LEMMA JoinedGrows ==
  ASSUME NEW e, NEW s \in Seq(Arc), NEW vs, NEW n \in Nat \ {0}, Joined(e, s, vs, n - 1),
         Canonical(schema[n], vs[n]), ~ Violates(schema[n], vs[n].arcs)
  PROVE  /\ s \o Encoded(schema[n], vs[n].arcs) \in Seq(Arc)
         /\ Len(s \o Encoded(schema[n], vs[n].arcs)) = Len(s) + Len(Encoded(schema[n], vs[n].arcs))
         /\ \E f : Joined(f, s \o Encoded(schema[n], vs[n].arcs), vs, n)
<1> DEFINE t == Encoded(schema[n], vs[n].arcs)
           u == s \o t
           f == [k \in 0 .. n |-> IF k = n THEN Len(s) + Len(t) ELSE e[k]]
<1>1. t \in Seq(Arc)
  BY EncodedType DEF Canonical
<1> HIDE DEF t
<1>2. /\ u \in Seq(Arc) /\ Len(u) = Len(s) + Len(t) /\ Len(s) \in Nat /\ Len(t) \in Nat
      /\ \A q \in 0 .. Len(s) : \A p \in 0 .. q : Piece(u, p, q) = Piece(s, p, q)
      /\ Piece(u, Len(s), Len(s) + Len(t)) = t
  BY <1>1, PieceOfConcat
<1> HIDE DEF u
<1>3. /\ e \in [0 .. n - 1 -> 0 .. Len(s)] /\ e[0] = 0 /\ e[n - 1] = Len(s)
      /\ \A k \in 1 .. n - 1 :
           /\ e[k - 1] \in 0 .. e[k]
           /\ Piece(s, e[k - 1], e[k]) = Encoded(schema[k], vs[k].arcs)
           /\ Canonical(schema[k], vs[k]) /\ ~ Violates(schema[k], vs[k].arcs)
  BY DEF Joined
<1>4. /\ \A k \in 0 .. n - 1 : f[k] = e[k] /\ f[k] \in 0 .. Len(s)
      /\ f[n] = Len(s) + Len(t) /\ DOMAIN f = 0 .. n /\ f = [k \in 0 .. n |-> f[k]]
  <2>1. ASSUME NEW k \in 0 .. n - 1 PROVE k \in 0 .. n /\ k # n
    OBVIOUS
  <2>2. n \in 0 .. n
    OBVIOUS
  <2> QED
    BY <1>3, <2>1, <2>2
<1> HIDE DEF f
<1>5. f \in [0 .. n -> 0 .. Len(u)]
  <2>1. ASSUME NEW k \in 0 .. n PROVE f[k] \in 0 .. Len(u)
    <3>1. k \in 0 .. n - 1 \/ k = n
      OBVIOUS
    <3>2. 0 .. Len(s) \subseteq 0 .. Len(u) /\ Len(s) + Len(t) \in 0 .. Len(u)
      BY <1>2
    <3>3. CASE k \in 0 .. n - 1
      BY <1>4, <3>2, <3>3
    <3>4. CASE k = n
      BY <1>4, <3>2, <3>4
    <3> QED
      BY <3>1, <3>3, <3>4
  <2> QED
    BY <1>4, <2>1
<1>6. ASSUME NEW k \in 1 .. n
      PROVE  /\ f[k - 1] \in 0 .. f[k]
             /\ Piece(u, f[k - 1], f[k]) = Encoded(schema[k], vs[k].arcs)
             /\ Canonical(schema[k], vs[k]) /\ ~ Violates(schema[k], vs[k].arcs)
  <2>1. CASE k \in 1 .. n - 1
    <3>1. k - 1 \in 0 .. n - 1 /\ k \in 0 .. n - 1
      BY <2>1
    <3>2. f[k - 1] = e[k - 1] /\ f[k] = e[k] /\ e[k] \in 0 .. Len(s) /\ e[k - 1] \in 0 .. e[k]
      BY <1>3, <1>4, <2>1, <3>1
    <3>3. Piece(u, e[k - 1], e[k]) = Piece(s, e[k - 1], e[k])
      BY <1>2, <3>2
    <3> QED
      BY <1>3, <2>1, <3>2, <3>3
  <2>2. CASE k = n
    <3>1. k - 1 = n - 1 /\ n - 1 \in 0 .. n - 1
      BY <2>2
    <3>2. f[k - 1] = Len(s) /\ f[k] = Len(s) + Len(t)
      BY <1>3, <1>4, <2>2, <3>1
    <3>3. f[k - 1] \in 0 .. f[k]
      BY <1>2, <3>2
    <3> QED
      BY <1>2, <2>2, <3>2, <3>3 DEF t
  <2> QED
    BY <2>1, <2>2
<1>7. 0 \in 0 .. n - 1
  OBVIOUS
<1>8. Joined(f, u, vs, n)
  BY <1>2, <1>3, <1>4, <1>5, <1>6, <1>7 DEF Joined
<1> QED
  BY <1>2, <1>8 DEF u, t

\* Why a value that was split from a suffix can be refused.
LEMMA EncodesWhatWasSplit ==
  ASSUME NEW w, Compiled(w), NEW v, Canonical(w, v), ~ Violates(w, v.arcs),
         ~ (Len(suffix) + Len(Encoded(w, v.arcs)) > world.options.maxSuffix),
         world.options.maxValue \in Nat
  PROVE  EncodeFault(w, v) \in {None, "IndeterminateConstraint"}
<1>1. /\ v.kind = w.kind /\ v \in Value /\ v.arcs \in Seq(Arc) /\ Len(v.arcs) \in Nat
      /\ VariableLength(w) => Len(v.arcs) <= world.options.maxValue
      /\ w.framing.form = "Fixed" => Len(v.arcs) = w.framing.length
      /\ Prefix(w) = 1 => Len(v.arcs) <= UIntMax
      /\ UIntMax \in Nat
  BY CodecAssumption DEF Canonical
<1>2. ~ (IsInteger(w.kind) /\ v.arcs[1] < 0)
  <2>1. ASSUME IsInteger(w.kind) PROVE ~ (v.arcs[1] < 0)
    <3>1. Len(v.arcs) = 1
      BY <1>1, <2>1, ValueLength
    <3>2. v.arcs[1] \in Nat
      BY <1>1, <3>1, ArcType, ElementOfSeq
    <3> QED
      BY <3>2
  <2> QED
    BY <2>1
<1>3. ~ (VariableLength(w) /\ Len(v.arcs) > world.options.maxValue)
  BY <1>1
<1>4. ~ (Prefix(w) = 1 /\ Len(v.arcs) > UIntMax)
  BY <1>1
<1> QED
  BY <1>1, <1>2, <1>3, <1>4, Zenon DEF EncodeFault

\* Where component i of a suffix lies whose values are joined again.
LEMMA RejoinsTheNext ==
  ASSUME CInv, phase = "encode", world.first = "decode", i <= Len(schema)
  PROVE  LET w == schema[i]
             v == values[i]
         IN /\ i <= Len(values) /\ Canonical(w, v)
            /\ reported = {} => ~ Violates(w, v.arcs)
            /\ ~ (Len(suffix) + Len(Encoded(w, v.arcs)) > world.options.maxSuffix)
            /\ suffix \o Encoded(w, v.arcs) = Piece(world.suffix, 0, End(i))
<1> DEFINE w == schema[i]
           v == values[i]
<1>1. /\ world \in World /\ schema \in Seq(Wires) /\ suffix \in Seq(Arc) /\ Len(schema) \in Nat
      /\ i \in Nat \ {0} /\ i <= Len(values) /\ Len(values) = Len(schema)
      /\ Split(world.suffix) /\ Len(world.suffix) <= world.options.maxSuffix
      /\ suffix = Piece(world.suffix, 0, End(i - 1))
      /\ world.suffix \in Seq(Arc) /\ Len(world.suffix) \in Nat
      /\ world.options.maxSuffix \in Nat
  BY WorldFacts DEF CInv, Typed, Rejoining
<1>2. i \in 1 .. Len(values)
  BY <1>1
<1>3. /\ End(i) \in 0 .. Len(world.suffix) /\ End(i - 1) \in 0 .. End(i)
      /\ Piece(world.suffix, End(i - 1), End(i)) = Encoded(w, v.arcs)
      /\ Canonical(w, v)
      /\ i \notin reported => ~ Violates(w, v.arcs)
  BY <1>1, <1>2 DEF Split
<1> HIDE DEF w, v
<1>4. suffix \o Encoded(w, v.arcs) = Piece(world.suffix, 0, End(i))
  BY <1>1, <1>3, PiecesJoin
<1>5. ~ (Len(suffix) + Len(Encoded(w, v.arcs)) > world.options.maxSuffix)
  <2>1. PICK a, b : a = End(i - 1) /\ b = End(i)
    OBVIOUS
  <2>2. b \in 0 .. Len(world.suffix) /\ a \in 0 .. b /\ a \in 0 .. Len(world.suffix) /\ 0 \in 0 .. a
    BY <1>1, <1>3, <2>1
  <2>3. Len(Piece(world.suffix, a, b)) = b - a /\ Len(Piece(world.suffix, 0, a)) = a - 0
    BY <1>1, <2>2, PieceType
  <2>4. Len(suffix) = a - 0 /\ Len(Encoded(w, v.arcs)) = b - a
    BY <1>1, <1>3, <2>1, <2>3
  <2> QED
    BY <1>1, <2>2, <2>4
<1> QED
  BY <1>1, <1>3, <1>4, <1>5 DEF w, v

\* A value that is refused; one that was split from a suffix without a violation is so
\* only because a constraint cannot be decided.
LEMMA EncodeFails ==
  ASSUME CInv, phase = "encode", i <= Len(schema), NEW kind, kind # None,
         Fail("encode", kind, 0),
         UNCHANGED <<world, schema, i, suffix, position, values, arcRanges, reported>>,
         world.first = "decode" /\ reported = {} => kind = "IndeterminateConstraint"
  PROVE  CInv'
<1>1. failure = NoFailure /\ world \in World
  BY DEF CInv, Stage, Typed
<1>2. /\ phase' = "done" /\ failure'["encode"].kind = kind
      /\ failure'["compile"].kind = None /\ failure'["decode"].kind = None
  BY <1>1, AfterFailure
<1>3. world.first \in {"decode", "encode"}
  BY <1>1, WorldFacts
<1>4. RoundTrip' /\ Splitting'
  BY <1>2, <1>3, Zenon DEF RoundTrip, Splitting
<1>5. Typed' /\ Stage'
  BY <1>1, <1>2 DEF CInv, Typed, Stage, Compiled, Constraint
<1> QED
  BY <1>2, <1>4, <1>5 DEF CInv, Joining, Source, Rejoining, Resplitting

LEMMA EncodeGoesOn ==
  ASSUME CInv, phase = "encode", i <= Len(schema), i <= Len(values),
         EncodeFault(schema[i], values[i]) = None,
         suffix' = suffix \o Encoded(schema[i], values[i].arcs), i' = i + 1,
         UNCHANGED <<phase, failure, world, schema, position, values, arcRanges, reported>>
  PROVE  CInv'
<1> DEFINE w == schema[i]
           v == values[i]
           t == Encoded(w, v.arcs)
<1>1. /\ world \in World /\ schema \in Seq(Wires) /\ suffix \in Seq(Arc) /\ Len(schema) \in Nat
      /\ i \in Nat \ {0} /\ values \in Seq(Value) /\ Len(values) \in Nat
      /\ world.options.maxValue \in Nat /\ world.options.maxSuffix \in Nat
      /\ failure = NoFailure /\ failure' = failure /\ phase' = "encode"
      /\ UNCHANGED <<world, schema, position, values, arcRanges, reported>>
  BY WorldFacts DEF CInv, Typed, Stage
<1>2. /\ Canonical(w, v) /\ ~ Violates(w, v.arcs)
      /\ ~ (Len(suffix) + Len(t) > world.options.maxSuffix)
  <2>1. i \in 1 .. Len(schema) /\ v \in Value
    BY <1>1, ElementOfSeq
  <2>2. Compiled(w)
    BY <2>1 DEF CInv, Stage
  <2> QED
    BY <1>1, <2>1, <2>2, EncodedIsCanonical
<1>3. PICK e : Joined(e, suffix, values, i - 1)
  BY DEF CInv, Joining
<1>4. PICK s, n, vs : s = suffix /\ n = i /\ vs = values
  OBVIOUS
<1>5. /\ s \o Encoded(schema[n], vs[n].arcs) \in Seq(Arc)
      /\ Len(s \o Encoded(schema[n], vs[n].arcs)) = Len(s) + Len(Encoded(schema[n], vs[n].arcs))
      /\ \E f : Joined(f, s \o Encoded(schema[n], vs[n].arcs), vs, n)
  <2>1. /\ s \in Seq(Arc) /\ n \in Nat \ {0} /\ Joined(e, s, vs, n - 1)
        /\ Canonical(schema[n], vs[n]) /\ ~ Violates(schema[n], vs[n].arcs)
    BY <1>1, <1>2, <1>3, <1>4
  <2> QED
    BY <2>1, JoinedGrows
<1>6. suffix' \in Seq(Arc) /\ Len(suffix') = Len(s) + Len(t)
  BY <1>4, <1>5
<1>7. Typed' /\ Stage'
  <2>1. i' \in 1 .. Len(schema') + 1 /\ i' - 1 <= Len(values')
    BY <1>1
  <2>2. Typed'
    BY <1>1, <1>6, <2>1 DEF CInv, Typed
  <2>3. Stage'
    BY <1>1, <2>1 DEF CInv, Stage, Compiled, Constraint
  <2> QED
    BY <2>2, <2>3
<1>8. Joining'
  <2>1. Len(suffix') <= world.options.maxSuffix
    <3>1. Len(suffix') \in Nat
      BY <1>6
    <3> QED
      BY <1>1, <1>2, <1>4, <1>6, <3>1
  <2>2. PICK u : u = s \o Encoded(schema[n], vs[n].arcs)
    OBVIOUS
  <2>3. PICK f : Joined(f, u, vs, n)
    BY <1>5, <2>2
  <2>4. Joined(f, u, vs, n)'
    BY <1>1, <2>3, JoinedStays
  <2>5. u = suffix' /\ vs = values' /\ n = i' - 1
    BY <1>1, <1>4, <2>2
  <2>6. Joined(f, suffix, values, i - 1)'
    BY <2>4, <2>5 DEF Joined
  <2> QED
    BY <1>1, <2>1, <2>6 DEF Joining
<1>9. Rejoining'
  <2> SUFFICES ASSUME world.first = "decode" PROVE Rejoining'
    BY <1>1 DEF Rejoining
  <2>1. /\ Split(world.suffix) /\ Len(values) = Len(schema)
        /\ position = Len(world.suffix) /\ Len(world.suffix) <= world.options.maxSuffix
    BY DEF CInv, Rejoining
  <2>2. PICK ws : ws = world.suffix
    OBVIOUS
  <2>3. Split(ws)'
    BY <1>1, <2>1, <2>2, SplitStays
  <2>4. Split(world.suffix)'
    BY <1>1, <2>2, <2>3 DEF Split
  <2>5. suffix' = Piece(ws, 0, End(i))
    BY <2>2, RejoinsTheNext
  <2>6. ASSUME NEW k PROVE End(k)' = End(k)
    BY <1>1 DEF End
  <2>7. suffix' = Piece(ws, 0, End(n)')
    BY <1>4, <2>5, <2>6
  <2>8. n = i' - 1
    BY <1>1, <1>4
  <2>9. suffix' = Piece(ws, 0, End(i - 1)')
    BY <2>7, <2>8 DEF End
  <2> QED
    BY <1>1, <2>1, <2>2, <2>4, <2>9 DEF Rejoining
<1> QED
  <2>1. Splitting' /\ Source'
    BY <1>1, FreshFailure DEF CInv, Splitting, Source
  <2> QED
    BY <1>1, <1>7, <1>8, <1>9, <2>1 DEF CInv, Resplitting, RoundTrip

LEMMA EncodeStep == CInv /\ EncodeComponent => CInv'
<1> SUFFICES ASSUME CInv, EncodeComponent PROVE CInv'
  OBVIOUS
<1>1. /\ phase = "encode" /\ i <= Len(schema)
      /\ UNCHANGED <<world, schema, position, values, arcRanges, reported>>
      /\ world.options.maxValue \in Nat /\ i \in Nat \ {0} /\ Len(values) \in Nat
      /\ Len(schema) \in Nat
  BY WorldFacts DEF EncodeComponent, CInv, Typed
<1>2. CASE i > Len(values)
  <2>1. Fail("encode", "TooFewValues", 0) /\ UNCHANGED <<i, suffix>>
    BY <1>2 DEF EncodeComponent
  <2>2. world.first # "decode"
    <3>1. world.first = "decode" => i <= Len(values)
      BY <1>1, RejoinsTheNext
    <3> QED
      BY <1>1, <1>2, <3>1
  <2> QED
    BY <1>1, <2>1, <2>2, EncodeFails, NoneIsNoFault DEF Faults
<1>3. CASE ~ (i > Len(values)) /\ EncodeFault(schema[i], values[i]) # None
  <2>1. Fail("encode", EncodeFault(schema[i], values[i]), 0) /\ UNCHANGED <<i, suffix>>
    BY <1>3 DEF EncodeComponent
  <2>2. world.first = "decode" /\ reported = {} =>
          EncodeFault(schema[i], values[i]) = "IndeterminateConstraint"
    <3> SUFFICES ASSUME world.first = "decode", reported = {}
                 PROVE  EncodeFault(schema[i], values[i]) = "IndeterminateConstraint"
      OBVIOUS
    <3>1. i \in 1 .. Len(schema)
      BY <1>1
    <3>2. Compiled(schema[i])
      BY <3>1 DEF CInv, Stage
    <3>3. /\ Canonical(schema[i], values[i]) /\ ~ Violates(schema[i], values[i].arcs)
          /\ ~ (Len(suffix) + Len(Encoded(schema[i], values[i].arcs)) > world.options.maxSuffix)
      BY <1>1, RejoinsTheNext
    <3>4. EncodeFault(schema[i], values[i]) \in {None, "IndeterminateConstraint"}
      BY <1>1, <3>2, <3>3, EncodesWhatWasSplit
    <3> QED
      BY <1>3, <3>4
  <2> QED
    BY <1>1, <1>3, <2>1, <2>2, EncodeFails
<1>4. CASE ~ (i > Len(values)) /\ EncodeFault(schema[i], values[i]) = None
  <2>1. /\ suffix' = suffix \o Encoded(schema[i], values[i].arcs)
        /\ i' = i + 1 /\ UNCHANGED <<phase, failure>>
    BY <1>4 DEF EncodeComponent
  <2>2. i <= Len(values)
    BY <1>1, <1>4
  <2> QED
    BY <1>1, <1>4, <2>1, <2>2, EncodeGoesOn
<1> QED
  BY <1>2, <1>3, <1>4

LEMMA FinishEncodeStep == CInv /\ FinishEncode => CInv'
<1> SUFFICES ASSUME CInv, FinishEncode PROVE CInv'
  OBVIOUS
<1>1. /\ phase = "encode" /\ i > Len(schema) /\ failure = NoFailure /\ world \in World
      /\ UNCHANGED <<world, schema, suffix, position, arcRanges, reported>>
      /\ i \in Nat \ {0} /\ Len(schema) \in Nat /\ i - 1 <= Len(values)
      /\ i <= Len(schema) + 1 /\ Len(schema) = Len(world.declared)
      /\ suffix \in Seq(Arc) /\ schema \in Seq(Wires) /\ values \in Seq(Value)
      /\ arcRanges \in Seq(Nat \X Nat) /\ Len(values) \in Nat
  BY DEF CInv, Stage, Typed, FinishEncode
<1>2. i - 1 = Len(schema) /\ i = Len(schema) + 1
  <2>1. i \in Nat /\ Len(schema) \in Nat /\ i > Len(schema) /\ i <= Len(schema) + 1
    BY <1>1
  <2> QED
    BY <2>1
<1>3. world.first \in {"decode", "encode"}
  BY <1>1, WorldFacts
<1>4. CASE Len(values) > Len(schema)
  <2>1. Fail("encode", "TooManyValues", 0) /\ UNCHANGED <<i, values>>
    BY <1>4 DEF FinishEncode
  <2>2. /\ phase' = "done" /\ failure'["encode"].kind = "TooManyValues"
        /\ failure'["compile"].kind = None /\ failure'["decode"].kind = None
    BY <1>1, <2>1, AfterFailure
  <2>3. "TooManyValues" # None
    BY NoneIsNoFault DEF Faults
  <2>4. world.first = "encode"
    <3>1. world.first = "decode" => Len(values) = Len(schema)
      BY <1>1 DEF CInv, Rejoining
    <3> QED
      BY <1>1, <1>3, <1>4, <3>1
  <2>5. RoundTrip' /\ Splitting'
    BY <1>1, <2>2, <2>3, <2>4, Zenon DEF RoundTrip, Splitting
  <2>6. Typed' /\ Stage'
    BY <1>1, <2>1, <2>2 DEF CInv, Typed, Stage, Compiled, Constraint
  <2> QED
    BY <2>2, <2>5, <2>6 DEF CInv, Joining, Source, Rejoining, Resplitting
<1>5. CASE ~ (Len(values) > Len(schema)) /\ world.first = "decode"
  <2>1. phase' = "done" /\ UNCHANGED <<i, values, failure>>
    BY <1>5 DEF FinishEncode
  <2>2. suffix = world.suffix
    <3>1. /\ position = End(Len(values)) /\ Len(values) = Len(schema)
          /\ position = Len(world.suffix) /\ suffix = Piece(world.suffix, 0, End(i - 1))
      BY <1>1, <1>5 DEF CInv, Rejoining, Split
    <3>2. world.suffix \in Seq(Arc)
      BY <1>1, WorldFacts
    <3>3. suffix = Piece(world.suffix, 0, Len(world.suffix))
      BY <1>2, <3>1
    <3> QED
      BY <3>2, <3>3, WholePiece
  <2>3. failure'["decode"].kind = None /\ failure'["encode"].kind = None
    BY <1>1, <2>1, FreshFailure
  <2>4. RoundTrip' /\ Splitting'
    BY <1>1, <1>5, <2>1, <2>2, <2>3, Zenon DEF RoundTrip, Splitting
  <2>5. Typed' /\ Stage'
    BY <1>1, <2>1 DEF CInv, Typed, Stage, Compiled, Constraint
  <2> QED
    BY <2>1, <2>4, <2>5 DEF CInv, Joining, Source, Rejoining, Resplitting
<1>6. CASE ~ (Len(values) > Len(schema)) /\ world.first = "encode"
  <2>1. phase' = "decode" /\ i' = 1 /\ values' = <<>> /\ failure' = failure
    BY <1>6 DEF FinishEncode
  <2>2. values = world.values /\ position = 0 /\ arcRanges = <<>> /\ reported = {}
    BY <1>1, <1>6 DEF CInv, Source
  <2>3. Len(world.values) = Len(schema)
    BY <1>1, <1>2, <1>6, <2>2
  <2>4. Typed' /\ Stage'
    <3>1. Len(values') = 0 /\ 1 \in 1 .. Len(schema) + 1 /\ <<>> \in Seq(Value)
      BY <1>1, <2>1
    <3> QED
      BY <1>1, <2>1, <3>1 DEF CInv, Typed, Stage, Compiled, Constraint
  <2>5. Splitting'
    <3>1. PICK s : s = suffix'
      OBVIOUS
    <3>2. Split(s)'
      <4>1. s \in Seq(Arc) /\ position' = 0 /\ values' = <<>> /\ arcRanges' = <<>>
            /\ reported' = {} /\ schema' \in Seq(Wires)
        BY <1>1, <2>1, <2>2, <3>1
      <4>2. Len(s) \in Nat /\ Len(schema') \in Nat
        BY <4>1
      <4> QED
        BY <4>1, <4>2 DEF Split, End
    <3> QED
      BY <3>1, <3>2 DEF Split, Splitting
  <2>6. Resplitting'
    <3>1. PICK e : Joined(e, suffix, values, i - 1)
      BY <1>1 DEF CInv, Joining
    <3>2. PICK s, vs, m : s = suffix /\ vs = world.values /\ m = Len(schema)
      OBVIOUS
    <3>3. Joined(e, s, vs, m)
      BY <1>2, <2>2, <3>1, <3>2
    <3>4. Joined(e, s, vs, m)'
      BY <1>1, <3>3, JoinedStays
    <3>5. Joined(e, suffix, world.values, Len(schema))'
      BY <1>1, <3>2, <3>4 DEF Joined
    <3>6. ASSUME NEW k \in 0 .. 0 PROVE End(k)' = e[k]
      <4>1. k = 0 /\ e[0] = 0
        BY <3>3 DEF Joined
      <4> QED
        BY <4>1 DEF End
    <3>7. Len(suffix) <= world.options.maxSuffix
      BY <1>1 DEF CInv, Joining
    <3>8. i' - 1 = 0
      BY <2>1
    <3> QED
      BY <1>1, <2>1, <2>2, <2>3, <3>5, <3>6, <3>7, <3>8 DEF Resplitting
  <2>7. Source'
    BY <1>1, <1>6, <2>1 DEF Source
  <2> QED
    BY <2>1, <2>4, <2>5, <2>6, <2>7 DEF CInv, Joining, Rejoining, RoundTrip
<1> QED
  BY <1>3, <1>4, <1>5, <1>6

LEMMA CStep == CInv /\ [Next]_vars => CInv'
<1>1. CInv /\ Next => CInv'
  BY CompileStep, StartStep, RefuseStep, DecodeStep, FinishDecodeStep, EncodeStep,
     FinishEncodeStep DEF Next
<1>2. CInv /\ UNCHANGED vars => CInv'
  <2> SUFFICES ASSUME CInv, UNCHANGED vars PROVE CInv'
    OBVIOUS
  <2>1. UNCHANGED <<world, phase, schema, i, suffix, position, values, arcRanges, reported, failure>>
    BY DEF vars
  <2>2. Typed' /\ Stage' /\ Source' /\ RoundTrip'
    BY <2>1 DEF CInv, Typed, Stage, Source, RoundTrip, Compiled, Constraint
  <2>3. Splitting' /\ Rejoining'
    BY <2>1 DEF CInv, Splitting, Rejoining, Split, End, Canonical, VariableLength, Prefix
  <2>4. Joining' /\ Resplitting'
    BY <2>1 DEF CInv, Joining, Resplitting, Joined, End, Canonical, VariableLength, Prefix
  <2> QED
    BY <2>2, <2>3, <2>4 DEF CInv
<1> QED
  BY <1>1, <1>2

LEMMA CInvHolds == Spec => []CInv
BY InitHolds, CStep, PTL DEF Spec

\* Splitting and joining are each other's inverse, for every clause, suffix, row and
\* limit: a suffix that decode_exact splits without a violation is what encode_canonical
\* joins its values to, and a row that encode_canonical joins is what decode_exact splits
\* the suffix into, but for the failures RoundTrip names.
THEOREM RoundTripHolds == Spec => []RoundTrip
<1>1. CInv => RoundTrip
  BY DEF CInv
<1> QED
  BY <1>1, CInvHolds, PTL

------------------------------------------------------------------------------
(* What an error leaves, and the width of a suffix. *)

Remains == failure["decode"].kind \notin {None, "Limit"} =>
             failure["decode"].remaining = position

LEMMA RemainsStep == CInv /\ Remains /\ [Next]_vars => Remains'
<1> SUFFICES ASSUME CInv, Remains, [Next]_vars PROVE Remains'
  OBVIOUS
<1>1. CASE UNCHANGED vars
  BY <1>1 DEF Remains, vars
<1>2. ASSUME Next PROVE phase # "done" /\ failure = NoFailure
  <2>1. phase # "done"
    BY <1>2 DEF Next, CompileComponent, StartFirst, RefuseSuffix, DecodeLimits, DecodeComponent,
                FinishDecode, EncodeComponent, FinishEncode
  <2> QED
    BY <2>1 DEF CInv, Stage
<1>3. ASSUME failure' = NoFailure PROVE Remains'
  BY <1>3, FreshFailure DEF Remains
<1>4. ASSUME NEW op \in {"compile", "encode"}, NEW kind, Fail(op, kind, 0), failure = NoFailure
      PROVE  Remains'
  BY <1>4, AfterFailure DEF Remains
<1>5. ASSUME NEW kind, Fail("decode", kind, position), failure = NoFailure,
             position' = position
      PROVE  Remains'
  BY <1>5, AfterFailure DEF Remains
<1>6. CASE CompileComponent
  BY <1>2, <1>3, <1>4, <1>6 DEF CompileComponent, Next
<1>7. CASE StartFirst
  BY <1>2, <1>3, <1>4, <1>7 DEF StartFirst, Next
<1>8. CASE RefuseSuffix
  <2>1. Fail("decode", "Limit", 0) /\ failure = NoFailure
    BY <1>2, <1>8 DEF RefuseSuffix, Next
  <2>2. failure'["decode"].kind = "Limit"
    BY <2>1, AfterFailure
  <2> QED
    BY <2>2 DEF Remains
<1>9. CASE DecodeComponent
  <2>1. failure = NoFailure
    BY <1>2, <1>9 DEF Next
  <2>2. CASE Wrong(schema[i], Remaining) # None
    BY <1>5, <1>9, <2>1, <2>2, DecodeCases
  <2>3. CASE Wrong(schema[i], Remaining) = None
    BY <1>3, <1>9, <2>1, <2>3, DecodeCases
  <2> QED
    BY <2>2, <2>3
<1>10. CASE FinishDecode
  <2>1. failure = NoFailure /\ position' = position
    BY <1>2, <1>10 DEF FinishDecode, Next
  <2>2. CASE position # Len(suffix)
    BY <1>5, <1>10, <2>1, <2>2 DEF FinishDecode
  <2>3. CASE position = Len(suffix)
    BY <1>3, <1>10, <2>1, <2>3 DEF FinishDecode
  <2> QED
    BY <2>2, <2>3
<1>11. CASE EncodeComponent
  BY <1>2, <1>3, <1>4, <1>11 DEF EncodeComponent, Next
<1>12. CASE FinishEncode
  BY <1>2, <1>3, <1>4, <1>12 DEF FinishEncode, Next
<1> QED
  BY <1>1, <1>6, <1>7, <1>8, <1>9, <1>10, <1>11, <1>12 DEF Next

\* The ranges of the components that were decoded follow each other up to where decoding
\* has come to, and each of them holds the canonical encoding of its value; that is what
\* an error's remaining arcs begin behind.
THEOREM PrefixRecoverableHolds == Spec => []PrefixRecoverable
<1>1. CInv /\ Remains => PrefixRecoverable
  <2> SUFFICES ASSUME CInv, Remains, phase = "decode" \/ failure["decode"].kind # None
               PROVE  PrefixRecoverable
    BY DEF PrefixRecoverable
  <2>1. Split(suffix) /\ arcRanges \in Seq(Nat \X Nat) /\ values \in Seq(Value)
        /\ Len(values) \in Nat /\ Len(arcRanges) = Len(values)
    BY DEF CInv, Splitting, Typed, Split
  <2>2. DOMAIN arcRanges = 1 .. Len(values)
    BY <2>1, LenProperties
  <2>3. ASSUME NEW k \in 1 .. Len(values)
        PROVE  /\ arcRanges[k][1] = IF k = 1 THEN 0 ELSE arcRanges[k - 1][2]
               /\ SubSeq(suffix, arcRanges[k][1] + 1, arcRanges[k][2])
                    = Encoded(schema[k], values[k].arcs)
    <3>1. /\ arcRanges[k] = <<End(k - 1), End(k)>>
          /\ Piece(suffix, End(k - 1), End(k)) = Encoded(schema[k], values[k].arcs)
      BY <2>1 DEF Split
    <3>2. arcRanges[k][1] = End(k - 1) /\ arcRanges[k][2] = End(k)
      BY <3>1
    <3>3. k - 1 = 0 <=> k = 1
      BY <2>1
    <3> QED
      BY <3>1, <3>2, <3>3 DEF Piece, End
  <2>4. position = IF arcRanges = <<>> THEN 0 ELSE arcRanges[Len(arcRanges)][2]
    <3>1. position = End(Len(values))
      BY <2>1 DEF Split
    <3>2. arcRanges = <<>> <=> Len(arcRanges) = 0
      BY <2>1, EmptySeq
    <3> QED
      BY <2>1, <3>1, <3>2 DEF End
  <2> QED
    BY <2>1, <2>2, <2>3, <2>4 DEF PrefixRecoverable, Remains
<1>2. Init => Remains
  BY FreshFailure DEF Init, Remains
<1> QED
  BY <1>1, <1>2, CInvHolds, RemainsStep, PTL DEF Spec

\* The first n + 1 values of a function that is defined by its value before.
Recursion(f, D, z, n, g) ==
  /\ f \in [0 .. n -> D]
  /\ \A k \in 0 .. n : f[k] = IF k = 0 THEN z ELSE g[k][f[k - 1]]

LEMMA RecursionExists ==
  ASSUME NEW D, NEW z \in D, NEW n \in Nat, NEW g, \A k \in 1 .. n : g[k] \in [D -> D]
  PROVE  \E f : Recursion(f, D, z, n, g)
<1> DEFINE S == {m \in Nat : m <= n => \E f \in [0 .. m -> D] :
                   \A k \in 0 .. m : f[k] = IF k = 0 THEN z ELSE g[k][f[k - 1]]}
<1>1. 0 \in S
  <2> DEFINE f == [k \in 0 .. 0 |-> z]
  <2>1. f \in [0 .. 0 -> D] /\ \A k \in 0 .. 0 : k = 0 /\ f[k] = z
    OBVIOUS
  <2> HIDE DEF f
  <2>2. \A k \in 0 .. 0 : f[k] = IF k = 0 THEN z ELSE g[k][f[k - 1]]
    BY <2>1
  <2> QED
    BY <2>1, <2>2
<1>2. ASSUME NEW m \in Nat, m \in S PROVE m + 1 \in S
  <2> SUFFICES ASSUME m + 1 <= n
               PROVE  \E f \in [0 .. m + 1 -> D] :
                        \A k \in 0 .. m + 1 : f[k] = IF k = 0 THEN z ELSE g[k][f[k - 1]]
    OBVIOUS
  <2>1. PICK h \in [0 .. m -> D] :
          \A k \in 0 .. m : h[k] = IF k = 0 THEN z ELSE g[k][h[k - 1]]
    BY <1>2
  <2> DEFINE f == [k \in 0 .. m + 1 |-> IF k = m + 1 THEN g[m + 1][h[m]] ELSE h[k]]
  <2>2. g[m + 1][h[m]] \in D
    <3>1. m + 1 \in 1 .. n /\ m \in 0 .. m
      OBVIOUS
    <3> QED
      BY <2>1, <3>1
  <2>3. f \in [0 .. m + 1 -> D]
    <3>1. ASSUME NEW k \in 0 .. m + 1, k # m + 1 PROVE h[k] \in D
      <4>1. k \in 0 .. m
        BY <3>1
      <4> QED
        BY <2>1, <4>1
    <3> QED
      BY <2>2, <3>1
  <2>4. ASSUME NEW k \in 0 .. m + 1 PROVE f[k] = IF k = 0 THEN z ELSE g[k][f[k - 1]]
    <3>1. CASE k = m + 1
      <4>1. f[k] = g[m + 1][h[m]] /\ k - 1 = m /\ k # 0 /\ f[m] = h[m]
        BY <3>1
      <4> QED
        BY <3>1, <4>1
    <3>2. CASE k # m + 1
      <4>1. k \in 0 .. m /\ f[k] = h[k]
        BY <3>2
      <4>2. k # 0 => f[k - 1] = h[k - 1]
        BY <4>1
      <4> QED
        BY <2>1, <4>1, <4>2
    <3> QED
      BY <3>1, <3>2
  <2> HIDE DEF f
  <2> QED
    BY <2>3, <2>4
<1> HIDE DEF S
<1>3. n \in S
  BY <1>1, <1>2, Induction
<1> QED
  BY <1>3 DEF S, Recursion

\* The sums of the widths.
Shortest(f) ==
  f = [k \in 0 .. Len(schema) |-> IF k = 0 THEN 0 ELSE f[k - 1] + minimum_width(schema[k])]
Longest(f) ==
  f = [k \in 0 .. Len(schema) |->
         IF k = 0 THEN 0
         ELSE LET below == f[k - 1] IN
              IF below = None \/ maximum_width(schema[k]) = None THEN None
              ELSE below + maximum_width(schema[k])]

LEMMA ShortestExists ==
  ASSUME Len(schema) \in Nat, \A k \in 1 .. Len(schema) : minimum_width(schema[k]) \in Nat
  PROVE  \E f : Shortest(f) /\ minimum_suffix_arcs = f[Len(schema)]
<1>1. \E f : Shortest(f)
  <2>1. PICK g : g = [k \in 1 .. Len(schema) |-> [x \in Nat |-> x + minimum_width(schema[k])]]
    OBVIOUS
  <2>2. ASSUME NEW k \in 1 .. Len(schema)
        PROVE  g[k] \in [Nat -> Nat] /\ \A x \in Nat : g[k][x] = x + minimum_width(schema[k])
    BY <2>1
  <2>3. PICK f \in [0 .. Len(schema) -> Nat] :
          \A k \in 0 .. Len(schema) : f[k] = IF k = 0 THEN 0 ELSE g[k][f[k - 1]]
    <3>1. 0 \in Nat /\ \A k \in 1 .. Len(schema) : g[k] \in [Nat -> Nat]
      BY <2>2
    <3>2. PICK z, n : z = 0 /\ n = Len(schema)
      OBVIOUS
    <3>3. n \in Nat /\ z \in Nat /\ \A k \in 1 .. n : g[k] \in [Nat -> Nat]
      BY <3>1, <3>2
    <3>4. \E f : Recursion(f, Nat, z, n, g)
      BY <3>3, RecursionExists
    <3> QED
      BY <3>2, <3>4 DEF Recursion
  <2>4. ASSUME NEW k \in 0 .. Len(schema)
        PROVE  f[k] = IF k = 0 THEN 0 ELSE f[k - 1] + minimum_width(schema[k])
    <3>1. CASE k = 0
      BY <2>3, <3>1
    <3>2. CASE k # 0
      <4>1. k \in 1 .. Len(schema) /\ k - 1 \in 0 .. Len(schema)
        BY <3>2
      <4> QED
        BY <2>2, <2>3, <3>2, <4>1
    <3> QED
      BY <3>1, <3>2
  <2>5. f = [k \in 0 .. Len(schema) |-> f[k]]
    OBVIOUS
  <2> QED
    BY <2>4, <2>5 DEF Shortest
<1>2. PICK h : h = CHOOSE f : Shortest(f)
  OBVIOUS
<1>3. Shortest(h)
  BY <1>1, <1>2
<1>4. minimum_suffix_arcs = h[Len(schema)]
  BY <1>2 DEF minimum_suffix_arcs, Shortest
<1> QED
  BY <1>3, <1>4

LEMMA LongestExists ==
  ASSUME Len(schema) \in Nat,
         \A k \in 1 .. Len(schema) : maximum_width(schema[k]) \in Nat \cup {None}
  PROVE  \E f : Longest(f) /\ maximum_suffix_arcs = f[Len(schema)]
<1> DEFINE D == Nat \cup {None}
           Plus(x, y) == IF x = None \/ y = None THEN None ELSE x + y
<1>1. \E f : Longest(f)
  <2>1. PICK g : g = [k \in 1 .. Len(schema) |->
                        [x \in D |-> Plus(x, maximum_width(schema[k]))]]
    OBVIOUS
  <2>2. ASSUME NEW k \in 1 .. Len(schema)
        PROVE  g[k] \in [D -> D] /\ \A x \in D : g[k][x] = Plus(x, maximum_width(schema[k]))
    <3>1. \A x, y \in D : Plus(x, y) \in D
      OBVIOUS
    <3> QED
      BY <2>1, <3>1
  <2>3. PICK f \in [0 .. Len(schema) -> D] :
          \A k \in 0 .. Len(schema) : f[k] = IF k = 0 THEN 0 ELSE g[k][f[k - 1]]
    <3>1. 0 \in D /\ \A k \in 1 .. Len(schema) : g[k] \in [D -> D]
      BY <2>2
    <3>2. PICK z, n : z = 0 /\ n = Len(schema)
      OBVIOUS
    <3>3. n \in Nat /\ z \in D /\ \A k \in 1 .. n : g[k] \in [D -> D]
      BY <3>1, <3>2
    <3> HIDE DEF D
    <3>4. \E f : Recursion(f, D, z, n, g)
      BY <3>3, RecursionExists
    <3> QED
      BY <3>2, <3>4 DEF Recursion
  <2> HIDE DEF D
  <2>4. ASSUME NEW k \in 0 .. Len(schema)
        PROVE  f[k] = IF k = 0 THEN 0 ELSE Plus(f[k - 1], maximum_width(schema[k]))
    <3>1. CASE k = 0
      BY <2>3, <3>1
    <3>2. CASE k # 0
      <4>1. k \in 1 .. Len(schema) /\ k - 1 \in 0 .. Len(schema)
        BY <3>2
      <4>2. f[k - 1] \in D /\ f[k] = g[k][f[k - 1]]
        BY <2>3, <3>2, <4>1
      <4> QED
        BY <2>2, <3>2, <4>1, <4>2
    <3> QED
      BY <3>1, <3>2
  <2>5. f = [k \in 0 .. Len(schema) |-> f[k]]
    OBVIOUS
  <2> QED
    BY <2>4, <2>5 DEF Longest
<1>2. PICK h : h = CHOOSE f : Longest(f)
  OBVIOUS
<1>3. Longest(h)
  BY <1>1, <1>2
<1>4. maximum_suffix_arcs = h[Len(schema)]
  BY <1>2 DEF maximum_suffix_arcs, Longest
<1> QED
  BY <1>3, <1>4

LEMMA ProvenEndsType ==
  ASSUME NEW m \in Nat, NEW c, Constraint(c, m)
  PROVE  /\ proven_minimum(c) \in Nat \cup {None}
         /\ proven_maximum(c) \in Nat \cup {None}
<1>1. CASE c.kind \in {"Unspecified", "Empty"}
  BY <1>1 DEF proven_minimum, proven_maximum
<1>2. CASE c.kind \notin {"Unspecified", "Empty"}
  <2> DEFINE low  == c.known \cup {r.min.n : r \in c.partial}
             high == c.known \cup {r.max.n : r \in c.partial}
  <2>1. /\ (\A r \in c.partial : r.min # Raw) => low \in SUBSET (0 .. m) /\ low # {}
        /\ (\A r \in c.partial : r.max # Raw) => high \in SUBSET (0 .. m) /\ high # {}
    BY <1>2, EndsKnown
  <2>2. /\ proven_minimum(c) = IF \E r \in c.partial : r.min = Raw THEN None ELSE Smallest(low)
        /\ proven_maximum(c) = IF \E r \in c.partial : r.max = Raw THEN None ELSE Largest(high)
    BY <1>2 DEF proven_minimum, proven_maximum
  <2> HIDE DEF low, high
  <2>3. 0 .. m \subseteq Nat
    OBVIOUS
  <2>4. (\A r \in c.partial : r.min # Raw) => Smallest(low) \in Nat
    BY <2>1, <2>3, SmallestIs
  <2>5. (\A r \in c.partial : r.max # Raw) => Largest(high) \in Nat
    BY <2>1, <2>3, LargestIs
  <2> QED
    BY <2>2, <2>4, <2>5
<1> QED
  BY <1>1, <1>2

LEMMA WidthType ==
  ASSUME NEW w, Compiled(w)
  PROVE  minimum_width(w) \in Nat /\ maximum_width(w) \in Nat \cup {None}
<1>1. /\ proven_minimum(w.lengths) \in Nat \cup {None}
      /\ proven_maximum(w.lengths) \in Nat \cup {None}
      /\ w.framing.length \in Nat
  BY CodecAssumption, ProvenEndsType DEF Compiled
<1> QED
  BY <1>1 DEF minimum_width, maximum_width

\* The encoding of a value within the constraints is within the width of its component.
LEMMA WidthOfValue ==
  ASSUME NEW w, Compiled(w), NEW v, Canonical(w, v), ~ Violates(w, v.arcs)
  PROVE  /\ Len(Encoded(w, v.arcs)) \in Nat
         /\ minimum_width(w) <= Len(Encoded(w, v.arcs))
         /\ maximum_width(w) # None => Len(Encoded(w, v.arcs)) <= maximum_width(w)
<1> DEFINE n == Len(v.arcs)
<1>1. n \in Nat /\ v.arcs \in Seq(Arc) /\ (w.framing.form = "Fixed" => n = w.framing.length)
  BY DEF Canonical
<1>2. Prefix(w) \in {0, 1} /\ Len(Encoded(w, v.arcs)) = Prefix(w) + n
  BY EncodedType DEF Canonical
<1>3. CASE w.framing.form = "Fixed"
  <2>1. Prefix(w) = 0 /\ minimum_width(w) = n /\ maximum_width(w) = n
    BY <1>1, <1>3 DEF Prefix, minimum_width, maximum_width
  <2> QED
    BY <1>1, <1>2, <2>1
<1>4. CASE w.framing.form # "Fixed"
  <2>1. VariableLength(w) /\ ~ IsInteger(w.kind)
    BY <1>4 DEF Compiled, Kinds, VariableLength, IsInteger
  <2>2. check(w.lengths, n) # "Violation"
    BY <2>1 DEF Violates
  <2>3. /\ proven_minimum(w.lengths) # None => proven_minimum(w.lengths) \in 0 .. n
        /\ proven_maximum(w.lengths) # None =>
             proven_maximum(w.lengths) \in Nat /\ n <= proven_maximum(w.lengths)
    BY <1>1, <2>2, CodecAssumption, WithinProvenEnds DEF Compiled
  <2>4. /\ minimum_width(w) = Prefix(w) + (IF proven_minimum(w.lengths) = None THEN 0
                                           ELSE proven_minimum(w.lengths))
        /\ maximum_width(w) = IF proven_maximum(w.lengths) = None THEN None
                              ELSE Prefix(w) + proven_maximum(w.lengths)
    BY <1>4 DEF minimum_width, maximum_width, Prefix
  <2> HIDE DEF n
  <2> QED
    BY <1>1, <1>2, <2>3, <2>4
<1> QED
  BY <1>3, <1>4

\* A suffix made of the encodings of one value for each component.
LEMMA WidthOfSuffix ==
  ASSUME NEW s \in Seq(Arc), NEW vs, NEW e, Joined(e, s, vs, Len(schema)), Len(schema) \in Nat,
         \A k \in 1 .. Len(schema) : Compiled(schema[k])
  PROVE  /\ minimum_suffix_arcs <= Len(s)
         /\ maximum_suffix_arcs # None => Len(s) <= maximum_suffix_arcs
<1> DEFINE n == Len(schema)
           width(k) == Len(Encoded(schema[k], vs[k].arcs))
<1>1. Len(s) \in Nat /\ n \in Nat /\ e[0] = 0 /\ e[n] = Len(s)
  BY DEF Joined
<1>2. ASSUME NEW k \in 1 .. n
      PROVE  /\ e[k - 1] \in Nat /\ e[k] = e[k - 1] + width(k) /\ width(k) \in Nat
             /\ minimum_width(schema[k]) \in Nat /\ minimum_width(schema[k]) <= width(k)
             /\ maximum_width(schema[k]) \in Nat \cup {None}
             /\ maximum_width(schema[k]) # None => width(k) <= maximum_width(schema[k])
  <2>1. /\ e[k - 1] \in 0 .. e[k]
        /\ Piece(s, e[k - 1], e[k]) = Encoded(schema[k], vs[k].arcs)
        /\ Canonical(schema[k], vs[k]) /\ ~ Violates(schema[k], vs[k].arcs)
        /\ e[k] \in 0 .. Len(s) /\ Compiled(schema[k])
    BY DEF Joined
  <2>2. PICK a, b : a = e[k - 1] /\ b = e[k]
    OBVIOUS
  <2>3. b \in 0 .. Len(s) /\ a \in 0 .. b
    BY <2>1, <2>2
  <2>4. Len(Piece(s, a, b)) = b - a
    BY <2>3, PieceType
  <2>5. width(k) = b - a
    BY <2>1, <2>2, <2>4
  <2>6. a \in Nat /\ b = a + (b - a)
    BY <1>1, <2>3
  <2> QED
    BY <2>1, <2>2, <2>5, <2>6, WidthType, WidthOfValue
<1> HIDE DEF width
<1>3. minimum_suffix_arcs <= Len(s)
  <2>1. PICK f : Shortest(f) /\ minimum_suffix_arcs = f[n]
    BY <1>2, ShortestExists
  <2>2. \A k \in 0 .. n : f[k] = IF k = 0 THEN 0 ELSE f[k - 1] + minimum_width(schema[k])
    BY <2>1 DEF Shortest
  <2> DEFINE S == {k \in Nat : k <= n => f[k] \in Nat /\ f[k] <= e[k]}
  <2>3. 0 \in S
    BY <1>1, <2>2
  <2>4. ASSUME NEW k \in Nat, k \in S PROVE k + 1 \in S
    <3> SUFFICES ASSUME k + 1 <= n PROVE f[k + 1] \in Nat /\ f[k + 1] <= e[k + 1]
      OBVIOUS
    <3>1. k + 1 \in 1 .. n /\ k + 1 \in 0 .. n /\ k + 1 # 0 /\ (k + 1) - 1 = k /\ k <= n
      BY <1>1
    <3>2. f[k] \in Nat /\ f[k] <= e[k]
      BY <2>4, <3>1
    <3>3. f[k + 1] = f[k] + minimum_width(schema[k + 1])
      BY <2>2, <3>1
    <3>4. /\ e[k] \in Nat /\ e[k + 1] = e[k] + width(k + 1) /\ width(k + 1) \in Nat
          /\ minimum_width(schema[k + 1]) \in Nat
          /\ minimum_width(schema[k + 1]) <= width(k + 1)
      BY <1>2, <3>1
    <3> QED
      BY <3>2, <3>3, <3>4
  <2> HIDE DEF S
  <2>5. n \in S
    BY <1>1, <2>3, <2>4, Induction
  <2> QED
    BY <1>1, <2>1, <2>5 DEF S
<1>4. maximum_suffix_arcs # None => Len(s) <= maximum_suffix_arcs
  <2>1. PICK f : Longest(f) /\ maximum_suffix_arcs = f[n]
    BY <1>2, LongestExists
  <2>2. \A k \in 0 .. n :
          f[k] = IF k = 0 THEN 0
                 ELSE IF f[k - 1] = None \/ maximum_width(schema[k]) = None THEN None
                 ELSE f[k - 1] + maximum_width(schema[k])
    BY <2>1 DEF Longest
  <2> DEFINE S == {k \in Nat : k <= n /\ f[k] # None => f[k] \in Nat /\ e[k] <= f[k]}
  <2>3. 0 \in S
    BY <1>1, <2>2
  <2>4. ASSUME NEW k \in Nat, k \in S PROVE k + 1 \in S
    <3> SUFFICES ASSUME k + 1 <= n, f[k + 1] # None
                 PROVE  f[k + 1] \in Nat /\ e[k + 1] <= f[k + 1]
      OBVIOUS
    <3>1. k + 1 \in 1 .. n /\ k + 1 \in 0 .. n /\ k + 1 # 0 /\ (k + 1) - 1 = k /\ k <= n
      BY <1>1
    <3>2. /\ f[k] # None /\ maximum_width(schema[k + 1]) # None
          /\ f[k + 1] = f[k] + maximum_width(schema[k + 1])
      BY <2>2, <3>1
    <3>3. f[k] \in Nat /\ e[k] <= f[k]
      BY <2>4, <3>1, <3>2
    <3>4. /\ e[k] \in Nat /\ e[k + 1] = e[k] + width(k + 1) /\ width(k + 1) \in Nat
          /\ maximum_width(schema[k + 1]) \in Nat
          /\ width(k + 1) <= maximum_width(schema[k + 1])
      BY <1>2, <3>1, <3>2
    <3> QED
      BY <3>2, <3>3, <3>4
  <2> HIDE DEF S
  <2>5. n \in S
    BY <1>1, <2>3, <2>4, Induction
  <2> QED
    BY <1>1, <2>1, <2>5 DEF S
<1> QED
  BY <1>3, <1>4

\* A suffix that was split without a violation, and one that was joined, has at least as
\* many arcs as minimum_suffix_arcs and at most as many as maximum_suffix_arcs.
THEOREM WithinWidthHolds == Spec => []WithinWidth
<1>1. CInv => WithinWidth
  <2> SUFFICES ASSUME CInv, i > Len(schema), phase = "encode" \/ SplitWithoutViolation
               PROVE  /\ minimum_suffix_arcs <= Len(suffix)
                      /\ maximum_suffix_arcs # None => Len(suffix) <= maximum_suffix_arcs
    BY DEF WithinWidth
  <2>1. /\ suffix \in Seq(Arc) /\ schema \in Seq(Wires) /\ Len(schema) \in Nat /\ i \in Nat
        /\ \A k \in 1 .. Len(schema) : Compiled(schema[k])
        /\ phase \in {"decode", "encode"} /\ i <= Len(schema) + 1
        /\ Len(suffix) \in Nat
    BY DEF CInv, Typed, Stage, SplitWithoutViolation
  <2>2. i - 1 = Len(schema)
    BY <2>1
  <2>3. \E e : Joined(e, suffix, values, Len(schema))
    <3>1. CASE phase = "encode"
      BY <2>2, <3>1 DEF CInv, Joining
    <3>2. CASE SplitWithoutViolation
      <4>1. phase = "decode" /\ position = Len(suffix) /\ reported = {}
        BY <3>2 DEF SplitWithoutViolation
      <4>2. Len(values) = Len(schema) /\ Split(suffix)
        BY <2>2, <4>1 DEF CInv, Stage, Splitting
      <4>3. PICK e : e = [k \in 0 .. Len(schema) |-> End(k)]
        OBVIOUS
      <4>4. ASSUME NEW k \in 0 .. Len(schema)
            PROVE  e[k] = End(k) /\ End(k) \in 0 .. Len(suffix)
        <5>1. CASE k = 0
          BY <2>1, <4>3, <5>1 DEF End
        <5>2. CASE k # 0
          <6>1. k \in 1 .. Len(values)
            BY <4>2, <5>2
          <6> QED
            BY <4>2, <4>3, <6>1 DEF Split
        <5> QED
          BY <5>1, <5>2
      <4>5. e \in [0 .. Len(schema) -> 0 .. Len(suffix)] /\ e[0] = 0
        <5>1. 0 \in 0 .. Len(schema)
          BY <2>1
        <5> QED
          BY <4>3, <4>4, <5>1 DEF End
      <4>6. e[Len(schema)] = Len(suffix)
        <5>1. Len(schema) \in 0 .. Len(schema)
          BY <2>1
        <5> QED
          BY <4>1, <4>2, <4>4, <5>1 DEF Split
      <4>7. ASSUME NEW k \in 1 .. Len(schema)
            PROVE  /\ e[k - 1] \in 0 .. e[k]
                   /\ Piece(suffix, e[k - 1], e[k]) = Encoded(schema[k], values[k].arcs)
                   /\ Canonical(schema[k], values[k]) /\ ~ Violates(schema[k], values[k].arcs)
        <5>1. k \in 1 .. Len(values) /\ k \notin reported
          BY <4>1, <4>2
        <5>2. k \in 0 .. Len(schema) /\ k - 1 \in 0 .. Len(schema)
          BY <2>1
        <5>3. e[k] = End(k) /\ e[k - 1] = End(k - 1)
          BY <4>4, <5>2
        <5> QED
          BY <4>2, <5>1, <5>3 DEF Split
      <4> QED
        BY <4>5, <4>6, <4>7 DEF Joined
    <3> QED
      BY <3>1, <3>2
  <2> QED
    BY <2>1, <2>3, WidthOfSuffix
<1> QED
  BY <1>1, CInvHolds, PTL

------------------------------------------------------------------------------
(* Types. *)

Operations == {"compile", "decode", "encode"}

Counts == /\ i \in 1 .. Len(world.declared) + 1
          /\ position \in 0 .. Len(world.suffix) + Len(suffix)
          /\ Len(arcRanges) <= Len(schema) /\ reported \subseteq 1 .. Len(arcRanges)

Failures == /\ DOMAIN failure = Operations
            /\ \A op \in Operations : failure[op].remaining <= position

LEMMA CountsStep == CInv /\ Counts /\ Next => Counts'
<1> SUFFICES ASSUME CInv, Counts, Next PROVE Counts'
  OBVIOUS
<1>1. CInv' /\ world' = world
  BY CStep DEF Next, CompileComponent, StartFirst, RefuseSuffix, DecodeComponent, FinishDecode,
               EncodeComponent, FinishEncode
<1>2. /\ Len(world.declared) \in Nat /\ Len(world.suffix) \in Nat /\ Len(suffix) \in Nat
      /\ Len(suffix') \in Nat /\ Len(schema) \in Nat /\ Len(schema') \in Nat
      /\ world.suffix \in Seq(Arc) /\ i \in Nat \ {0}
  BY <1>1, WorldFacts DEF CInv, Typed
<1>3. ASSUME phase' = "decode" PROVE Counts'
  <2>1. Split(suffix)' /\ i' \in 1 .. Len(schema') + 1 /\ Len(schema') = Len(world'.declared)
    BY <1>1, <1>3 DEF CInv, Splitting, Stage
  <2> QED
    BY <1>1, <1>2, <2>1 DEF Split, Counts
<1>4. ASSUME phase' = phase \/ phase' = "done", i' = i \/ (i' = i + 1 /\ i <= Len(world.declared)),
             Len(suffix) <= Len(suffix'), Len(schema) <= Len(schema'),
             UNCHANGED <<position, arcRanges, reported>>
      PROVE  Counts'
  <2>1. i' \in 1 .. Len(world.declared) + 1
    BY <1>2, <1>4 DEF Counts
  <2>2. position' \in 0 .. Len(world'.suffix) + Len(suffix')
    BY <1>1, <1>2, <1>4 DEF Counts
  <2>3. Len(arcRanges') <= Len(schema')
    <3>1. Len(arcRanges) \in Nat
      BY DEF CInv, Typed
    <3> QED
      BY <1>2, <1>4, <3>1 DEF Counts
  <2> QED
    BY <1>1, <1>4, <2>1, <2>2, <2>3 DEF Counts
<1>5. CASE CompileComponent
  <2>1. /\ UNCHANGED <<suffix, position, arcRanges, reported>> /\ i <= Len(world.declared)
        /\ phase' = phase \/ phase' = "done"
        /\ i' = i \/ i' = i + 1
    BY <1>5 DEF CompileComponent, Fail
  <2>2. Len(schema) <= Len(schema')
    <3>1. schema' = schema \/ schema' = Append(schema, Wire(world.declared[i]))
      BY <1>5 DEF CompileComponent
    <3>2. schema' # schema => Len(schema') = Len(schema) + 1
      BY <1>2, <3>1, AppendProperties DEF CInv, Typed
    <3> QED
      BY <1>2, <3>2
  <2> QED
    BY <1>2, <1>4, <2>1, <2>2
<1>6. CASE StartFirst
  <2>1. /\ UNCHANGED <<schema, position, arcRanges, reported>>
        /\ suffix = <<>> /\ (i' = i \/ i' = 1)
    BY <1>6 DEF StartFirst, CInv, Stage
  <2>2. Len(suffix) = 0
    BY <2>1
  <2>3. i' \in 1 .. Len(world.declared) + 1
    BY <1>2, <2>1 DEF Counts
  <2>4. position' \in 0 .. Len(world'.suffix) + Len(suffix')
    BY <1>1, <1>2, <2>1, <2>2 DEF Counts
  <2> QED
    BY <1>1, <2>1, <2>3, <2>4 DEF Counts
<1>7. CASE RefuseSuffix
  BY <1>2, <1>4, <1>7 DEF RefuseSuffix, Fail
<1>8. CASE DecodeComponent
  <2>1. phase = "decode" /\ UNCHANGED <<world, schema, suffix>>
    BY <1>8, DecodeCases
  <2>2. CASE Wrong(schema[i], Remaining) # None
    BY <1>2, <1>4, <1>8, <2>1, <2>2, DecodeCases DEF Fail
  <2>3. CASE Wrong(schema[i], Remaining) = None
    BY <1>3, <1>8, <2>1, <2>3, DecodeCases
  <2> QED
    BY <2>2, <2>3
<1>9. CASE FinishDecode
  <2>1. UNCHANGED <<schema, position, arcRanges, reported>>
    BY <1>9 DEF FinishDecode
  <2>2. CASE phase' = "encode"
    <3>1. i' = 1 /\ world.first = "decode"
      BY <1>9, <2>2 DEF FinishDecode, Fail
    <3>2. position' = Len(world'.suffix)
      BY <1>1, <2>2, <3>1 DEF CInv, Rejoining
    <3> QED
      BY <1>1, <1>2, <2>1, <3>1, <3>2 DEF Counts
  <2>3. CASE phase' # "encode"
    <3>1. phase' = "done" /\ UNCHANGED <<i, suffix>>
      BY <1>9, <2>3 DEF FinishDecode, Fail
    <3> QED
      BY <1>2, <1>4, <2>1, <3>1
  <2> QED
    BY <2>2, <2>3
<1>10. CASE EncodeComponent
  <2>1. /\ UNCHANGED <<schema, position, arcRanges, reported>> /\ phase = "encode"
        /\ phase' = phase \/ phase' = "done"
        /\ (i' = i /\ suffix' = suffix)
           \/ (/\ i' = i + 1 /\ suffix' = suffix \o Encoded(schema[i], values[i].arcs)
               /\ phase' = "encode")
    BY <1>10 DEF EncodeComponent, Fail
  <2>2. i <= Len(world.declared)
    BY <1>2, <1>10, <2>1 DEF EncodeComponent, CInv, Stage
  <2>3. Len(suffix) <= Len(suffix')
    <3>1. CASE suffix' = suffix
      BY <1>2, <3>1
    <3>2. CASE suffix' # suffix
      <4>1. i' = i + 1 /\ phase' = "encode" /\ i <= Len(schema) /\ UNCHANGED <<world, values>>
        BY <1>10, <2>1, <3>2 DEF EncodeComponent
      <4>2. PICK n : n = i
        OBVIOUS
      <4>3. PICK f : Joined(f, suffix, values, i - 1)'
        BY <1>1, <4>1 DEF CInv, Joining
      <4>4. Canonical(schema[n], values[n])'
        <5>1. n \in 1 .. i' - 1
          BY <1>2, <4>1, <4>2
        <5> QED
          BY <4>3, <5>1 DEF Joined
      <4>5. Canonical(schema[n], values[n])
        BY <2>1, <4>1, <4>4 DEF Canonical, VariableLength, Prefix
      <4>6. Encoded(schema[n], values[n].arcs) \in Seq(Arc)
        BY <4>5, EncodedType DEF Canonical
      <4>7. Len(suffix') = Len(suffix) + Len(Encoded(schema[n], values[n].arcs))
        BY <2>1, <3>2, <4>2, <4>6, PieceOfConcat DEF CInv, Typed
      <4> QED
        BY <1>2, <4>6, <4>7
    <3> QED
      BY <3>1, <3>2
  <2> QED
    BY <1>2, <1>4, <2>1, <2>2, <2>3
<1>11. CASE FinishEncode
  <2>1. UNCHANGED <<schema, suffix, position, arcRanges, reported>> /\ (i' = i \/ i' = 1)
    BY <1>11 DEF FinishEncode
  <2> QED
    BY <1>1, <1>2, <2>1 DEF Counts
<1> QED
  BY <1>5, <1>6, <1>7, <1>8, <1>9, <1>10, <1>11 DEF Next

LEMMA FailuresStep == CInv /\ Counts /\ Failures /\ Next => Failures'
<1> SUFFICES ASSUME CInv, Counts, Failures, Next PROVE Failures'
  OBVIOUS
<1>1. phase # "done" /\ failure = NoFailure
  <2>1. phase # "done"
    BY DEF Next, CompileComponent, StartFirst, RefuseSuffix, DecodeLimits, DecodeComponent,
           FinishDecode, EncodeComponent, FinishEncode
  <2> QED
    BY <2>1 DEF CInv, Stage
<1>2. position \in Nat /\ position' \in Nat
  <2>1. CInv'
    BY CStep
  <2> QED
    BY <2>1 DEF CInv, Typed
<1>3. ASSUME failure' = failure PROVE Failures'
  BY <1>1, <1>2, <1>3 DEF Failures, NoFailure, Operations
<1>4. ASSUME NEW op \in Operations, NEW kind, NEW from \in 0 .. position,
             Fail(op, kind, from), position' = position
      PROVE  Failures'
  <2>1. failure' = [NoFailure EXCEPT ![op] = [kind |-> kind, component |-> i, remaining |-> from]]
    BY <1>1, <1>4 DEF Fail
  <2>2. \A other \in Operations : failure'[other].remaining \in {0, from}
    BY <2>1 DEF NoFailure, Operations
  <2>3. DOMAIN failure' = Operations
    BY <2>1 DEF NoFailure, Operations
  <2> QED
    BY <1>2, <1>4, <2>2, <2>3 DEF Failures
<1>5. /\ \A op \in Operations : \A kind : Fail(op, kind, 0) /\ position' = position => Failures'
      /\ \A kind : Fail("decode", kind, position) /\ position' = position => Failures'
  <2>1. 0 \in 0 .. position /\ position \in 0 .. position /\ "decode" \in Operations
    BY <1>2 DEF Operations
  <2> QED
    BY <1>4, <2>1
<1>6. CASE DecodeComponent
  BY <1>3, <1>5, <1>6, DecodeCases
<1>7. CASE FinishDecode
  <2>1. position' = position
    BY <1>7 DEF FinishDecode
  <2>2. Fail("decode", "TrailingArcs", position) \/ failure' = failure
    BY <1>7 DEF FinishDecode
  <2> QED
    BY <1>3, <1>5, <2>1, <2>2
<1>8. CASE ~ DecodeComponent /\ ~ FinishDecode
  <2>1. position' = position
    BY <1>8 DEF Next, CompileComponent, StartFirst, RefuseSuffix, EncodeComponent, FinishEncode
  <2>2. failure' = failure \/ \E op \in Operations : \E kind : Fail(op, kind, 0)
    BY <1>8 DEF Next, CompileComponent, StartFirst, RefuseSuffix, EncodeComponent, FinishEncode,
                Operations
  <2> QED
    BY <1>3, <1>5, <2>1, <2>2
<1> QED
  BY <1>6, <1>7, <1>8

\* The variables have their types.
THEOREM TypeCorrect == Spec => []TypeOK
<1>1. Init => Counts /\ Failures
  <2> SUFFICES ASSUME Init PROVE Counts /\ Failures
    OBVIOUS
  <2>1. /\ i = 1 /\ position = 0 /\ arcRanges = <<>> /\ reported = {} /\ schema = <<>>
        /\ suffix = <<>> /\ failure = NoFailure
    BY DEF Init
  <2>2. world \in World
    BY InitHolds DEF CInv, Typed
  <2>3. Len(world.suffix) \in Nat /\ Len(suffix) = 0 /\ Len(arcRanges) = 0 /\ Len(schema) = 0
        /\ Len(world.declared) \in Nat
    BY <2>1, <2>2, WorldFacts
  <2> QED
    BY <2>1, <2>3 DEF Counts, Failures, NoFailure, Operations
<1>2. CInv /\ Counts /\ Failures /\ [Next]_vars => Counts' /\ Failures'
  <2>1. CInv /\ Counts /\ Failures /\ UNCHANGED vars => Counts' /\ Failures'
    BY DEF Counts, Failures, vars
  <2> QED
    BY <2>1, CountsStep, FailuresStep
<1>3. CInv /\ Counts /\ Failures => TypeOK
  <2> SUFFICES ASSUME CInv, Counts, Failures PROVE TypeOK
    OBVIOUS
  <2>1. DOMAIN arcRanges = 1 .. Len(arcRanges)
    BY LenProperties DEF CInv, Typed
  <2> QED
    BY <2>1 DEF TypeOK, CInv, Typed, Counts, Failures
<1> QED
  BY <1>1, <1>2, <1>3, CInvHolds, PTL DEF Spec
==============================================================================
