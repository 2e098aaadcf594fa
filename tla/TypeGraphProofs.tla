--------------------------- MODULE TypeGraphProofs ---------------------------
(***************************************************************************)
(* What the type phase keeps for all modules, definitions and imports: its *)
(* types, and that references close no circle of parents.  The argument    *)
(* for the latter is that a circle of parents would be one of references,  *)
(* whose members were left without a parent.                               *)
(***************************************************************************)
EXTENDS TypeGraph, SequenceTheorems, WellFoundedInduction, TLAPS

(* Numbers and sequences. *)

\* A non-empty set of numbers has a smallest one.
LEMMA SmallestMember ==
  ASSUME NEW S \in SUBSET Nat, S # {}
  PROVE  \E x \in S : \A y \in S : x <= y
<1>1. \A x, y \in Nat : y < x => <<y, x>> \in OpToRel(<, Nat)
  BY DEF OpToRel
<1>2. PICK x \in S : \A y \in S : ~ (<<y, x>> \in OpToRel(<, Nat))
  BY WFMin, NatLessThanWellFounded
<1>3. \A y \in S : ~ (y < x)
  BY <1>1, <1>2
<1> QED
  BY <1>3

\* A non-empty set of numbers up to n has a largest one.
LEMMA LargestMember ==
  ASSUME NEW n \in Nat, NEW S \in SUBSET (1 .. n), S # {}
  PROVE  \E x \in S : \A y \in S : y <= x
<1> DEFINE D == {n - x : x \in S}
<1>1. D \in SUBSET Nat /\ D # {}
  <2>1. \A x \in S : x \in Int /\ 1 <= x /\ x <= n /\ n - x \in Nat
    OBVIOUS
  <2> QED
    BY <2>1
<1>2. PICK d \in D : \A e \in D : d <= e
  <2> HIDE DEF D
  <2> QED
    BY <1>1, SmallestMember
<1>3. PICK x \in S : d = n - x
  OBVIOUS
<1>4. \A y \in S : n - x <= n - y
  BY <1>2, <1>3
<1> QED
  BY <1>3, <1>4

\* A function on 1 .. n is a sequence of length n.
LEMMA FunctionIsSeq ==
  ASSUME NEW n \in Nat, NEW S, NEW f \in [1 .. n -> S]
  PROVE  f \in Seq(S) /\ Len(f) = n
BY IsASeq, LenProperties

------------------------------------------------------------------------------
(* The constraint algebra keeps its types. *)

LEMMA BoundType ==
  /\ MIN \in Bound /\ MAX \in Bound /\ Raw \in Bound
  /\ \A i \in Int : Num(i) \in Bound
BY DEF MIN, MAX, Raw, Num, Bound

LEMMA MeetType ==
  ASSUME NEW c \in Interval, NEW p \in Interval
  PROVE  Meet(c, p) \in Interval
<1>1. {c.min, c.max, p.min, p.max} \subseteq Bound
  BY DEF Interval
<1>2. Lower(c, p) \in Bound /\ Upper(c, p) \in Bound
  BY <1>1 DEF Lower, Upper
<1>3. \A l, r \in Bound : Greatest(l, r) \in Bound /\ Least(l, r) \in Bound
  BY DEF Greatest, Least
<1> QED
  BY <1>1, <1>2, <1>3 DEF Meet, Interval

LEMMA IntersectType ==
  ASSUME NEW own \in SUBSET Interval, NEW up \in SUBSET Interval
  PROVE  Intersect(own, up) \in SUBSET Interval
<1>1. \A cp \in own \X up : Meet(cp[1], cp[2]) \in Interval
  BY MeetType
<1> QED
  BY <1>1 DEF Intersect

LEMMA ConstraintType ==
  ASSUME NEW own \in SUBSET Interval, NEW up \in Constraint, NEW base, NEW s \in BOOLEAN
  PROVE  /\ Inherited(own, up, base, s) \in Constraint
         /\ Effective(own, Inherited(own, up, base, s)) \in Constraint
<1>1. \A lo, hi \in Int : Between(lo, hi) \in Interval
  BY BoundType DEF Between, Interval
<1>2. BaseConstraint(base, s) \in SUBSET Interval
  <2>1. {Between(0, SizeMax), Between(IntMin, IntMax), Between(0, UIntMax),
         Between(0, UInt64Max)} \subseteq Interval
    BY <1>1, RangesAssumption
  <2>2. BaseConstraint(base, s)
          \in {{Between(0, SizeMax)}, {Between(IntMin, IntMax)}, {Between(0, UIntMax)},
               {Between(0, UInt64Max)}, {}}
    <3>1. CASE s
      BY <3>1 DEF BaseConstraint
    <3>2. CASE ~ s /\ base = "Integer32"
      BY <3>2 DEF BaseConstraint
    <3>3. CASE ~ s /\ base \in {"Unsigned32", "Gauge32", "TimeTicks", "Counter32"}
      BY <3>3 DEF BaseConstraint
    <3>4. CASE ~ s /\ base = "Counter64"
      BY <3>4 DEF BaseConstraint
    <3>5. CASE ~ s /\ base \notin {"Integer32", "Unsigned32", "Gauge32", "TimeTicks", "Counter32",
                                  "Counter64"}
      BY <3>5 DEF BaseConstraint
    <3> QED
      BY <3>1, <3>2, <3>3, <3>4, <3>5
  <2> QED
    BY <2>1, <2>2
<1>3. \A v \in SUBSET Interval : Constrained(v) \in Constraint
  BY DEF Constrained, Constraint
<1>4. Inherited(own, up, base, s) \in Constraint
  BY <1>2, <1>3 DEF Inherited
<1>5. \A p \in Constraint : Effective(own, p) \in Constraint
  <2>1. TAKE p \in Constraint
  <2>2. p.values \in SUBSET Interval
    BY DEF Constraint
  <2> QED
    BY <1>3, <2>1, <2>2, IntersectType DEF Effective
<1> QED
  BY <1>4, <1>5

------------------------------------------------------------------------------
(* What is looked up. *)

\* Nothing refers to types before they are all created.
Early == /\ phase = "seed" => types = <<>>
         /\ phase \in {"seed", "create"} =>
              stack = <<>> /\ cyclic = {} /\ unresolved = {} /\ used = {}

Inv == TypeOK /\ world \in Worlds /\ Early

LEMMA DefType ==
  ASSUME world \in Worlds, NEW i \in DOMAIN world.defs
  PROVE  /\ world.defs[i] \in Definition
         /\ i \in Nat /\ DOMAIN world.defs = 1 .. Len(world.defs) /\ Len(world.defs) \in Nat
         /\ world.defs[i].name \notin PrimitiveNames
<1>1. world.defs \in Seq(Definition)
  BY TypeGraphAssumption DEF World
<1>2. DOMAIN world.defs = 1 .. Len(world.defs) /\ Len(world.defs) \in Nat
  BY <1>1, LenProperties
<1>3. world.defs[i] \in Definition
  BY <1>1, ElementOfSeq, <1>2
<1> QED
  BY <1>2, <1>3, TypeGraphAssumption

\* A name leads to a type or to nothing.
LEMMA LookupType ==
  ASSUME Inv, NEW m \in Module, NEW n \in Name
  PROVE  Lookup(m, n) \in 0 .. Len(types)
<1>1. symbol \in [Module -> [Name -> 0 .. Len(types)]] /\ {SMI, TC, RFC1155} \subseteq Module
  BY TypeGraphAssumption DEF Inv, TypeOK
<1>2. \A i \in DOMAIN Fallbacks : i \in Nat /\ Fallbacks[i] \in Module
  BY <1>1 DEF Fallbacks
<1>3. WellKnown(n) \in 0 .. Len(types)
  <2> DEFINE hits == {i \in DOMAIN Fallbacks : symbol[Fallbacks[i]][n] # 0}
             best == CHOOSE i \in hits : \A j \in hits : i <= j
  <2>1. ASSUME hits # {} PROVE best \in hits
    <3>1. hits \in SUBSET Nat
      BY <1>2
    <3>2. \E i \in hits : \A j \in hits : i <= j
      <4> HIDE DEF hits
      <4> QED
        BY <2>1, <3>1, SmallestMember
    <3> QED
      BY <3>2
  <2>2. hits # {} => symbol[Fallbacks[best]][n] \in 0 .. Len(types)
    <3> HIDE DEF best
    <3> QED
      BY <1>1, <1>2, <2>1
  <2>3. Len(types) \in Nat
    BY LenProperties DEF Inv, TypeOK
  <2>4. n \notin PrimitiveNames /\ hits # {} => WellKnown(n) = symbol[Fallbacks[best]][n]
    BY DEF WellKnown
  <2>5. n \notin PrimitiveNames /\ hits = {} => WellKnown(n) = 0
    BY DEF WellKnown
  <2>6. n \in PrimitiveNames => WellKnown(n) = symbol[SMI][n]
    BY DEF WellKnown
  <2> HIDE DEF hits, best
  <2> QED
    BY <1>1, <2>2, <2>3, <2>4, <2>5, <2>6
<1>4. world.imports[m][n] \in Module \cup {NoName}
  BY TypeGraphAssumption DEF Inv, World, Scope
<1>5. Imported(m, n) \in 0 .. Len(types)
  <2>1. Len(types) \in Nat
    BY LenProperties DEF Inv, TypeOK
  <2> QED
    BY <1>1, <1>4, <2>1 DEF Imported
<1> QED
  BY <1>1, <1>3, <1>5 DEF Lookup

LEMMA ReferringType ==
  ASSUME Inv, NEW i \in Referring
  PROVE  /\ Subject(i) \in 0 .. Len(types) /\ Target(i) \in 0 .. Len(types)
         /\ world.defs[i].module \in Module /\ world.defs[i].ref \in Name
         /\ i \in 1 .. Len(world.defs) /\ Len(world.defs) \in Nat
<1>1. i \in DOMAIN world.defs /\ world.defs[i].ref # NoName
  BY DEF Referring
<1>2. world.defs[i] \in Definition
  BY <1>1, DefType DEF Inv
<1>3. /\ world.defs[i].module \in Module /\ world.defs[i].name \in Name
      /\ world.defs[i].ref \in Name
  BY <1>1, <1>2 DEF Definition
<1>4. Target(i) \in 0 .. Len(types)
  BY <1>3, LookupType DEF Target
<1>5. Subject(i) \in 0 .. Len(types)
  BY <1>3 DEF Subject, Inv, TypeOK
<1> QED
  BY <1>1, <1>3, <1>4, <1>5, DefType DEF Inv

\* Of the references of a type one is the latest.
LEMMA ParentRefIn ==
  ASSUME Inv, NEW t, Refers(t) # {}
  PROVE  ParentRef(t) \in Refers(t) /\ ParentRef(t) \in Referring
<1>1. Refers(t) \subseteq Referring
  BY DEF Refers
<1>2. Refers(t) \in SUBSET (1 .. Len(world.defs)) /\ Len(world.defs) \in Nat
  BY <1>1, ReferringType
<1>3. \E i \in Refers(t) : \A j \in Refers(t) : j <= i
  BY <1>2, LargestMember
<1> QED
  BY <1>1, <1>3 DEF ParentRef

LEMMA ReferType ==
  ASSUME Inv, NEW t, Refers(t) # {}
  PROVE  Refer(t) \in 0 .. Len(types)
BY ParentRefIn, ReferringType DEF Refer

LEMMA UnresolvedType ==
  ASSUME Inv, NEW t \in Type, Refers(t) # {},
         NEW reason \in {"DependencyCycle", "TypeNotFound"}
  PROVE  Unresolved(t, reason) \in [type : Type, symbol : Name,
                                    reason : {"DependencyCycle", "TypeNotFound"}]
BY ParentRefIn, ReferringType DEF Unresolved

LEMMA UsedType ==
  ASSUME Inv, NEW T, \A t \in T : Refers(t) # {}
  PROVE  UsedBy(T) \subseteq Module \X Name
<1>1. \A t \in T : /\ world.defs[ParentRef(t)].module \in Module
                   /\ world.defs[ParentRef(t)].ref \in Name
  BY ParentRefIn, ReferringType
<1> QED
  BY <1>1 DEF UsedBy

\* The edges of the graph join types.
LEMMA EdgesType ==
  ASSUME Inv, NEW e \in Edges
  PROVE  e[2] \in Type /\ \E i \in Referring : Subject(i) = e[1] /\ Target(i) = e[2]
<1>1. PICK i \in Referring : Target(i) # 0 /\ e = <<Subject(i), Target(i)>>
  BY DEF Edges
<1>2. Target(i) \in 0 .. Len(types) /\ Len(types) \in Nat
  BY ReferringType, LenProperties DEF Inv, TypeOK
<1> QED
  BY <1>1, <1>2 DEF Type

\* What is on a circle is reached by an edge and has one.
LEMMA CircleEdges ==
  ASSUME NEW E, NEW t, Reaches(t, t, E)
  PROVE  /\ \E e \in E : e[2] = t
         /\ \E e \in E : e[1] = t
<1>1. Closed(Heads(E), E) /\ \A e \in E : e[2] \in Heads(E)
  BY DEF Closed, Heads
<1>2. t \in Heads(E)
  BY <1>1 DEF Reaches
<1>3. Closed({}, E) /\ {} \in SUBSET Heads(E)
  BY DEF Closed
<1>4. \E e \in E : e[1] = t
  BY <1>3 DEF Reaches
<1> QED
  BY <1>2, <1>4 DEF Heads

LEMMA CycleMembersType ==
  ASSUME Inv, NEW t \in CycleMembers(Edges)
  PROVE  t \in Type /\ Refers(t) # {}
<1>1. Reaches(t, t, Edges)
  BY DEF CycleMembers
<1>2. PICK e \in Edges, f \in Edges : e[2] = t /\ f[1] = t
  BY <1>1, CircleEdges
<1>3. t \in Type /\ \E i \in Referring : Subject(i) = t
  BY <1>2, EdgesType
<1> QED
  BY <1>3 DEF Refers

LEMMA BaseFromChainType ==
  ASSUME Inv, NEW t \in Type
  PROVE  BaseFromChain(t) \in Bases
<1> DEFINE known == {k \in 0 .. DepthLimit - 1 :
                       Ancestor(t, k) \in Type /\ types[Ancestor(t, k)].base # "Unknown"}
           first == CHOOSE k \in known : \A j \in known : k <= j
<1>1. ASSUME known # {} PROVE Ancestor(t, first) \in Type
  <2>1. known \in SUBSET Nat
    BY TypeGraphAssumption
  <2>2. \E k \in known : \A j \in known : k <= j
    <3> HIDE DEF known
    <3> QED
      BY <1>1, <2>1, SmallestMember
  <2>3. first \in known
    BY <2>2
  <2> QED
    BY <2>3
<1>2. \A u \in Type : types[u].base \in Bases
  <2>1. types \in Seq(TypeData)
    BY DEF Inv, TypeOK
  <2>2. \A u \in Type : types[u] \in TypeData
    BY <2>1, ElementOfSeq DEF Type
  <2> QED
    BY <2>2 DEF TypeData
<1>3. BaseFromChain(t) = IF known = {} THEN "Unknown" ELSE types[Ancestor(t, first)].base
  BY DEF BaseFromChain
<1>4. "Unknown" \in Bases
  BY DEF Bases
<1> QED
  BY <1>1, <1>2, <1>3, <1>4

------------------------------------------------------------------------------
(* The types of the state. *)

\* The facts about the arena that every step starts from.
LEMMA ArenaType ==
  ASSUME Inv
  PROVE  /\ Len(types) \in Nat /\ DOMAIN types = Type
         /\ \A t \in Type : types[t] \in TypeData
<1>1. types \in Seq(TypeData)
  BY DEF Inv, TypeOK
<1> QED
  BY <1>1, LenProperties, ElementOfSeq DEF Type

LEMMA PrimitiveType ==
  /\ DOMAIN Primitives = 1 .. 4
  /\ \A i \in 1 .. 4 : Primitive(i) \in TypeData /\ Primitives[i].name \in Name
  /\ \A n \in Name : PrimitiveIndex(n) \in 0 .. 4
<1>1. DOMAIN Primitives = 1 .. 4
  BY DEF Primitives
<1>2. \A i \in 1 .. 4 : Primitives[i].base \in Bases
  <2>1. /\ Primitives[1].base = "Integer32" /\ Primitives[2].base = "OctetString"
        /\ Primitives[3].base = "ObjectIdentifier" /\ Primitives[4].base = "Bits"
    BY DEF Primitives
  <2> QED
    BY <2>1 DEF Bases
<1>3. \A i \in 1 .. 4 : Primitives[i].name \in Name
  BY <1>1, TypeGraphAssumption DEF PrimitiveNames
<1>4. ASSUME NEW i \in 1 .. 4 PROVE Primitive(i) \in TypeData
  BY <1>2, <1>3, TypeGraphAssumption DEF Primitive, TypeData
<1>5. ASSUME NEW n \in Name PROVE PrimitiveIndex(n) \in 0 .. 4
  <2>1. n \in PrimitiveNames => \E i \in 1 .. 4 : Primitives[i].name = n
    BY <1>1 DEF PrimitiveNames
  <2>2. n \in PrimitiveNames => PrimitiveIndex(n) \in 1 .. 4
    BY <1>1, <2>1 DEF PrimitiveIndex
  <2> QED
    BY <2>2 DEF PrimitiveIndex
<1> QED
  BY <1>1, <1>3, <1>4, <1>5

LEMMA DeclaredType ==
  ASSUME NEW d \in Definition
  PROVE  Declared(d) \in TypeData
<1>1. FoundationBase[d.name] \in Bases /\ (d.ref # NoName => NamedBase[d.ref] \in Bases)
  BY TypeGraphAssumption DEF Definition
<1>2. SyntaxBase(d) \in Bases
  <2>1. "Unknown" \in Bases /\ d.base \in Bases
    BY DEF Bases, Definition
  <2> QED
    BY <1>1, <2>1 DEF SyntaxBase
<1> QED
  BY <1>1, <1>2 DEF Declared, Definition, TypeData

LEMMA ResolvedType ==
  ASSUME Inv, NEW t \in Type, NEW p \in [sizes : Constraint, ranges : Constraint]
  PROVE  Resolved(t, p) \in [sizes : Constraint, ranges : Constraint]
<1>1. types[t].sizes \in SUBSET Interval /\ types[t].ranges \in SUBSET Interval
  BY ArenaType DEF TypeData
<1>2. p.sizes \in Constraint /\ p.ranges \in Constraint
  OBVIOUS
<1> QED
  BY <1>1, <1>2, ConstraintType DEF Resolved

LEMMA NoConstraintsType == NoConstraints \in [sizes : Constraint, ranges : Constraint]
BY DEF NoConstraints, Unconstrained, Constraint

LEMMA TypeInit == Init => Inv
<1> SUFFICES ASSUME Init PROVE Inv
  OBVIOUS
<1>1. Len(<<>>) = 0 /\ \A S : <<>> \in Seq(S)
  BY EmptySeq, LenProperties
<1>2. Type = {} /\ types \in Seq(TypeData) /\ stack \in Seq(Type)
  BY <1>1 DEF Init, Type
<1>3. /\ symbol \in [Module -> [Name -> 0 .. Len(types)]]
      /\ parent \in [Type -> 0 .. Len(types)]
      /\ effective \in [Type -> {Pending} \cup [sizes : Constraint, ranges : Constraint]]
  BY <1>1, <1>2 DEF Init
<1> QED
  BY <1>2, <1>3, TypeGraphAssumption DEF Init, Inv, TypeOK, Early

\* Seeding makes the first four types.
LEMMA SeedType == Inv /\ seed_primitive_types => Inv'
<1> SUFFICES ASSUME Inv, seed_primitive_types PROVE Inv'
  OBVIOUS
<1>1. types = <<>> /\ stack = <<>> /\ cyclic = {} /\ unresolved = {} /\ used = {}
  BY DEF seed_primitive_types, Inv, Early
<1>2. CASE SMI \notin world.loaded
  BY <1>2 DEF seed_primitive_types, Inv, TypeOK, Type, Early
<1>3. CASE SMI \in world.loaded
  <2>1. types' = [i \in 1 .. 4 |-> Primitive(i)] /\ parent' = [i \in 1 .. 4 |-> 0]
        /\ effective' = [i \in 1 .. 4 |-> Pending]
        /\ symbol' = [symbol EXCEPT ![SMI] = [n \in Name |-> PrimitiveIndex(n)]]
    BY <1>3, PrimitiveType DEF seed_primitive_types
  <2>2. types' \in Seq(TypeData) /\ Len(types') = 4
    BY <2>1, PrimitiveType, FunctionIsSeq
  <2>3. Len(types) = 0
    BY <1>1, EmptySeq
  <2>4. symbol \in [Module -> [Name -> 0 .. Len(types)]]
    BY DEF Inv, TypeOK
  <2>5. symbol' \in [Module -> [Name -> 0 .. 4]]
    <3>1. [n \in Name |-> PrimitiveIndex(n)] \in [Name -> 0 .. 4]
      BY PrimitiveType
    <3>2. \A m \in Module : symbol[m] \in [Name -> 0 .. 4]
      BY <2>3, <2>4
    <3> QED
      BY <2>1, <2>4, <3>1, <3>2
  <2>6. Type' = 1 .. 4
    BY <2>2 DEF Type
  <2>7. stack' = <<>> /\ <<>> \in Seq(Type')
    BY <1>1, EmptySeq DEF seed_primitive_types
  <2>8. parent' \in [Type' -> 0 .. Len(types')]
        /\ effective' \in [Type' -> {Pending} \cup [sizes : Constraint, ranges : Constraint]]
    BY <2>1, <2>2, <2>6
  <2> QED
    BY <1>1, <2>2, <2>5, <2>7, <2>8 DEF seed_primitive_types, Inv, TypeOK, Early
<1> QED
  BY <1>2, <1>3

LEMMA CreateType == Inv /\ create_user_types => Inv'
<1> SUFFICES ASSUME Inv, create_user_types PROVE Inv'
  OBVIOUS
<1>1. stack = <<>> /\ cyclic = {} /\ unresolved = {} /\ used = {} /\ phase = "create"
      /\ next \in Nat
  BY DEF create_user_types, Inv, Early, TypeOK
<1> DEFINE d == world.defs[next]
           t == Declared(d)
           n == Len(types) + 1
<1>2. CASE d.sequence
  BY <1>1, <1>2 DEF create_user_types, Inv, TypeOK, Type, Early
<1>3. CASE ~ d.sequence
  <2>1. d \in Definition
    <3>1. world.defs \in Seq(Definition)
      BY TypeGraphAssumption DEF Inv, World
    <3>2. next \in 1 .. Len(world.defs)
      <4>1. next # 0
        BY DEF Inv, TypeOK
      <4> QED
        BY <1>1, <3>1, <4>1, LenProperties DEF create_user_types
    <3> QED
      BY <3>1, <3>2, ElementOfSeq
  <2>2. t \in TypeData /\ t.module \in Module /\ t.name \in Name
    BY <2>1, DeclaredType DEF TypeData
  <2> HIDE DEF d, t
  <2>3. /\ types' = Append(types, t) /\ parent' = Append(parent, 0)
        /\ effective' = Append(effective, Pending)
        /\ symbol' = [symbol EXCEPT ![t.module][t.name] = n]
        /\ UNCHANGED <<world, phase, cyclic, unresolved, used, stack>> /\ next' = next + 1
    BY <1>3 DEF create_user_types, AddType, d, t
  <2>4. types' \in Seq(TypeData) /\ Len(types') = n /\ Len(types) \in Nat
    BY <2>2, <2>3, ArenaType, AppendProperties DEF Inv, TypeOK
  <2>5. Type' = 1 .. n /\ Type = 1 .. Len(types) /\ n \in Nat
    BY <2>4 DEF Type
  <2>6. parent \in Seq(0 .. Len(types)) /\ Len(parent) = Len(types)
        /\ effective \in Seq({Pending} \cup [sizes : Constraint, ranges : Constraint])
        /\ Len(effective) = Len(types)
    <3>1. parent \in [1 .. Len(types) -> 0 .. Len(types)]
          /\ effective \in [1 .. Len(types) ->
                            {Pending} \cup [sizes : Constraint, ranges : Constraint]]
      BY DEF Inv, TypeOK, Type
    <3>2. parent \in Seq(0 .. Len(types)) /\ Len(parent) = Len(types)
      BY <2>4, <3>1, FunctionIsSeq
    <3> QED
      BY <2>4, <3>1, <3>2, FunctionIsSeq
  <2>7. parent' \in [Type' -> 0 .. n]
    <3>1. parent' \in Seq(0 .. Len(types)) /\ Len(parent') = n
      BY <2>3, <2>4, <2>6, AppendProperties
    <3>2. parent' \in [1 .. n -> 0 .. Len(types)]
      BY <3>1, LenProperties
    <3> QED
      BY <2>4, <2>5, <3>2
  <2>8. effective' \in [Type' -> {Pending} \cup [sizes : Constraint, ranges : Constraint]]
    <3> DEFINE C == {Pending} \cup [sizes : Constraint, ranges : Constraint]
    <3>1. Pending \in C
      OBVIOUS
    <3> HIDE DEF C
    <3>2. effective \in Seq(C)
      BY <2>6 DEF C
    <3>3. effective' \in Seq(C) /\ Len(effective') = n
      BY <2>3, <2>4, <2>6, <3>1, <3>2, AppendProperties
    <3> QED
      BY <2>5, <3>3, LenProperties DEF C
  <2>9. symbol' \in [Module -> [Name -> 0 .. n]]
    <3>1. symbol \in [Module -> [Name -> 0 .. Len(types)]]
      BY DEF Inv, TypeOK
    <3>2. symbol \in [Module -> [Name -> 0 .. n]] /\ n \in 0 .. n
      BY <2>4, <3>1
    <3> HIDE DEF n
    <3> QED
      BY <2>2, <2>3, <3>2
  <2>10. <<>> \in Seq(Type')
    BY EmptySeq
  <2> QED
    BY <1>1, <2>3, <2>4, <2>7, <2>8, <2>9, <2>10 DEF Inv, TypeOK, Early
<1> QED
  BY <1>2, <1>3

LEMMA AllCreatedType == Inv /\ AllCreated => Inv'
BY DEF AllCreated, Inv, TypeOK, Type, Early

LEMMA FindCyclesType == Inv /\ FindCycles => Inv'
<1> SUFFICES ASSUME Inv, FindCycles PROVE Inv'
  OBVIOUS
<1>1. cyclic' = CycleMembers(Edges)
  BY DEF FindCycles
<1>2. \A t \in cyclic' : t \in Type /\ Refers(t) # {}
  BY <1>1, CycleMembersType
<1>3. cyclic' \subseteq Type
  BY <1>2
<1>4. unresolved' \subseteq [type : Type, symbol : Name,
                            reason : {"DependencyCycle", "TypeNotFound"}]
  BY <1>2, UnresolvedType DEF FindCycles
<1>5. used' \subseteq Module \X Name
  BY <1>2, UsedType DEF FindCycles
<1> QED
  BY <1>3, <1>4, <1>5 DEF FindCycles, Inv, TypeOK, Type, Early

LEMMA ResolveParentsType == Inv /\ ResolveParents => Inv'
<1> SUFFICES ASSUME Inv, ResolveParents PROVE Inv'
  OBVIOUS
<1>1. \A t \in Linkable : t \in Type /\ Refers(t) # {} /\ Refer(t) \in 0 .. Len(types)
  BY ReferType DEF Linkable
<1>2. parent' \in [Type -> 0 .. Len(types)]
  BY <1>1, ArenaType DEF ResolveParents
<1>3. unresolved' \subseteq [type : Type, symbol : Name,
                            reason : {"DependencyCycle", "TypeNotFound"}]
  <2>1. \A t \in NotFound : t \in Linkable
    BY DEF NotFound
  <2>2. \A t \in NotFound : Unresolved(t, "TypeNotFound")
          \in [type : Type, symbol : Name, reason : {"DependencyCycle", "TypeNotFound"}]
    BY <1>1, <2>1, UnresolvedType
  <2> QED
    BY <2>2 DEF ResolveParents, Inv, TypeOK
<1>4. UsedBy({t \in Linkable : Refer(t) # t}) \subseteq Module \X Name
  BY <1>1, UsedType
<1> QED
  BY <1>2, <1>3, <1>4 DEF ResolveParents, Inv, TypeOK, Type, Early

LEMMA PrimitiveForType ==
  ASSUME Inv, NEW b
  PROVE  PrimitiveFor(b) \in 0 .. Len(types)
<1> DEFINE hits == {i \in DOMAIN Primitives :
                      Primitives[i].base = b /\ symbol[SMI][Primitives[i].name] # 0}
           hit == CHOOSE i \in hits : TRUE
<1>1. \A i \in DOMAIN Primitives : symbol[SMI][Primitives[i].name] \in 0 .. Len(types)
  <2>1. SMI \in Module /\ \A i \in DOMAIN Primitives : Primitives[i].name \in Name
    BY PrimitiveType, TypeGraphAssumption
  <2>2. symbol \in [Module -> [Name -> 0 .. Len(types)]]
    BY DEF Inv, TypeOK
  <2> QED
    BY <2>1, <2>2
<1>2. hits # {} => hit \in DOMAIN Primitives
  OBVIOUS
<1>3. PrimitiveFor(b) = IF SMI \notin world.loaded \/ hits = {} THEN 0
                        ELSE symbol[SMI][Primitives[hit].name]
  BY DEF PrimitiveFor
<1> HIDE DEF hits, hit
<1> QED
  BY <1>1, <1>2, <1>3, ArenaType

LEMMA PrimitivesType == Inv /\ link_primitive_syntax_parents => Inv'
<1> SUFFICES ASSUME Inv, link_primitive_syntax_parents PROVE Inv'
  OBVIOUS
<1>1. \A t \in Type : parent[t] \in 0 .. Len(types)
  BY DEF Inv, TypeOK
<1>2. ASSUME NEW t \in Type PROVE PrimitiveParent(t) \in 0 .. Len(types)
  <2>1. PrimitiveFor(types[t].base) \in 0 .. Len(types)
    BY PrimitiveForType
  <2> QED
    BY <1>1, <2>1 DEF PrimitiveParent
<1>3. parent' \in [Type -> 0 .. Len(types)]
  BY <1>2 DEF link_primitive_syntax_parents
<1> QED
  BY <1>3 DEF link_primitive_syntax_parents, Inv, TypeOK, Type, Early

LEMMA LinksType == Inv /\ link_rfc1213_types_to_tcs => Inv'
<1> SUFFICES ASSUME Inv, link_rfc1213_types_to_tcs PROVE Inv'
  OBVIOUS
<1>1. \A t \in Type : parent[t] \in 0 .. Len(types) /\ types[t].name \in Name
  BY ArenaType DEF Inv, TypeOK, TypeData
<1>2. ASSUME NEW t \in Type PROVE RfcParent(t) \in 0 .. Len(types)
  BY <1>1, TypeGraphAssumption DEF RfcParent, Inv, TypeOK
<1>3. parent' \in [Type -> 0 .. Len(types)]
  BY <1>2 DEF link_rfc1213_types_to_tcs
<1> QED
  BY <1>3 DEF link_rfc1213_types_to_tcs, Inv, TypeOK, Type, Early

LEMMA InheritType == Inv /\ inherit_base_types => Inv'
<1> SUFFICES ASSUME Inv, inherit_base_types PROVE Inv'
  OBVIOUS
<1>1. ASSUME NEW t \in Type
      PROVE  [types[t] EXCEPT !.base = BaseFromChain(t)] \in TypeData
  BY ArenaType, BaseFromChainType DEF TypeData
<1>2. types' \in [1 .. Len(types) -> TypeData] /\ Len(types) \in Nat
  BY <1>1, ArenaType DEF inherit_base_types, Type
<1>3. types' \in Seq(TypeData) /\ Len(types') = Len(types)
  BY <1>2, FunctionIsSeq
<1> QED
  BY <1>3 DEF inherit_base_types, Inv, TypeOK, Type, Early

LEMMA NormalizeType == Inv /\ normalize_named_values_for_base => Inv'
<1> SUFFICES ASSUME Inv, normalize_named_values_for_base PROVE Inv'
  OBVIOUS
<1>1. ASSUME NEW t \in Type
      PROVE  Normalized(types[t]) \in TypeData
  BY ArenaType DEF TypeData, Normalized
<1>2. types' \in [1 .. Len(types) -> TypeData] /\ Len(types) \in Nat
  BY <1>1, ArenaType DEF normalize_named_values_for_base, Type
<1>3. types' \in Seq(TypeData) /\ Len(types') = Len(types)
  BY <1>2, FunctionIsSeq
<1> QED
  BY <1>3 DEF normalize_named_values_for_base, Inv, TypeOK, Type, Early

\* A call ends with constraints or goes on with the parent's.
LEMMA CallType ==
  ASSUME Inv, NEW t \in Type, stack # <<>>, resolve_effective_constraints(t)
  PROVE  /\ effective' \in [Type -> {Pending} \cup [sizes : Constraint, ranges : Constraint]]
         /\ stack' \in Seq(Type)
<1> DEFINE C == [sizes : Constraint, ranges : Constraint]
<1>1. effective \in [Type -> {Pending} \cup C] /\ stack \in Seq(Type)
      /\ parent[t] \in 0 .. Len(types) /\ Len(types) \in Nat
  BY ArenaType DEF Inv, TypeOK
<1>2. Tail(stack) \in Seq(Type)
  BY <1>1, HeadTailProperties
<1>3. parent[t] # 0 => parent[t] \in Type
  BY <1>1 DEF Type
<1>4. parent[t] # 0 => <<parent[t]>> \o stack \in Seq(Type)
  BY <1>1, <1>3, ConcatProperties
<1>5. \A p \in C : Resolved(t, p) \in C
  BY ResolvedType
<1>6. ASSUME NEW p \in C, effective' = [effective EXCEPT ![t] = Resolved(t, p)]
      PROVE  effective' \in [Type -> {Pending} \cup C]
  <2>1. Resolved(t, p) \in {Pending} \cup C
    BY <1>5
  <2> HIDE DEF C
  <2> QED
    BY <1>1, <1>6, <2>1
<1>7. CASE parent[t] # 0 /\ Len(stack) <= DepthLimit /\ effective[parent[t]] = Pending
  BY <1>1, <1>4, <1>7 DEF resolve_effective_constraints
<1>8. CASE parent[t] # 0 /\ Len(stack) <= DepthLimit /\ effective[parent[t]] # Pending
  <2>1. effective[parent[t]] \in C
    BY <1>1, <1>3, <1>8
  <2>2. effective' = [effective EXCEPT ![t] = Resolved(t, effective[parent[t]])]
        /\ stack' = Tail(stack)
    BY <1>8 DEF resolve_effective_constraints
  <2> QED
    BY <1>2, <1>6, <2>1, <2>2
<1>9. CASE ~ (parent[t] # 0 /\ Len(stack) <= DepthLimit)
  BY <1>2, <1>6, <1>9, NoConstraintsType DEF resolve_effective_constraints
<1> QED
  BY <1>7, <1>8, <1>9

LEMMA ConstraintsType == Inv /\ compute_effective_constraints => Inv'
<1> SUFFICES ASSUME Inv, compute_effective_constraints PROVE Inv'
  OBVIOUS
<1>1. stack \in Seq(Type) /\ phase = "effective"
  BY DEF Inv, TypeOK, compute_effective_constraints
<1>2. CASE stack # <<>> /\ resolve_effective_constraints(Head(stack)) /\ UNCHANGED phase
  <2>1. Head(stack) \in Type
    BY <1>1, <1>2, HeadTailProperties
  <2> QED
    BY <1>1, <1>2, <2>1, CallType DEF compute_effective_constraints, Inv, TypeOK, Type, Early
<1>3. CASE /\ stack = <<>> /\ Missing # {}
           /\ stack' = <<CHOOSE t \in Missing : \A u \in Missing : t <= u>>
           /\ UNCHANGED <<phase, effective>>
  <2>1. Missing \subseteq Type /\ Missing \in SUBSET Nat
    BY ArenaType DEF Missing, Type
  <2>2. \E t \in Missing : \A u \in Missing : t <= u
    BY <1>3, <2>1, SmallestMember
  <2>3. (CHOOSE t \in Missing : \A u \in Missing : t <= u) \in Type
    BY <2>1, <2>2
  <2>4. stack' \in Seq(Type)
    BY <1>3, <2>3
  <2> QED
    BY <1>1, <1>3, <2>4 DEF compute_effective_constraints, Inv, TypeOK, Type, Early
<1>4. CASE stack = <<>> /\ Missing = {} /\ phase' = "done" /\ UNCHANGED <<effective, stack>>
  BY <1>1, <1>4 DEF compute_effective_constraints, Inv, TypeOK, Type, Early
<1> QED
  BY <1>2, <1>3, <1>4 DEF compute_effective_constraints

LEMMA InvStep == Inv /\ [Next]_vars => Inv'
<1>1. Inv /\ UNCHANGED vars => Inv'
  BY DEF vars, Inv, TypeOK, Type, Early
<1> QED
  BY <1>1, SeedType, CreateType, AllCreatedType, FindCyclesType, ResolveParentsType,
     PrimitivesType, LinksType, InheritType, NormalizeType, ConstraintsType DEF Next

LEMMA AlwaysInv == Spec => []Inv
BY TypeInit, InvStep, PTL DEF Spec

\* The arena, the symbols, the parents and what is recorded keep their types, for
\* every input: whatever a name leads to is a type of the arena.
THEOREM TypeCorrect == Spec => []TypeOK
<1>1. Inv => TypeOK
  BY DEF Inv
<1> QED
  BY <1>1, AlwaysInv, PTL

------------------------------------------------------------------------------
(* Circles of parents. *)

Before == {"seed", "create", "graph", "parents"}
After == {"primitives", "rfc1213", "inherit", "normalize", "effective", "done"}

Prims == {symbol[SMI][Primitives[i].name] : i \in 1 .. 4} \ {0}

\* The primitives stay where they were seeded, and a name leads to a type of that name.
Seeded == phase \in Before \cup {"primitives"} =>
            /\ \A i \in 1 .. 4 : symbol[SMI][Primitives[i].name] # 0 =>
                 /\ symbol[SMI][Primitives[i].name] = i
                 /\ types[i].base = Primitives[i].base
            /\ \A m \in Module, n \in Name :
                 symbol[m][n] # 0 => types[symbol[m][n]].name = n

\* The cycles recorded are those of the references.
CyclesKept == phase \in After \cup {"parents"} => cyclic = CycleMembers(Edges)

\* A parent is what a reference leads to, or a primitive.
FromReference(t) == <<t, parent[t]>> \in Edges /\ t \notin cyclic

Parents ==
  /\ phase \in Before => \A t \in Type : parent[t] = 0
  /\ phase \in After =>
       \A t \in Type \ Linked :
         /\ parent[t] # 0 => FromReference(t) \/ parent[t] \in Prims
         /\ t \in Prims => parent[t] = 0

IInv == Inv /\ Seeded /\ CyclesKept /\ Parents

\* The four primitives have four names and four bases.
LEMMA PrimitivesDiffer ==
  /\ \A i, j \in 1 .. 4 : Primitives[i].name = Primitives[j].name => i = j
  /\ \A i, j \in 1 .. 4 : Primitives[i].base = Primitives[j].base => i = j
<1>1. /\ Primitives[1].base = "Integer32" /\ Primitives[2].base = "OctetString"
      /\ Primitives[3].base = "ObjectIdentifier" /\ Primitives[4].base = "Bits"
      /\ Primitives[1].name = "INTEGER" /\ Primitives[2].name = "OCTET STRING"
      /\ Primitives[3].name = "OBJECT IDENTIFIER" /\ Primitives[4].name = "BITS"
  BY DEF Primitives
<1>2. ASSUME NEW i \in 1 .. 4, NEW j \in 1 .. 4, i # j
      PROVE  Primitives[i].name # Primitives[j].name
  <2>1. i \in {1, 2, 3, 4} /\ j \in {1, 2, 3, 4}
    OBVIOUS
  <2>2. CASE i = 1
    BY <1>1, <1>2, <2>1, <2>2
  <2>3. CASE i = 2
    BY <1>1, <1>2, <2>1, <2>3
  <2>4. CASE i = 3
    BY <1>1, <1>2, <2>1, <2>4
  <2>5. CASE i = 4
    BY <1>1, <1>2, <2>1, <2>5
  <2> QED
    BY <2>1, <2>2, <2>3, <2>4, <2>5
<1>3. ASSUME NEW i \in 1 .. 4, NEW j \in 1 .. 4, i # j
      PROVE  Primitives[i].base # Primitives[j].base
  <2>1. i \in {1, 2, 3, 4} /\ j \in {1, 2, 3, 4}
    OBVIOUS
  <2>2. CASE i = 1
    BY <1>1, <1>3, <2>1, <2>2
  <2>3. CASE i = 2
    BY <1>1, <1>3, <2>1, <2>3
  <2>4. CASE i = 3
    BY <1>1, <1>3, <2>1, <2>4
  <2>5. CASE i = 4
    BY <1>1, <1>3, <2>1, <2>5
  <2> QED
    BY <2>1, <2>2, <2>3, <2>4, <2>5
<1> QED
  BY <1>2, <1>3

\* No reference is a primitive's.
LEMMA PrimitivesReferToNothing ==
  ASSUME Inv, Seeded, phase \in Before \cup {"primitives"}, NEW t \in Prims
  PROVE  Refers(t) = {}
<1>1. PICK i \in 1 .. 4 : symbol[SMI][Primitives[i].name] = t /\ t # 0
  BY DEF Prims
<1>2. types[t].name = Primitives[i].name /\ Primitives[i].name \in PrimitiveNames
  <2>1. SMI \in Module /\ Primitives[i].name \in Name
    BY PrimitiveType, TypeGraphAssumption
  <2> QED
    BY <1>1, <2>1, PrimitiveType DEF Seeded, PrimitiveNames
<1>3. ASSUME NEW j \in Referring, Subject(j) = t PROVE FALSE
  <2>1. world.defs[j] \in Definition /\ world.defs[j].name \notin PrimitiveNames
    BY DefType DEF Referring, Inv
  <2>2. world.defs[j].module \in Module /\ world.defs[j].name \in Name
    BY <2>1 DEF Definition
  <2>3. types[t].name = world.defs[j].name
    BY <1>1, <1>3, <2>2 DEF Subject, Seeded
  <2> QED
    BY <1>2, <2>1, <2>3
<1> QED
  BY <1>3 DEF Refers

\* The graph of references depends on the definitions and on what names lead to.
LEMMA EdgesKept ==
  ASSUME UNCHANGED <<world, symbol>>
  PROVE  Edges' = Edges
<1>1. Referring' = Referring
  BY DEF Referring
<1>2. \A i : Subject(i)' = Subject(i)
  BY DEF Subject
<1>3. \A i : Target(i)' = Target(i)
  BY DEF Target, Lookup, Imported, WellKnown, Fallbacks
<1> QED
  BY <1>1, <1>2, <1>3 DEF Edges

LEMMA LinkedKept ==
  ASSUME UNCHANGED <<symbol, cyclic>>
  PROVE  Linked' = Linked /\ Prims' = Prims
BY DEF Linked, Prims

LEMMA CirclesInit == Init => IInv
<1> SUFFICES ASSUME Init PROVE IInv
  OBVIOUS
<1>1. \A m \in Module, n \in Name : symbol[m][n] = 0
  BY DEF Init
<1>2. Seeded
  <2>1. SMI \in Module /\ \A i \in 1 .. 4 : Primitives[i].name \in Name
    BY PrimitiveType, TypeGraphAssumption
  <2> QED
    BY <1>1, <2>1 DEF Seeded
<1>3. Type = {}
  BY EmptySeq DEF Init, Type
<1> QED
  BY <1>2, <1>3, TypeInit DEF Init, IInv, CyclesKept, Parents, After

LEMMA SeedCircles == IInv /\ seed_primitive_types => IInv'
<1> SUFFICES ASSUME IInv, seed_primitive_types PROVE IInv'
  OBVIOUS
<1>1. Inv' /\ types = <<>> /\ phase = "seed" /\ phase' = "create"
  BY SeedType DEF IInv, Inv, Early, seed_primitive_types
<1>2. \A m \in Module, n \in Name : symbol[m][n] = 0
  <2>1. Len(types) = 0
    BY <1>1, EmptySeq
  <2> QED
    BY <2>1 DEF IInv, Inv, TypeOK
<1>3. SMI \in Module /\ \A i \in 1 .. 4 : Primitives[i].name \in Name
  BY PrimitiveType, TypeGraphAssumption
<1>4. CASE SMI \notin world.loaded
  <2>1. UNCHANGED <<types, parent, symbol>>
    BY <1>4 DEF seed_primitive_types
  <2>2. Seeded'
    BY <1>2, <1>3, <2>1 DEF Seeded
  <2>3. Parents' /\ CyclesKept'
    BY <1>1, <2>1 DEF IInv, Parents, CyclesKept, Before, After, Type
  <2> QED
    BY <1>1, <2>2, <2>3 DEF IInv
<1>5. CASE SMI \in world.loaded
  <2>1. types' = [i \in 1 .. 4 |-> Primitive(i)] /\ parent' = [i \in 1 .. 4 |-> 0]
        /\ symbol' = [symbol EXCEPT ![SMI] = [n \in Name |-> PrimitiveIndex(n)]]
    BY <1>5, PrimitiveType DEF seed_primitive_types
  <2>2. symbol \in [Module -> [Name -> 0 .. Len(types)]]
    BY DEF IInv, Inv, TypeOK
  <2>3. \A n \in Name : symbol'[SMI][n] = PrimitiveIndex(n)
    BY <1>3, <2>1, <2>2
  <2>4. \A m \in Module \ {SMI}, n \in Name : symbol'[m][n] = 0
    BY <1>2, <2>1, <2>2
  <2>5. ASSUME NEW n \in Name, PrimitiveIndex(n) # 0
        PROVE  PrimitiveIndex(n) \in 1 .. 4 /\ Primitives[PrimitiveIndex(n)].name = n
    <3>1. n \in PrimitiveNames
      BY <2>5 DEF PrimitiveIndex
    <3>2. \E i \in 1 .. 4 : Primitives[i].name = n
      BY <3>1, PrimitiveType DEF PrimitiveNames
    <3> QED
      BY <3>1, <3>2, PrimitiveType DEF PrimitiveIndex
  <2>6. \A n \in Name : symbol'[SMI][n] # 0 => types'[symbol'[SMI][n]].name = n
    BY <2>1, <2>3, <2>5 DEF Primitive
  <2>7. ASSUME NEW i \in 1 .. 4, symbol'[SMI][Primitives[i].name] # 0
        PROVE  symbol'[SMI][Primitives[i].name] = i /\ types'[i].base = Primitives[i].base
    <3>1. PrimitiveIndex(Primitives[i].name) = i
      BY <1>3, <2>3, <2>5, <2>7, PrimitivesDiffer
    <3> QED
      BY <1>3, <2>1, <2>3, <3>1 DEF Primitive
  <2>8. Seeded'
    BY <1>3, <2>4, <2>6, <2>7 DEF Seeded
  <2>9. Type' = 1 .. 4
    <3>1. \A i \in 1 .. 4 : Primitive(i) \in TypeData
      BY PrimitiveType
    <3> QED
      BY <2>1, <3>1, FunctionIsSeq DEF Type
  <2>10. Parents' /\ CyclesKept'
    BY <1>1, <2>1, <2>9 DEF Parents, CyclesKept, Before, After
  <2> QED
    BY <1>1, <2>8, <2>10 DEF IInv
<1> QED
  BY <1>4, <1>5

LEMMA CreateCircles == IInv /\ create_user_types => IInv'
<1> SUFFICES ASSUME IInv, create_user_types PROVE IInv'
  OBVIOUS
<1>1. Inv' /\ phase = "create" /\ phase' = "create" /\ next \in Nat \ {0}
  BY CreateType DEF IInv, create_user_types, Inv, TypeOK
<1> DEFINE d == world.defs[next]
           t == Declared(d)
           n == Len(types) + 1
<1>2. CASE d.sequence
  <2>1. UNCHANGED <<types, parent, symbol>>
    BY <1>2 DEF create_user_types
  <2> QED
    BY <1>1, <2>1 DEF IInv, Seeded, CyclesKept, Parents, Before, After, Type
<1>3. CASE ~ d.sequence
  <2>1. d \in Definition /\ d.name \notin PrimitiveNames
    <3>1. world.defs \in Seq(Definition)
      BY TypeGraphAssumption DEF IInv, Inv, World
    <3>2. next \in DOMAIN world.defs
      BY <1>1, <3>1, LenProperties DEF create_user_types
    <3> QED
      BY <3>2, DefType DEF IInv, Inv
  <2>2. t.module = d.module /\ t.name = d.name /\ d.module \in Module /\ d.name \in Name
    BY <2>1 DEF Declared, Definition
  <2>3. t \in TypeData
    BY <2>1, DeclaredType
  <2> HIDE DEF d, t
  <2>4. /\ types' = Append(types, t) /\ parent' = Append(parent, 0)
        /\ symbol' = [symbol EXCEPT ![t.module][t.name] = n]
    BY <1>3 DEF create_user_types, AddType, d, t
  <2>5. types \in Seq(TypeData) /\ Len(types) \in Nat /\ Type = 1 .. Len(types)
        /\ symbol \in [Module -> [Name -> 0 .. Len(types)]]
    BY ArenaType DEF IInv, Inv, TypeOK, Type
  <2>6. \A u \in Type : types'[u] = types[u]
    BY <2>3, <2>4, <2>5, AppendProperties
  <2>7. types'[n] = t /\ Type' = Type \cup {n}
    <3>1. Len(types') = n /\ types'[n] = t
      BY <2>3, <2>4, <2>5, AppendProperties
    <3> QED
      BY <2>5, <3>1 DEF Type
  <2>8. \A m \in Module, x \in Name :
          symbol'[m][x] = IF m = t.module /\ x = t.name THEN n ELSE symbol[m][x]
    BY <2>4, <2>5
  <2>9. \A m \in Module, x \in Name : symbol[m][x] # 0 => symbol[m][x] \in Type
    BY <2>5
  <2>10. Seeded /\ phase \in Before
    BY <1>1 DEF IInv, Before
  <2>11. \A m \in Module, x \in Name :
           symbol'[m][x] # 0 => types'[symbol'[m][x]].name = x
    BY <2>6, <2>7, <2>8, <2>9, <2>10 DEF Seeded
  <2>12. \A i \in 1 .. 4 : /\ Primitives[i].name \in Name
                           /\ Primitives[i].name \in PrimitiveNames
                           /\ SMI \in Module
    BY PrimitiveType, TypeGraphAssumption DEF PrimitiveNames
  <2>13. ASSUME NEW i \in 1 .. 4, symbol'[SMI][Primitives[i].name] # 0
         PROVE  symbol'[SMI][Primitives[i].name] = i /\ types'[i].base = Primitives[i].base
    <3>1. symbol'[SMI][Primitives[i].name] = symbol[SMI][Primitives[i].name]
      BY <2>1, <2>2, <2>8, <2>12
    <3>2. symbol[SMI][Primitives[i].name] = i /\ types[i].base = Primitives[i].base
      BY <2>10, <2>13, <3>1 DEF Seeded
    <3>3. i \in Type
      BY <2>9, <2>12, <2>13, <3>1, <3>2
    <3> QED
      BY <2>6, <3>1, <3>2, <3>3
  <2>14. Seeded'
    BY <2>11, <2>13 DEF Seeded
  <2>15. \A u \in Type' : parent'[u] = 0
    <3>1. parent \in Seq(0 .. Len(types)) /\ Len(parent) = Len(types)
      BY <2>5, FunctionIsSeq DEF IInv, Inv, TypeOK
    <3>2. \A u \in Type : parent[u] = 0
      BY <2>10 DEF IInv, Parents
    <3>3. (\A u \in 1 .. Len(parent) : parent'[u] = parent[u]) /\ parent'[n] = 0
      BY <2>4, <2>5, <3>1, AppendProperties
    <3> QED
      BY <2>5, <2>7, <3>1, <3>2, <3>3
  <2> QED
    BY <1>1, <2>14, <2>15 DEF IInv, CyclesKept, Parents, Before, After
<1> QED
  BY <1>2, <1>3

LEMMA AllCreatedCircles == IInv /\ AllCreated => IInv'
<1> SUFFICES ASSUME IInv, AllCreated PROVE IInv'
  OBVIOUS
<1>1. Inv' /\ phase = "create" /\ phase' = "graph" /\ UNCHANGED <<types, symbol, parent>>
  BY AllCreatedType DEF IInv, AllCreated
<1> QED
  BY <1>1 DEF IInv, Seeded, CyclesKept, Parents, Before, After, Type

LEMMA FindCyclesCircles == IInv /\ FindCycles => IInv'
<1> SUFFICES ASSUME IInv, FindCycles PROVE IInv'
  OBVIOUS
<1>1. /\ Inv' /\ phase = "graph" /\ phase' = "parents" /\ cyclic' = CycleMembers(Edges)
      /\ UNCHANGED <<world, types, symbol, parent>>
  BY FindCyclesType DEF IInv, FindCycles
<1>2. Edges' = Edges
  BY <1>1, EdgesKept
<1>3. cyclic' = CycleMembers(Edges')
  BY <1>1, <1>2
<1>4. CyclesKept'
  BY <1>3 DEF CyclesKept, CycleMembers, Heads, Reaches, Closed
<1>5. Seeded' /\ Parents'
  BY <1>1 DEF IInv, Seeded, Parents, Before, After, Type
<1> QED
  BY <1>1, <1>4, <1>5 DEF IInv

\* Once the cycles are known the graph and the set of cycles do not change.
LEMMA CyclesStay ==
  ASSUME CyclesKept, phase \in After \cup {"parents"}, UNCHANGED <<world, symbol, cyclic>>
  PROVE  CyclesKept' /\ Edges' = Edges /\ Linked' = Linked /\ Prims' = Prims
<1>1. Edges' = Edges /\ Linked' = Linked /\ Prims' = Prims
  BY EdgesKept, LinkedKept
<1>2. cyclic' = CycleMembers(Edges')
  BY <1>1 DEF CyclesKept
<1> QED
  BY <1>1, <1>2 DEF CyclesKept, CycleMembers, Heads, Reaches, Closed

LEMMA ResolveParentsCircles == IInv /\ ResolveParents => IInv'
<1> SUFFICES ASSUME IInv, ResolveParents PROVE IInv'
  OBVIOUS
<1>1. /\ Inv' /\ phase = "parents" /\ phase' = "primitives"
      /\ UNCHANGED <<world, types, symbol, cyclic>>
      /\ parent' = [t \in Type |-> IF t \in Linkable /\ Refer(t) # t THEN Refer(t) ELSE 0]
  BY ResolveParentsType DEF IInv, ResolveParents
<1>2. CyclesKept' /\ Edges' = Edges /\ Linked' = Linked /\ Prims' = Prims /\ Type' = Type
  BY <1>1, CyclesStay DEF IInv, Type
<1>3. Seeded'
  BY <1>1 DEF IInv, Seeded, Before
<1>4. ASSUME NEW t \in Type, parent'[t] # 0
      PROVE  <<t, parent'[t]>> \in Edges /\ t \notin cyclic
  <2>1. t \in Linkable /\ parent'[t] = Refer(t)
    BY <1>1, <1>4
  <2>2. t \notin cyclic /\ Refers(t) # {}
    BY <2>1 DEF Linkable
  <2>3. ParentRef(t) \in Referring /\ Subject(ParentRef(t)) = t
    BY <2>2, ParentRefIn DEF Refers, IInv
  <2> QED
    BY <1>4, <2>1, <2>2, <2>3 DEF Refer, Edges
<1>5. ASSUME NEW t \in Type, t \in Prims PROVE parent'[t] = 0
  <2>1. Refers(t) = {}
    BY <1>1, <1>5, PrimitivesReferToNothing DEF IInv, Before
  <2> QED
    BY <1>1, <2>1 DEF Linkable
<1>6. Parents'
  BY <1>1, <1>2, <1>4, <1>5 DEF Parents, FromReference, Before, After
<1> QED
  BY <1>1, <1>2, <1>3, <1>6 DEF IInv

LEMMA PrimitivesCircles == IInv /\ link_primitive_syntax_parents => IInv'
<1> SUFFICES ASSUME IInv, link_primitive_syntax_parents PROVE IInv'
  OBVIOUS
<1>1. /\ Inv' /\ phase = "primitives" /\ phase' = "rfc1213"
      /\ UNCHANGED <<world, types, symbol, cyclic>>
      /\ parent' = [t \in Type |-> PrimitiveParent(t)]
  BY PrimitivesType DEF IInv, link_primitive_syntax_parents
<1>2. CyclesKept' /\ Edges' = Edges /\ Linked' = Linked /\ Prims' = Prims /\ Type' = Type
  BY <1>1, CyclesStay DEF IInv, After, Type
<1>3. Seeded'
  BY <1>1 DEF Seeded, Before
<1>4. ASSUME NEW b PROVE PrimitiveFor(b) \in Prims \cup {0}
  <2> DEFINE hits == {i \in DOMAIN Primitives :
                        Primitives[i].base = b /\ symbol[SMI][Primitives[i].name] # 0}
             hit == CHOOSE i \in hits : TRUE
  <2>1. hits # {} => hit \in DOMAIN Primitives /\ symbol[SMI][Primitives[hit].name] # 0
    OBVIOUS
  <2>2. PrimitiveFor(b) = IF SMI \notin world.loaded \/ hits = {} THEN 0
                          ELSE symbol[SMI][Primitives[hit].name]
    BY DEF PrimitiveFor
  <2> HIDE DEF hits, hit
  <2> QED
    BY <2>1, <2>2, PrimitiveType DEF Prims
<1>5. ASSUME NEW t \in Type, t \in Prims
      PROVE  PrimitiveFor(types[t].base) \in {0, t}
  <2> DEFINE b == types[t].base
             hits == {i \in DOMAIN Primitives :
                        Primitives[i].base = b /\ symbol[SMI][Primitives[i].name] # 0}
             hit == CHOOSE i \in hits : TRUE
  <2>1. PICK i \in 1 .. 4 : symbol[SMI][Primitives[i].name] = t /\ t # 0
    BY <1>5 DEF Prims
  <2>2. i = t /\ b = Primitives[i].base
    BY <1>1, <2>1 DEF IInv, Seeded
  <2>3. hits = {i}
    BY <2>1, <2>2, PrimitiveType, PrimitivesDiffer
  <2>4. hit = i
    BY <2>3
  <2>5. PrimitiveFor(b) = IF SMI \notin world.loaded \/ hits = {} THEN 0
                          ELSE symbol[SMI][Primitives[hit].name]
    BY DEF PrimitiveFor
  <2> HIDE DEF hits, hit
  <2> QED
    BY <2>1, <2>4, <2>5
<1>6. ASSUME NEW t \in Type \ Linked, parent'[t] # 0
      PROVE  (<<t, parent'[t]>> \in Edges /\ t \notin cyclic) \/ parent'[t] \in Prims
  <2>1. parent[t] # 0 => FromReference(t) \/ parent[t] \in Prims
    BY <1>1 DEF IInv, Parents, After
  <2>2. parent'[t] = parent[t] \/ parent'[t] = PrimitiveFor(types[t].base)
    BY <1>1 DEF PrimitiveParent
  <2> QED
    BY <1>4, <1>6, <2>1, <2>2 DEF FromReference
<1>7. ASSUME NEW t \in Type \ Linked, t \in Prims PROVE parent'[t] = 0
  <2>1. parent[t] = 0
    BY <1>1, <1>7 DEF IInv, Parents, After
  <2> QED
    BY <1>1, <1>5, <1>7, <2>1 DEF PrimitiveParent
<1>8. Parents'
  BY <1>1, <1>2, <1>6, <1>7 DEF Parents, FromReference, Before, After
<1> QED
  BY <1>1, <1>2, <1>3, <1>8 DEF IInv

LEMMA LinksCircles == IInv /\ link_rfc1213_types_to_tcs => IInv'
<1> SUFFICES ASSUME IInv, link_rfc1213_types_to_tcs PROVE IInv'
  OBVIOUS
<1>1. /\ Inv' /\ phase = "rfc1213" /\ phase' = "inherit"
      /\ UNCHANGED <<world, types, symbol, cyclic>>
      /\ parent' = [t \in Type |-> RfcParent(t)]
  BY LinksType DEF IInv, link_rfc1213_types_to_tcs
<1>2. CyclesKept' /\ Edges' = Edges /\ Linked' = Linked /\ Prims' = Prims /\ Type' = Type
  BY <1>1, CyclesStay DEF IInv, After, Type
<1>3. \A t \in Type \ Linked : parent'[t] = parent[t]
  BY <1>1 DEF RfcParent
<1>4. \A t \in Type \ Linked :
         /\ parent[t] # 0 => FromReference(t) \/ parent[t] \in Prims
         /\ t \in Prims => parent[t] = 0
  BY <1>1 DEF IInv, Parents, After
<1>5. Parents'
  BY <1>1, <1>2, <1>3, <1>4 DEF Parents, FromReference, Before, After
<1> QED
  BY <1>1, <1>2, <1>5 DEF IInv, Seeded, Before

\* Inheriting leaves the parents alone.
LEMMA LaterCircles ==
  ASSUME IInv, Inv', phase \in {"inherit", "normalize", "effective"}, phase' \in After,
         phase' \notin {"primitives"},
         UNCHANGED <<world, symbol, cyclic, parent>>, Type' = Type
  PROVE  IInv'
<1>1. CyclesKept' /\ Edges' = Edges /\ Linked' = Linked /\ Prims' = Prims
  BY CyclesStay DEF IInv, After
<1>2. \A t \in Type \ Linked :
         /\ parent[t] # 0 => FromReference(t) \/ parent[t] \in Prims
         /\ t \in Prims => parent[t] = 0
  BY DEF IInv, Parents, After
<1>3. Parents'
  BY <1>1, <1>2 DEF Parents, FromReference, Before, After
<1>4. Seeded'
  BY DEF Seeded, Before, After
<1> QED
  BY <1>1, <1>3, <1>4 DEF IInv

LEMMA InheritingCircles ==
  IInv /\ (\/ inherit_base_types \/ normalize_named_values_for_base
           \/ compute_effective_constraints) => IInv'
<1> SUFFICES ASSUME IInv, \/ inherit_base_types \/ normalize_named_values_for_base
                          \/ compute_effective_constraints
             PROVE IInv'
  OBVIOUS
<1>1. ASSUME types' \in Seq(TypeData), DOMAIN types' = Type PROVE Type' = Type
  BY <1>1, LenProperties DEF Type
<1>2. CASE inherit_base_types
  <2>1. Inv' /\ types' \in Seq(TypeData) /\ DOMAIN types' = Type
    BY <1>2, InheritType DEF IInv, inherit_base_types, Inv, TypeOK
  <2> QED
    BY <1>1, <1>2, <2>1, LaterCircles DEF inherit_base_types, After
<1>3. CASE normalize_named_values_for_base
  <2>1. Inv' /\ types' \in Seq(TypeData) /\ DOMAIN types' = Type
    BY <1>3, NormalizeType DEF IInv, normalize_named_values_for_base, Inv, TypeOK
  <2> QED
    BY <1>1, <1>3, <2>1, LaterCircles DEF normalize_named_values_for_base, After
<1>4. CASE compute_effective_constraints
  <2>1. Inv' /\ Type' = Type /\ phase = "effective" /\ phase' \in {"effective", "done"}
        /\ UNCHANGED <<world, symbol, cyclic, parent>>
    BY <1>4, ConstraintsType DEF IInv, compute_effective_constraints, Type
  <2> QED
    BY <2>1, LaterCircles DEF After
<1> QED
  BY <1>2, <1>3, <1>4

LEMMA CirclesStep == IInv /\ [Next]_vars => IInv'
<1>1. ASSUME IInv, UNCHANGED vars PROVE IInv'
  <2>1. UNCHANGED <<world, phase, next, types, symbol, parent, cyclic, unresolved, used,
                    effective, stack>>
    BY <1>1 DEF vars
  <2>2. Inv' /\ Seeded' /\ Type' = Type
    BY <1>1, <2>1, InvStep DEF IInv, vars, Seeded, Type
  <2>3. Edges' = Edges /\ Linked' = Linked /\ Prims' = Prims
    BY <2>1, EdgesKept, LinkedKept
  <2>4. phase \in After \cup {"parents"} => CyclesKept'
    BY <1>1, <2>1, CyclesStay DEF IInv
  <2>5. CyclesKept'
    BY <2>1, <2>4 DEF CyclesKept
  <2>6. Parents'
    BY <1>1, <2>1, <2>2, <2>3 DEF IInv, Parents, FromReference
  <2> QED
    BY <2>2, <2>5, <2>6 DEF IInv
<1> QED
  BY <1>1, SeedCircles, CreateCircles, AllCreatedCircles, FindCyclesCircles,
     ResolveParentsCircles, PrimitivesCircles, LinksCircles, InheritingCircles DEF Next

\* A circle of parents would be a circle of references that was not recorded.
LEMMA NoCircle ==
  ASSUME IInv
  PROVE  OnlyLinksCloseCycles
<1> SUFFICES ASSUME NEW t \in Type, Reaches(t, t, ParentEdges(Type \ Linked)) PROVE FALSE
  BY DEF OnlyLinksCloseCycles
<1> DEFINE E == ParentEdges(Type \ Linked)
<1>1. \A e \in E : e[1] \in Type \ Linked /\ e[2] = parent[e[1]] /\ parent[e[1]] # 0
                   /\ e = <<e[1], e[2]>>
  BY DEF ParentEdges
<1>2. Reaches(t, t, E)
  OBVIOUS
<1> HIDE DEF E
<1>3. PICK a \in E : a[2] = t
  BY <1>2, CircleEdges
<1>4. PICK b \in E : b[1] = t
  BY <1>2, CircleEdges
<1>5. phase \in After
  <2>1. phase \in Before \cup After
    BY DEF IInv, Inv, TypeOK, Before, After
  <2> QED
    BY <1>1, <1>3, <2>1 DEF IInv, Parents
<1>6. \A e \in E : (e \in Edges /\ e[1] \notin cyclic) \/ e[2] \in Prims
  BY <1>1, <1>5 DEF IInv, Parents, FromReference
<1>7. \A e \in E : e[1] \notin Prims
  BY <1>1, <1>5 DEF IInv, Parents
<1>8. t \notin Prims
  BY <1>4, <1>7
<1>9. t \in CycleMembers(Edges)
  <2>1. t \in Heads(Edges)
    BY <1>3, <1>6, <1>8 DEF Heads
  <2>2. ASSUME NEW S \in SUBSET Heads(Edges),
               \A e \in Edges : e[1] = t => e[2] \in S,
               Closed(S, Edges)
        PROVE  t \in S
    <3> DEFINE R == (S \cup Prims) \cap Heads(E)
    <3>1. \A e \in E : e[2] \in Heads(E)
      BY DEF Heads
    <3>2. \A e \in E : e[1] = t => e[2] \in R
      BY <1>6, <2>2, <3>1
    <3>3. \A e \in E : e[1] \in R => e[2] \in R
      BY <1>6, <1>7, <2>2, <3>1 DEF Closed
    <3>4. t \in R
      BY <1>2, <3>2, <3>3 DEF Reaches, Closed
    <3> QED
      BY <1>8, <3>4
  <2> QED
    BY <2>1, <2>2 DEF CycleMembers, Reaches
<1>10. t \in cyclic
  BY <1>5, <1>9 DEF IInv, CyclesKept
<1> DEFINE P == Prims \cap Heads(E)
<1>11. \A e \in E : e[1] = t => e[2] \in P
  BY <1>6, <1>10 DEF Heads
<1>12. \A e \in E : e[1] \in P => e[2] \in P
  BY <1>7
<1>13. t \in P
  BY <1>2, <1>11, <1>12 DEF Reaches, Closed
<1> QED
  BY <1>8, <1>13

\* For any modules, definitions and imports, chains of parents are cut at every cycle
\* of references: a circle of parents takes an RFC1213 link.
THEOREM OnlyLinksCloseCyclesHolds == Spec => []OnlyLinksCloseCycles
<1>1. Spec => []IInv
  BY CirclesInit, CirclesStep, PTL DEF Spec
<1> QED
  BY <1>1, NoCircle, PTL

------------------------------------------------------------------------------
(* Chains of parents. *)

\* What holds of 0, and of n + 1 whenever it holds of n, holds of every number.
LEMMA Induction ==
  ASSUME NEW S, 0 \in S, \A n \in Nat : n \in S => n + 1 \in S
  PROVE  Nat \subseteq S
<1> SUFFICES ASSUME Nat \ S # {} PROVE FALSE
  OBVIOUS
<1>1. PICK n \in Nat \ S : \A k \in Nat \ S : n <= k
  BY SmallestMember
<1>2. n # 0 /\ n - 1 \in Nat
  BY <1>1
<1>3. n - 1 \in S
  BY <1>1, <1>2
<1> QED
  BY <1>1, <1>2, <1>3

\* One step up a chain.
Up(u) == IF u = 0 THEN 0 ELSE parent[u]

\* f lists the first k + 1 types of the chain that starts at t.
Climbs(f, t, k) == f = [i \in 0 .. k |-> IF i = 0 THEN t ELSE Up(f[i - 1])]

LEMMA ClimbExists ==
  ASSUME NEW t, NEW k \in Nat
  PROVE  \E f : Climbs(f, t, k)
<1> DEFINE S == {n \in Nat : \E f : Climbs(f, t, n)}
<1>1. 0 \in S
  <2> DEFINE f == [i \in 0 .. 0 |-> t]
  <2>1. Climbs(f, t, 0)
    BY DEF Climbs
  <2> QED
    BY <2>1
<1>2. ASSUME NEW n \in Nat, n \in S PROVE n + 1 \in S
  <2>1. PICK g : Climbs(g, t, n)
    BY <1>2
  <2> DEFINE f == [i \in 0 .. n + 1 |-> IF i = n + 1 THEN Up(g[n]) ELSE g[i]]
  <2>2. \A i \in 0 .. n : g[i] = IF i = 0 THEN t ELSE Up(g[i - 1])
    BY <2>1 DEF Climbs
  <2>3. \A i \in 0 .. n + 1 : f[i] = IF i = 0 THEN t ELSE Up(f[i - 1])
    <3>1. TAKE i \in 0 .. n + 1
    <3>2. CASE i = n + 1
      <4>1. f[i] = Up(g[n]) /\ i - 1 = n /\ i # 0 /\ f[n] = g[n] /\ n \in 0 .. n + 1
        BY <3>2
      <4> QED
        BY <4>1
    <3>3. CASE i # n + 1
      <4>1. i \in 0 .. n /\ f[i] = g[i]
        BY <3>3
      <4>2. i # 0 => i - 1 \in 0 .. n + 1 /\ i - 1 # n + 1 /\ f[i - 1] = g[i - 1]
        BY <3>3
      <4> QED
        BY <2>2, <4>1, <4>2
    <3> QED
      BY <3>2, <3>3
  <2>4. f = [i \in 0 .. n + 1 |-> IF i = 0 THEN t ELSE Up(f[i - 1])]
    <3>1. f = [i \in 0 .. n + 1 |-> f[i]]
      OBVIOUS
    <3> HIDE DEF f
    <3> QED
      BY <2>3, <3>1
  <2>5. Climbs(f, t, n + 1)
    <3> HIDE DEF f
    <3> QED
      BY <2>4 DEF Climbs
  <2> QED
    BY <2>5
<1> QED
  <2> HIDE DEF S
  <2>1. k \in S
    BY <1>1, <1>2, Induction
  <2> QED
    BY <2>1 DEF S

\* Two lists of one chain agree.
LEMMA ClimbsAgree ==
  ASSUME NEW t, NEW j \in Nat, NEW k \in Nat, NEW f, NEW g, Climbs(f, t, j), Climbs(g, t, k)
  PROVE  \A i \in Nat : i <= j /\ i <= k => f[i] = g[i]
<1> DEFINE S == {i \in Nat : i <= j /\ i <= k => f[i] = g[i]}
<1>1. /\ \A i \in 0 .. j : f[i] = IF i = 0 THEN t ELSE Up(f[i - 1])
      /\ \A i \in 0 .. k : g[i] = IF i = 0 THEN t ELSE Up(g[i - 1])
  BY DEF Climbs
<1>2. 0 \in S
  BY <1>1
<1>3. ASSUME NEW n \in Nat, n \in S PROVE n + 1 \in S
  <2> SUFFICES ASSUME n + 1 <= j, n + 1 <= k PROVE f[n + 1] = g[n + 1]
    OBVIOUS
  <2>1. f[n] = g[n]
    BY <1>3
  <2>2. /\ n + 1 \in 0 .. j /\ n + 1 \in 0 .. k /\ n + 1 # 0 /\ (n + 1) - 1 = n
    OBVIOUS
  <2> QED
    BY <1>1, <2>1, <2>2
<1> HIDE DEF S
<1>4. \A i \in Nat : i \in S
  BY <1>2, <1>3, Induction
<1> QED
  BY <1>4 DEF S

LEMMA AncestorIs ==
  ASSUME NEW t, NEW k \in Nat
  PROVE  \E f : Climbs(f, t, k) /\ Ancestor(t, k) = f[k]
<1> DEFINE g == CHOOSE f : Climbs(f, t, k)
<1>1. Climbs(g, t, k)
  BY ClimbExists
<1>2. Ancestor(t, k) = g[k]
  BY DEF Ancestor, Climbs, Up
<1> QED
  BY <1>1, <1>2

\* The chain starts at t and goes on with parents.
LEMMA AncestorStep ==
  ASSUME NEW t, NEW k \in Nat
  PROVE  /\ Ancestor(t, 0) = t
         /\ Ancestor(t, k + 1) = Up(Ancestor(t, k))
<1>1. PICK f : Climbs(f, t, 0) /\ Ancestor(t, 0) = f[0]
  BY AncestorIs
<1>2. PICK g : Climbs(g, t, k) /\ Ancestor(t, k) = g[k]
  BY AncestorIs
<1>3. PICK h : Climbs(h, t, k + 1) /\ Ancestor(t, k + 1) = h[k + 1]
  BY AncestorIs
<1>4. f[0] = t
  BY <1>1 DEF Climbs
<1>5. h[k] = g[k]
  <2>1. k + 1 \in Nat /\ k <= k /\ k <= k + 1
    OBVIOUS
  <2> QED
    BY <1>2, <1>3, <2>1, ClimbsAgree
<1>6. h[k + 1] = Up(h[k])
  <2>1. k + 1 \in 0 .. k + 1 /\ k + 1 # 0 /\ (k + 1) - 1 = k
    OBVIOUS
  <2>2. \A i \in 0 .. k + 1 : h[i] = IF i = 0 THEN t ELSE Up(h[i - 1])
    BY <1>3 DEF Climbs
  <2> QED
    BY <2>1, <2>2
<1> QED
  BY <1>1, <1>2, <1>3, <1>4, <1>5, <1>6

\* A chain passes through types until it ends.
LEMMA AncestorType ==
  ASSUME parent \in [Type -> 0 .. Len(types)], Len(types) \in Nat, NEW t \in Type, NEW k \in Nat
  PROVE  Ancestor(t, k) \in 0 .. Len(types)
<1> DEFINE S == {n \in Nat : Ancestor(t, n) \in 0 .. Len(types)}
<1>1. 0 \in S
  BY AncestorStep DEF Type
<1>2. ASSUME NEW n \in Nat, n \in S PROVE n + 1 \in S
  <2>1. Ancestor(t, n + 1) = Up(Ancestor(t, n)) /\ Ancestor(t, n) \in 0 .. Len(types)
    BY <1>2, AncestorStep
  <2>2. \A u \in 0 .. Len(types) : Up(u) \in 0 .. Len(types)
    BY DEF Up, Type
  <2> QED
    BY <2>1, <2>2
<1> HIDE DEF S
<1>3. k \in S
  BY <1>1, <1>2, Induction
<1> QED
  BY <1>3 DEF S

\* Past its end a chain stays at its end.
LEMMA AncestorPastEnd ==
  ASSUME NEW u, parent[u] = 0, NEW k \in Nat, k # 0
  PROVE  Ancestor(u, k) = 0
<1> DEFINE S == {n \in Nat : Ancestor(u, n + 1) = 0}
<1>1. 0 \in S
  <2>1. Ancestor(u, 0) = u /\ Ancestor(u, 0 + 1) = Up(Ancestor(u, 0))
    BY AncestorStep
  <2> QED
    BY <2>1 DEF Up
<1>2. ASSUME NEW n \in Nat, n \in S PROVE n + 1 \in S
  <2>1. Ancestor(u, (n + 1) + 1) = Up(Ancestor(u, n + 1)) /\ Ancestor(u, n + 1) = 0
    BY <1>2, AncestorStep
  <2> QED
    BY <2>1 DEF Up
<1> HIDE DEF S
<1>3. k - 1 \in S
  BY <1>1, <1>2, Induction
<1>4. Ancestor(u, (k - 1) + 1) = 0
  BY <1>3 DEF S
<1>5. (k - 1) + 1 = k
  OBVIOUS
<1> QED
  BY <1>4, <1>5

\* What is up a chain is met by it.
LEMMA AncestorMet ==
  ASSUME parent \in [Type -> 0 .. Len(types)], Len(types) \in Nat, NEW t \in Type, NEW k \in Nat,
         Ancestor(t, k) # 0
  PROVE  ChainMeets(t, Ancestor(t, k))
<1> DEFINE E == ParentEdges(Type)
<1>1. \A u \in Type : parent[u] # 0 => <<u, parent[u]>> \in E
  BY DEF ParentEdges
<1>2. ASSUME NEW R \in SUBSET Heads(E), \A e \in E : e[1] = t => e[2] \in R, Closed(R, E)
      PROVE  Ancestor(t, k) = t \/ Ancestor(t, k) \in R
  <2> DEFINE S == {n \in Nat : Ancestor(t, n) \in {0, t} \cup R}
  <2>1. 0 \in S
    BY AncestorStep
  <2>2. ASSUME NEW n \in Nat, n \in S PROVE n + 1 \in S
    <3> DEFINE u == Ancestor(t, n)
    <3>1. Ancestor(t, n + 1) = Up(u) /\ u \in {0, t} \cup R /\ u \in 0 .. Len(types)
      BY <2>2, AncestorStep, AncestorType
    <3> HIDE DEF u
    <3>2. u # 0 => u \in Type
      BY <3>1 DEF Type
    <3>3. CASE u = 0 \/ parent[u] = 0
      BY <3>1, <3>3 DEF Up
    <3>4. CASE u # 0 /\ parent[u] # 0
      <4>1. <<u, parent[u]>> \in E
        BY <1>1, <3>2, <3>4
      <4>2. parent[u] \in R
        BY <1>2, <3>1, <3>4, <4>1 DEF Closed
      <4>3. Ancestor(t, n + 1) = parent[u]
        BY <3>1, <3>4 DEF Up
      <4> QED
        BY <4>2, <4>3
    <3> QED
      BY <3>3, <3>4
  <2> HIDE DEF S
  <2>3. k \in S
    BY <2>1, <2>2, Induction
  <2> QED
    BY <2>3 DEF S
<1> HIDE DEF E
<1>3. Ancestor(t, k) = t \/ Reaches(t, Ancestor(t, k), E)
  BY <1>2 DEF Reaches
<1> QED
  BY <1>3 DEF ChainMeets, E

\* The end of a chain has the base that its own declaration gives it.
LEMMA EndKeepsBase ==
  ASSUME NEW u \in Type, parent[u] = 0, types[u].base = "Unknown"
  PROVE  BaseFromChain(u) = "Unknown"
<1> DEFINE known == {k \in 0 .. DepthLimit - 1 :
                       Ancestor(u, k) \in Type /\ types[Ancestor(u, k)].base # "Unknown"}
<1>1. \A k \in Nat : Ancestor(u, k) \notin Type \/ Ancestor(u, k) = u
  <2>1. TAKE k \in Nat
  <2>2. k # 0 => Ancestor(u, k) = 0
    BY AncestorPastEnd
  <2>3. k = 0 => Ancestor(u, k) = u
    BY AncestorStep
  <2> QED
    BY <2>2, <2>3 DEF Type
<1>2. known = {}
  BY <1>1, TypeGraphAssumption
<1>3. BaseFromChain(u) = IF known = {} THEN "Unknown"
        ELSE types[Ancestor(u, CHOOSE k \in known : \A j \in known : k <= j)].base
  BY DEF BaseFromChain
<1> HIDE DEF known
<1> QED
  BY <1>2, <1>3

\* A base that stays unknown was unknown all the way up.
LEMMA UnknownAllTheWay ==
  ASSUME Inv, NEW t \in Type, BaseFromChain(t) = "Unknown", NEW k \in 0 .. DepthLimit - 1,
         Ancestor(t, k) \in Type
  PROVE  types[Ancestor(t, k)].base = "Unknown"
<1> DEFINE known == {j \in 0 .. DepthLimit - 1 :
                       Ancestor(t, j) \in Type /\ types[Ancestor(t, j)].base # "Unknown"}
           first == CHOOSE i \in known : \A j \in known : i <= j
<1>1. BaseFromChain(t) = IF known = {} THEN "Unknown" ELSE types[Ancestor(t, first)].base
  BY DEF BaseFromChain
<1>2. known # {} => first \in known
  <2>1. known \in SUBSET Nat
    BY TypeGraphAssumption
  <2>2. known # {} => \E i \in known : \A j \in known : i <= j
    <3> HIDE DEF known
    <3> QED
      BY <2>1, SmallestMember
  <2> HIDE DEF known
  <2> QED
    BY <2>2
<1>3. known # {} => types[Ancestor(t, first)].base # "Unknown"
  <2> HIDE DEF first
  <2> QED
    BY <1>2
<1>4. known = {}
  BY <1>1, <1>3
<1> QED
  BY <1>4

------------------------------------------------------------------------------
(* Nothing is lost without a report.                                         *)
(*                                                                           *)
(* A chain ends in a type without a parent.  If that one names a type, the   *)
(* name was looked up for it or it was found on a circle, so that a report   *)
(* hangs on it: this is so for the types that names lead to, and every       *)
(* parent is one of those, since parents are found by their names.           *)

\* The types that names lead to.
Current == {symbol[m][n] : m \in Module, n \in Name} \ {0}

\* Such a type bears the name; if it refers to a type, so does a definition of the name.
Origin ==
  \A m \in Module, n \in Name :
    symbol[m][n] # 0 =>
      /\ types[symbol[m][n]].name = n
      /\ types[symbol[m][n]].ref # NoName =>
           \E i \in Referring : world.defs[i].module = m /\ world.defs[i].name = n

Upwards == \A t \in Type : parent[t] # 0 => parent[t] \in Current

Told(u) == \E r \in unresolved : r.type = u

CyclesTold == phase \in After \cup {"parents"} => \A u \in cyclic : Told(u)

\* What refers to a type was linked or reported.
Followed == phase \in After =>
              \A u \in Current : types[u].ref # NoName /\ parent[u] = 0 => Told(u)

Inheriting == {"normalize", "effective", "done"}

\* The end of a chain whose start has no base has none.
EndsUnknown ==
  phase \in Inheriting =>
    \A t \in Type, k \in 0 .. DepthLimit - 1 :
      types[t].base = "Unknown" /\ Ancestor(t, k) # 0 /\ parent[Ancestor(t, k)] = 0 =>
        types[Ancestor(t, k)].base = "Unknown"

UInv == IInv /\ Origin /\ Upwards /\ CyclesTold /\ Followed /\ EndsUnknown

LEMMA ReportsInit == Init => UInv
<1> SUFFICES ASSUME Init PROVE UInv
  OBVIOUS
<1>1. (\A m \in Module, n \in Name : symbol[m][n] = 0) /\ phase = "seed"
  BY DEF Init
<1>2. Type = {}
  BY EmptySeq DEF Init, Type
<1> QED
  BY <1>1, <1>2, CirclesInit
     DEF UInv, Origin, Upwards, CyclesTold, Followed, EndsUnknown, After, Inheriting

LEMMA SeedReports == UInv /\ seed_primitive_types => UInv'
<1> SUFFICES ASSUME UInv, seed_primitive_types PROVE UInv'
  OBVIOUS
<1>1. IInv' /\ types = <<>> /\ phase' = "create"
  BY SeedCircles DEF UInv, IInv, Inv, Early, seed_primitive_types
<1>2. Upwards'
  BY <1>1 DEF IInv, Parents, Before, Upwards
<1>3. \A m \in Module, n \in Name : symbol[m][n] = 0
  <2>1. Len(types) = 0
    BY <1>1, EmptySeq
  <2> QED
    BY <2>1 DEF UInv, IInv, Inv, TypeOK
<1>4. Origin'
  <2> SUFFICES ASSUME NEW m \in Module, NEW n \in Name, symbol'[m][n] # 0
               PROVE  /\ types'[symbol'[m][n]].name = n
                      /\ types'[symbol'[m][n]].ref = NoName
    BY DEF Origin
  <2>1. types'[symbol'[m][n]].name = n
    BY <1>1 DEF IInv, Seeded, Before
  <2>2. SMI \in world.loaded
    BY <1>3 DEF seed_primitive_types
  <2>3. types' = [i \in 1 .. 4 |-> Primitive(i)]
        /\ symbol' = [symbol EXCEPT ![SMI] = [x \in Name |-> PrimitiveIndex(x)]]
    BY <2>2, PrimitiveType DEF seed_primitive_types
  <2>4. symbol'[m][n] \in 1 .. 4
    <3>1. types' \in Seq(TypeData) /\ Len(types') = 4
      BY <2>3, PrimitiveType, FunctionIsSeq
    <3>2. symbol'[m][n] \in 0 .. Len(types')
      BY <1>1 DEF IInv, Inv, TypeOK
    <3> QED
      BY <3>1, <3>2
  <2> QED
    BY <2>1, <2>3, <2>4 DEF Primitive
<1> QED
  BY <1>1, <1>2, <1>4 DEF UInv, CyclesTold, Followed, EndsUnknown, After, Inheriting

LEMMA CreateReports == UInv /\ create_user_types => UInv'
<1> SUFFICES ASSUME UInv, create_user_types PROVE UInv'
  OBVIOUS
<1>1. IInv' /\ phase' = "create" /\ next \in Nat \ {0} /\ Inv
  BY CreateCircles DEF UInv, IInv, Inv, TypeOK, create_user_types
<1>2. Upwards'
  BY <1>1 DEF IInv, Parents, Before, Upwards
<1>3. next \in DOMAIN world.defs
  <2>1. world.defs \in Seq(Definition)
    BY <1>1, TypeGraphAssumption DEF Inv, World
  <2> QED
    BY <1>1, <2>1, LenProperties DEF create_user_types
<1> DEFINE d == world.defs[next]
           t == Declared(d)
           k == Len(types) + 1
<1>4. Referring' = Referring
  BY DEF create_user_types, Referring
<1>5. CASE d.sequence
  <2>1. UNCHANGED <<types, symbol, world>>
    BY <1>5 DEF create_user_types
  <2> QED
    BY <1>1, <1>2, <1>4, <2>1
       DEF UInv, Origin, CyclesTold, Followed, EndsUnknown, After, Inheriting
<1>6. CASE ~ d.sequence
  <2>1. d \in Definition
    BY <1>1, <1>3, DefType DEF Inv
  <2>2. t.module = d.module /\ t.name = d.name /\ t.ref = d.ref
        /\ d.module \in Module /\ d.name \in Name /\ t \in TypeData
    BY <2>1, DeclaredType DEF Declared, Definition
  <2>3. t.ref # NoName => next \in Referring
    BY <1>3, <1>6, <2>2 DEF Referring
  <2>4. t.ref # NoName =>
          \E i \in Referring : world.defs[i].module = t.module /\ world.defs[i].name = t.name
    BY <2>2, <2>3
  <2> HIDE DEF d, t
  <2>5. /\ types' = Append(types, t) /\ UNCHANGED world
        /\ symbol' = [symbol EXCEPT ![t.module][t.name] = k]
    BY <1>6 DEF create_user_types, AddType, d, t
  <2>6. types \in Seq(TypeData) /\ Len(types) \in Nat
        /\ symbol \in [Module -> [Name -> 0 .. Len(types)]]
    BY <1>1, ArenaType DEF Inv, TypeOK
  <2>7. (\A u \in 1 .. Len(types) : types'[u] = types[u]) /\ types'[k] = t
    BY <2>2, <2>5, <2>6, AppendProperties
  <2>8. \A m \in Module, x \in Name :
          symbol'[m][x] = IF m = t.module /\ x = t.name THEN k ELSE symbol[m][x]
    BY <2>5, <2>6
  <2> HIDE DEF k
  <2>9. Origin'
    <3>1. ASSUME NEW m \in Module, NEW n \in Name, symbol'[m][n] # 0
          PROVE  /\ types'[symbol'[m][n]].name = n
                 /\ types'[symbol'[m][n]].ref # NoName =>
                      \E i \in Referring : world.defs[i].module = m /\ world.defs[i].name = n
      <4>1. CASE m = t.module /\ n = t.name
        BY <2>2, <2>4, <2>7, <2>8, <4>1
      <4>2. CASE ~ (m = t.module /\ n = t.name)
        <5>1. symbol'[m][n] = symbol[m][n] /\ symbol[m][n] \in 1 .. Len(types)
          BY <2>6, <2>8, <3>1, <4>2
        <5>2. types'[symbol'[m][n]] = types[symbol[m][n]]
          BY <2>7, <5>1
        <5> QED
          BY <3>1, <5>1, <5>2 DEF UInv, Origin
      <4> QED
        BY <4>1, <4>2
    <3>2. world' = world
      BY <2>5
    <3> QED
      BY <1>4, <3>1, <3>2 DEF Origin
  <2> QED
    BY <1>1, <1>2, <2>9 DEF UInv, CyclesTold, Followed, EndsUnknown, After, Inheriting
<1> QED
  BY <1>5, <1>6

LEMMA AllCreatedReports == UInv /\ AllCreated => UInv'
<1> SUFFICES ASSUME UInv, AllCreated PROVE UInv'
  OBVIOUS
<1>1. IInv' /\ phase' = "graph" /\ UNCHANGED <<world, types, symbol, parent>>
  BY AllCreatedCircles DEF UInv, AllCreated
<1>2. Upwards'
  BY <1>1 DEF IInv, Parents, Before, Upwards
<1> QED
  BY <1>1, <1>2 DEF UInv, Origin, Referring, CyclesTold, Followed, EndsUnknown, After, Inheriting

LEMMA FindCyclesReports == UInv /\ FindCycles => UInv'
<1> SUFFICES ASSUME UInv, FindCycles PROVE UInv'
  OBVIOUS
<1>1. IInv' /\ phase' = "parents" /\ UNCHANGED <<world, types, symbol, parent>>
      /\ unresolved' = {Unresolved(t, "DependencyCycle") : t \in cyclic'}
  BY FindCyclesCircles DEF UInv, FindCycles
<1>2. Upwards'
  BY <1>1 DEF IInv, Parents, Before, Upwards
<1>3. ASSUME NEW u \in cyclic' PROVE Told(u)'
  <2>1. Unresolved(u, "DependencyCycle") \in unresolved'
    BY <1>1, <1>3
  <2>2. Unresolved(u, "DependencyCycle").type = u
    BY DEF Unresolved
  <2> QED
    BY <2>1, <2>2 DEF Told
<1> QED
  BY <1>1, <1>2, <1>3
     DEF UInv, Origin, Referring, CyclesTold, Followed, EndsUnknown, After, Inheriting

\* Names lead to what names lead to.
LEMMA LookupCurrent ==
  ASSUME Inv, NEW m \in Module, NEW n \in Name, Lookup(m, n) # 0
  PROVE  Lookup(m, n) \in Current
<1>1. {SMI, TC, RFC1155} \subseteq Module
  BY TypeGraphAssumption
<1>2. \A i \in DOMAIN Fallbacks : i \in Nat /\ Fallbacks[i] \in Module
  BY <1>1 DEF Fallbacks
<1>3. \A x \in Module : symbol[x][n] # 0 => symbol[x][n] \in Current
  BY DEF Current
<1>4. WellKnown(n) # 0 => WellKnown(n) \in Current
  <2> DEFINE hits == {i \in DOMAIN Fallbacks : symbol[Fallbacks[i]][n] # 0}
             best == CHOOSE i \in hits : \A j \in hits : i <= j
  <2>1. ASSUME hits # {} PROVE best \in hits
    <3>1. hits \in SUBSET Nat
      BY <1>2
    <3>2. \E i \in hits : \A j \in hits : i <= j
      <4> HIDE DEF hits
      <4> QED
        BY <2>1, <3>1, SmallestMember
    <3> QED
      BY <3>2
  <2>2. hits # {} => symbol[Fallbacks[best]][n] \in Current
    <3> HIDE DEF best
    <3> QED
      BY <1>2, <1>3, <2>1
  <2>3. n \notin PrimitiveNames /\ hits # {} => WellKnown(n) = symbol[Fallbacks[best]][n]
    BY DEF WellKnown
  <2>4. n \notin PrimitiveNames /\ hits = {} => WellKnown(n) = 0
    BY DEF WellKnown
  <2>5. n \in PrimitiveNames => WellKnown(n) = symbol[SMI][n]
    BY DEF WellKnown
  <2> HIDE DEF hits, best
  <2> QED
    BY <1>1, <1>3, <2>2, <2>3, <2>4, <2>5
<1>5. world.imports[m][n] \in Module \cup {NoName}
  BY TypeGraphAssumption DEF Inv, World, Scope
<1>6. Imported(m, n) # 0 => Imported(m, n) \in Current
  BY <1>3, <1>5 DEF Imported
<1> QED
  BY <1>3, <1>4, <1>6 DEF Lookup

LEMMA PrimitiveForCurrent ==
  ASSUME NEW b, PrimitiveFor(b) # 0
  PROVE  PrimitiveFor(b) \in Current
<1> DEFINE hits == {i \in DOMAIN Primitives :
                      Primitives[i].base = b /\ symbol[SMI][Primitives[i].name] # 0}
           hit == CHOOSE i \in hits : TRUE
<1>1. hits # {} => hit \in DOMAIN Primitives
  OBVIOUS
<1>2. PrimitiveFor(b) = IF SMI \notin world.loaded \/ hits = {} THEN 0
                        ELSE symbol[SMI][Primitives[hit].name]
  BY DEF PrimitiveFor
<1>3. SMI \in Module /\ \A i \in DOMAIN Primitives : Primitives[i].name \in Name
  BY PrimitiveType, TypeGraphAssumption
<1> HIDE DEF hits, hit
<1> QED
  BY <1>1, <1>2, <1>3 DEF Current

\* A type that refers to itself is on a circle.
LEMMA SelfReferenceIsCyclic ==
  ASSUME Inv, NEW t \in Type, Refers(t) # {}, Refer(t) = t
  PROVE  t \in CycleMembers(Edges)
<1>1. ParentRef(t) \in Referring /\ Subject(ParentRef(t)) = t /\ Target(ParentRef(t)) = t
  BY ParentRefIn DEF Refers, Refer
<1>2. t # 0
  BY DEF Type
<1>3. <<t, t>> \in Edges
  BY <1>1, <1>2 DEF Edges
<1> HIDE DEF Edges
<1>4. t \in Heads(Edges) /\ Reaches(t, t, Edges)
  BY <1>3 DEF Heads, Reaches
<1> QED
  BY <1>4 DEF CycleMembers

LEMMA ResolveParentsReports == UInv /\ ResolveParents => UInv'
<1> SUFFICES ASSUME UInv, ResolveParents PROVE UInv'
  OBVIOUS
<1>1. /\ Inv /\ IInv' /\ phase = "parents" /\ phase' = "primitives"
      /\ UNCHANGED <<world, types, symbol, cyclic>>
      /\ parent' = [t \in Type |-> IF t \in Linkable /\ Refer(t) # t THEN Refer(t) ELSE 0]
      /\ unresolved' = unresolved \cup {Unresolved(t, "TypeNotFound") : t \in NotFound}
  BY ResolveParentsCircles DEF UInv, IInv, ResolveParents
<1>2. Type' = Type /\ Current' = Current /\ Referring' = Referring
  BY <1>1 DEF Type, Current, Referring
<1>3. Origin'
  BY <1>1, <1>2 DEF UInv, Origin
<1>4. ASSUME NEW t \in Type, parent'[t] # 0 PROVE parent'[t] \in Current
  <2>1. t \in Linkable /\ parent'[t] = Refer(t)
    BY <1>1, <1>4
  <2>2. ParentRef(t) \in Referring
    BY <1>1, <2>1, ParentRefIn DEF Linkable
  <2>3. world.defs[ParentRef(t)].module \in Module /\ world.defs[ParentRef(t)].ref \in Name
    BY <1>1, <2>2, ReferringType
  <2> QED
    BY <1>1, <1>4, <2>1, <2>3, LookupCurrent DEF Refer, Target
<1>5. Upwards'
  BY <1>2, <1>4 DEF Upwards
<1>6. \A u : Told(u) => Told(u)'
  BY <1>1 DEF Told
<1>7. CyclesTold'
  BY <1>1, <1>6 DEF UInv, CyclesTold
<1>8. ASSUME NEW u \in Current, types[u].ref # NoName, parent'[u] = 0 PROVE Told(u)'
  <2>1. PICK m \in Module, n \in Name : symbol[m][n] = u /\ u # 0
    BY DEF Current
  <2>2. u \in Type
    BY <1>1, <2>1, ArenaType DEF Inv, TypeOK, Type
  <2>3. PICK i \in Referring : world.defs[i].module = m /\ world.defs[i].name = n
    BY <1>8, <2>1 DEF UInv, Origin
  <2>4. Refers(u) # {}
    BY <2>1, <2>3 DEF Refers, Subject
  <2>5. CASE u \in cyclic
    BY <1>1, <1>6, <2>5 DEF UInv, CyclesTold
  <2>6. CASE u \notin cyclic
    <3>1. u \in Linkable
      BY <2>2, <2>4, <2>6 DEF Linkable
    <3>2. Refer(u) # u
      BY <1>1, <2>2, <2>4, <2>6, SelfReferenceIsCyclic DEF UInv, IInv, CyclesKept
    <3>3. u \in NotFound
      BY <1>1, <1>8, <2>2, <3>1, <3>2 DEF NotFound
    <3>4. Unresolved(u, "TypeNotFound") \in unresolved'
      BY <1>1, <3>3
    <3>5. Unresolved(u, "TypeNotFound").type = u
      BY DEF Unresolved
    <3> QED
      BY <3>4, <3>5 DEF Told
  <2> QED
    BY <2>5, <2>6
<1>9. Followed'
  BY <1>1, <1>2, <1>8 DEF Followed
<1> QED
  BY <1>1, <1>3, <1>5, <1>7, <1>9 DEF UInv, EndsUnknown, Inheriting

\* Linking the types that have no parent, or giving one another, loses no report.
LEMMA RelinkingReports ==
  ASSUME UInv, IInv', phase \in After, phase' \in {"rfc1213", "inherit"},
         UNCHANGED <<world, types, symbol, cyclic, unresolved>>,
         \A t \in Type : \/ parent'[t] = parent[t]
                         \/ parent'[t] \in Current
  PROVE  UInv'
<1>1. Type' = Type /\ Current' = Current /\ Referring' = Referring
  BY DEF Type, Current, Referring
<1>2. Origin'
  BY <1>1 DEF UInv, Origin
<1>3. Upwards'
  BY <1>1 DEF UInv, Upwards
<1>4. \A u : Told(u)' = Told(u)
  BY DEF Told
<1>5. CyclesTold'
  BY <1>4 DEF UInv, CyclesTold
<1>6. \A u \in Current : u \in Type /\ u # 0
  <2>1. Inv
    BY DEF UInv, IInv
  <2> QED
    BY <2>1, ArenaType DEF Current, Inv, TypeOK, Type
<1>7. Followed'
  BY <1>1, <1>4, <1>6 DEF UInv, Followed
<1> QED
  BY <1>2, <1>3, <1>5, <1>7 DEF UInv, EndsUnknown, Inheriting

LEMMA PrimitivesReports == UInv /\ link_primitive_syntax_parents => UInv'
<1> SUFFICES ASSUME UInv, link_primitive_syntax_parents PROVE UInv'
  OBVIOUS
<1>1. /\ IInv' /\ phase = "primitives" /\ phase' = "rfc1213"
      /\ UNCHANGED <<world, types, symbol, cyclic, unresolved>>
      /\ parent' = [t \in Type |-> PrimitiveParent(t)]
  BY PrimitivesCircles DEF UInv, link_primitive_syntax_parents
<1>2. ASSUME NEW t \in Type PROVE parent'[t] = parent[t] \/ parent'[t] \in Current
  <2>1. \/ parent'[t] = parent[t]
        \/ parent[t] = 0 /\ parent'[t] = PrimitiveFor(types[t].base)
    BY <1>1 DEF PrimitiveParent
  <2> QED
    BY <2>1, PrimitiveForCurrent
<1> QED
  BY <1>1, <1>2, RelinkingReports DEF After

LEMMA LinksReports == UInv /\ link_rfc1213_types_to_tcs => UInv'
<1> SUFFICES ASSUME UInv, link_rfc1213_types_to_tcs PROVE UInv'
  OBVIOUS
<1>1. /\ IInv' /\ phase = "rfc1213" /\ phase' = "inherit"
      /\ UNCHANGED <<world, types, symbol, cyclic, unresolved>>
      /\ parent' = [t \in Type |-> RfcParent(t)]
  BY LinksCircles DEF UInv, link_rfc1213_types_to_tcs
<1>2. ASSUME NEW t \in Type PROVE parent'[t] = parent[t] \/ parent'[t] \in Current
  <2>1. CASE t \notin Linked
    BY <1>1, <2>1 DEF RfcParent
  <2>2. CASE t \in Linked
    <3>1. PICK n \in LinkedNames : /\ t = symbol[RFC1213][n] /\ t # 0
                                   /\ symbol[TC][n] # 0
      BY <2>2 DEF Linked
    <3>2. n \in Name /\ RFC1213 \in Module /\ TC \in Module
      BY TypeGraphAssumption
    <3>3. types[t].name = n
      BY <3>1, <3>2 DEF UInv, Origin
    <3> QED
      BY <1>1, <2>2, <3>1, <3>2, <3>3 DEF RfcParent, Current
  <2> QED
    BY <2>1, <2>2
<1> QED
  BY <1>1, <1>2, RelinkingReports DEF After

\* Inheriting changes neither the names and references of types nor their parents.
LEMMA InheritingKeeps ==
  ASSUME UInv, IInv', phase \in After, phase' \in After, Type' = Type,
         UNCHANGED <<world, symbol, parent, cyclic, unresolved>>,
         \A u \in Type : types'[u].name = types[u].name /\ types'[u].ref = types[u].ref
  PROVE  Origin' /\ Upwards' /\ CyclesTold' /\ Followed'
<1>1. Current' = Current /\ Referring' = Referring
  BY DEF Current, Referring
<1>2. \A m \in Module, n \in Name : symbol[m][n] # 0 => symbol[m][n] \in Type
  BY ArenaType DEF UInv, IInv, Inv, TypeOK, Type
<1>3. Origin'
  BY <1>1, <1>2 DEF UInv, Origin
<1>4. Upwards'
  BY <1>1 DEF UInv, Upwards
<1>5. \A u : Told(u)' = Told(u)
  BY DEF Told
<1>6. CyclesTold'
  BY <1>5 DEF UInv, CyclesTold
<1>7. Followed'
  BY <1>1, <1>2, <1>5 DEF UInv, Followed, Current
<1> QED
  BY <1>3, <1>4, <1>6, <1>7

LEMMA InheritReports == UInv /\ inherit_base_types => UInv'
<1> SUFFICES ASSUME UInv, inherit_base_types PROVE UInv'
  OBVIOUS
<1>1. /\ Inv /\ IInv' /\ phase = "inherit" /\ phase' = "normalize"
      /\ UNCHANGED <<world, symbol, parent, cyclic, unresolved>>
      /\ types' = [t \in Type |-> [types[t] EXCEPT !.base = BaseFromChain(t)]]
  BY InheritingCircles DEF UInv, IInv, inherit_base_types
<1>2. Type' = Type
  <2>1. types' \in Seq(TypeData) /\ DOMAIN types' = Type
    BY <1>1 DEF IInv, Inv, TypeOK
  <2> QED
    BY <2>1, LenProperties DEF Type
<1>3. \A u \in Type : /\ types'[u].name = types[u].name /\ types'[u].ref = types[u].ref
                      /\ types'[u].base = BaseFromChain(u)
  <2>1. \A u \in Type : types[u] \in TypeData
    BY <1>1, ArenaType
  <2> QED
    BY <1>1, <2>1 DEF TypeData
<1>4. Origin' /\ Upwards' /\ CyclesTold' /\ Followed'
  BY <1>1, <1>2, <1>3, InheritingKeeps DEF After
<1>5. \A t, k : Ancestor(t, k)' = Ancestor(t, k)
  BY <1>1 DEF Ancestor
<1>6. ASSUME NEW t \in Type, NEW k \in 0 .. DepthLimit - 1, types'[t].base = "Unknown",
             Ancestor(t, k) # 0, parent[Ancestor(t, k)] = 0
      PROVE  types'[Ancestor(t, k)].base = "Unknown"
  <2>1. Ancestor(t, k) \in Type
    <3>1. parent \in [Type -> 0 .. Len(types)] /\ Len(types) \in Nat /\ k \in Nat
      BY <1>1, ArenaType, TypeGraphAssumption DEF Inv, TypeOK
    <3> QED
      BY <1>6, <3>1, AncestorType DEF Type
  <2>2. types[Ancestor(t, k)].base = "Unknown"
    BY <1>1, <1>3, <1>6, <2>1, UnknownAllTheWay
  <2> QED
    BY <1>3, <1>6, <2>1, <2>2, EndKeepsBase
<1>7. EndsUnknown'
  BY <1>1, <1>2, <1>5, <1>6 DEF EndsUnknown
<1> QED
  BY <1>1, <1>4, <1>7 DEF UInv

\* Once bases are inherited they stay.
LEMMA BasesStay ==
  ASSUME UInv, phase \in Inheriting, UNCHANGED parent, Type' = Type,
         \A u \in Type : types'[u].base = types[u].base
  PROVE  EndsUnknown'
<1>1. \A t, k : Ancestor(t, k)' = Ancestor(t, k)
  BY DEF Ancestor
<1>2. ASSUME NEW t \in Type, NEW k \in 0 .. DepthLimit - 1
      PROVE  Ancestor(t, k) # 0 => Ancestor(t, k) \in Type
  <2>1. parent \in [Type -> 0 .. Len(types)] /\ Len(types) \in Nat /\ k \in Nat
    BY ArenaType, TypeGraphAssumption DEF UInv, IInv, Inv, TypeOK
  <2> QED
    BY <2>1, AncestorType DEF Type
<1> QED
  BY <1>1, <1>2 DEF UInv, EndsUnknown

LEMMA NormalizeReports == UInv /\ normalize_named_values_for_base => UInv'
<1> SUFFICES ASSUME UInv, normalize_named_values_for_base PROVE UInv'
  OBVIOUS
<1>1. /\ Inv /\ IInv' /\ phase = "normalize" /\ phase' = "effective"
      /\ UNCHANGED <<world, symbol, parent, cyclic, unresolved>>
      /\ types' = [t \in Type |-> Normalized(types[t])]
  BY InheritingCircles DEF UInv, IInv, normalize_named_values_for_base
<1>2. Type' = Type
  <2>1. types' \in Seq(TypeData) /\ DOMAIN types' = Type
    BY <1>1 DEF IInv, Inv, TypeOK
  <2> QED
    BY <2>1, LenProperties DEF Type
<1>3. \A u \in Type : /\ types'[u].name = types[u].name /\ types'[u].ref = types[u].ref
                      /\ types'[u].base = types[u].base
  <2>1. \A u \in Type : types[u] \in TypeData
    BY <1>1, ArenaType
  <2> QED
    BY <1>1, <2>1 DEF TypeData, Normalized
<1>4. Origin' /\ Upwards' /\ CyclesTold' /\ Followed'
  BY <1>1, <1>2, <1>3, InheritingKeeps DEF After
<1>5. EndsUnknown'
  BY <1>1, <1>2, <1>3, BasesStay DEF Inheriting
<1> QED
  BY <1>1, <1>4, <1>5 DEF UInv

LEMMA ConstraintsReports == UInv /\ compute_effective_constraints => UInv'
<1> SUFFICES ASSUME UInv, compute_effective_constraints PROVE UInv'
  OBVIOUS
<1>1. /\ IInv' /\ phase = "effective" /\ phase' \in {"effective", "done"}
      /\ UNCHANGED <<world, types, symbol, parent, cyclic, unresolved>>
  BY InheritingCircles DEF UInv, compute_effective_constraints
<1>2. Type' = Type
  BY <1>1 DEF Type
<1>3. Origin' /\ Upwards' /\ CyclesTold' /\ Followed'
  BY <1>1, <1>2, InheritingKeeps DEF After
<1>4. EndsUnknown'
  BY <1>1, <1>2, BasesStay DEF Inheriting
<1> QED
  BY <1>1, <1>3, <1>4 DEF UInv

LEMMA ReportsStep == UInv /\ [Next]_vars => UInv'
<1>1. ASSUME UInv, UNCHANGED vars PROVE UInv'
  <2>1. UNCHANGED <<world, phase, next, types, symbol, parent, cyclic, unresolved, used,
                    effective, stack>>
    BY <1>1 DEF vars
  <2>2. IInv'
    BY <1>1, CirclesStep DEF UInv
  <2>3. Type' = Type /\ Current' = Current /\ Referring' = Referring
        /\ \A t, k : Ancestor(t, k)' = Ancestor(t, k)
    BY <2>1 DEF Type, Current, Referring, Ancestor
  <2>4. Origin' /\ Upwards' /\ CyclesTold' /\ Followed' /\ EndsUnknown'
    BY <1>1, <2>1, <2>3 DEF UInv, Origin, Upwards, CyclesTold, Followed, EndsUnknown, Told
  <2> QED
    BY <2>2, <2>4 DEF UInv
<1> QED
  BY <1>1, SeedReports, CreateReports, AllCreatedReports, FindCyclesReports,
     ResolveParentsReports, PrimitivesReports, LinksReports, InheritReports,
     NormalizeReports, ConstraintsReports DEF Next

\* The end of a chain that starts at a name is told, or its syntax names no type.
LEMMA UnknownIsTold ==
  ASSUME UInv
  PROVE  UnknownIsReported
<1> SUFFICES ASSUME phase = "done", NEW m \in Module, NEW n \in Name,
                    NEW t, t = symbol[m][n], t # 0, types[t].base = "Unknown", Ends(t)
             PROVE  \E u \in Type : /\ ChainMeets(t, u)
                                    /\ \/ Told(u)
                                       \/ types[u].ref = NoName /\ types[u].base = "Unknown"
  BY DEF UnknownIsReported, Told
<1>1. parent \in [Type -> 0 .. Len(types)] /\ Len(types) \in Nat /\ t \in Type
  BY ArenaType DEF UInv, IInv, Inv, TypeOK, Type
<1>2. PICK k \in 0 .. DepthLimit - 1 : Ancestor(t, k) # 0 /\ parent[Ancestor(t, k)] = 0
  BY DEF Ends
<1>3. k \in Nat
  BY TypeGraphAssumption
<1> DEFINE u == Ancestor(t, k)
<1>4. u \in Type /\ ChainMeets(t, u)
  <2>1. u \in 0 .. Len(types)
    BY <1>1, <1>3, AncestorType
  <2>2. ChainMeets(t, u)
    BY <1>1, <1>2, <1>3, AncestorMet
  <2> QED
    BY <1>1, <1>2, <2>1, <2>2 DEF Type
<1>5. types[u].base = "Unknown"
  BY <1>1, <1>2 DEF UInv, EndsUnknown, Inheriting
<1>6. u \in Current
  <2>1. CASE k = 0
    BY <1>1, <2>1, AncestorStep DEF Current
  <2>2. CASE k # 0
    <3>1. k - 1 \in Nat /\ (k - 1) + 1 = k
      BY <1>3, <2>2
    <3>2. u = Up(Ancestor(t, k - 1)) /\ Ancestor(t, k - 1) \in 0 .. Len(types)
      <4>1. PICK j \in Nat : j = k - 1 /\ k = j + 1
        BY <3>1
      <4>2. Ancestor(t, j + 1) = Up(Ancestor(t, j))
        BY <1>1, <4>1, AncestorStep
      <4>3. Ancestor(t, j) \in 0 .. Len(types)
        BY <1>1, <4>1, AncestorType
      <4> QED
        BY <4>1, <4>2, <4>3
    <3>3. Ancestor(t, k - 1) \in Type /\ u = parent[Ancestor(t, k - 1)]
      BY <1>2, <1>1, <3>2 DEF Up, Type
    <3> QED
      BY <1>2, <3>3 DEF UInv, Upwards
  <2> QED
    BY <2>1, <2>2
<1>7. types[u].ref # NoName => Told(u)
  BY <1>2, <1>6 DEF UInv, Followed, After
<1> QED
  BY <1>4, <1>5, <1>7

\* For any modules, definitions and imports: a type whose base stays unknown owes it to
\* a reference that was reported or to a syntax that names nothing and has no base,
\* unless its chain of parents has no end within the limit.
THEOREM UnknownIsReportedHolds == Spec => []UnknownIsReported
<1>1. Spec => []UInv
  BY ReportsInit, ReportsStep, PTL DEF Spec
<1> QED
  BY <1>1, UnknownIsTold, PTL

------------------------------------------------------------------------------
(* The constraint algebra computes intersections.                            *)
(*                                                                           *)
(* Against one alternative of the parent that has numbers at both ends, an   *)
(* alternative of the child has numbers at both ends too: its meet with the  *)
(* parent's holds the numbers that lie within both.                          *)

LEMMA NumLess ==
  ASSUME NEW i \in Int, NEW j \in Int
  PROVE  /\ Less(Num(i), Num(j)) <=> i < j
         /\ Num(i) = Num(j) <=> i = j
         /\ Less(MIN, Num(i)) /\ Less(Num(i), MAX)
         /\ ~ Less(MAX, Num(i)) /\ ~ Less(Num(i), MIN)
         /\ Num(i) \notin {MIN, MAX, Raw}
         /\ Num(i).k = "Num" /\ Num(i).n = i
<1>1. /\ Num(i).k = "Num" /\ Num(i).n = i /\ Num(j).k = "Num" /\ Num(j).n = j
      /\ MIN.k = "MIN" /\ MAX.k = "MAX" /\ Raw.k = "Raw"
  BY DEF Num, MIN, MAX, Raw
<1>2. Num(i) = Num(j) <=> i = j
  BY <1>1
<1>3. Num(i) # MIN /\ Num(i) # MAX /\ Num(i) # Raw
  BY <1>1
<1> HIDE DEF Num, MIN, MAX, Raw
<1> QED
  BY <1>1, <1>2, <1>3 DEF Less, Comparable

\* A bound with a number is that number.
LEMMA BoundIsNum ==
  ASSUME NEW b \in Bound, b.k = "Num"
  PROVE  b.n \in Int /\ b = Num(b.n)
<1>1. MIN.k = "MIN" /\ MAX.k = "MAX" /\ Raw.k = "Raw"
  BY DEF MIN, MAX, Raw
<1>2. b \in [k : {"Num"}, n : Int]
  BY <1>1 DEF Bound
<1> QED
  BY <1>2 DEF Num

LEMMA BoundKinds ==
  ASSUME NEW b \in Bound, b # Raw
  PROVE  b = MIN \/ b = MAX \/ (b.k = "Num" /\ b.n \in Int /\ b = Num(b.n))
<1>1. CASE b \in {MIN, MAX}
  BY <1>1
<1>2. CASE b \notin {MIN, MAX}
  <2>1. b.k = "Num"
    BY <1>2 DEF Bound
  <2> QED
    BY <2>1, BoundIsNum
<1> QED
  BY <1>1, <1>2

LEMMA NumericContains ==
  ASSUME NEW i \in Int, NEW j \in Int, NEW v \in Int,
         NEW r, r = [min |-> Num(i), max |-> Num(j)]
  PROVE  Contains(r, v) <=> i <= v /\ v <= j
<1>1. r.min = Num(i) /\ r.max = Num(j)
  OBVIOUS
<1>2. Num(i) = Num(v) \/ Less(Num(i), Num(v)) <=> i <= v
  BY NumLess
<1>3. Num(j) = Num(v) \/ Less(Num(v), Num(j)) <=> v <= j
  BY NumLess
<1> QED
  BY <1>1, <1>2, <1>3 DEF Contains

\* The greater and the lesser of two numbers.
LEMMA NumExtremes ==
  ASSUME NEW i \in Int, NEW j \in Int
  PROVE  /\ Greatest(Num(i), Num(j)) = Num(IF i < j THEN j ELSE i)
         /\ Least(Num(i), Num(j)) = Num(IF j < i THEN j ELSE i)
<1>1. Comparable(Num(i), Num(j))
  BY NumLess DEF Comparable
<1>2. (Less(Num(i), Num(j)) <=> i < j) /\ (Less(Num(j), Num(i)) <=> j < i)
  BY NumLess
<1> HIDE DEF Num
<1> QED
  BY <1>1, <1>2 DEF Greatest, Least

\* The number that the lower, or the upper, end of the child's range c comes to within
\* the numbers from a to b.
LowerEnd(c, a, b) == IF c.min = MIN THEN a ELSE IF c.min = MAX THEN b ELSE c.min.n
UpperEnd(c, a, b) == IF c.max = MAX THEN b ELSE IF c.max = MIN THEN a ELSE c.max.n

LEMMA EndsAreNumbers ==
  ASSUME NEW a \in Int, NEW b \in Int, NEW p, p = [min |-> Num(a), max |-> Num(b)],
         NEW c \in Interval, c.min # Raw, c.max # Raw
  PROVE  /\ LowerEnd(c, a, b) \in Int /\ Lower(c, p) = Num(LowerEnd(c, a, b))
         /\ UpperEnd(c, a, b) \in Int /\ Upper(c, p) = Num(UpperEnd(c, a, b))
<1>1. c.min \in Bound /\ c.max \in Bound /\ p.min = Num(a) /\ p.max = Num(b)
  BY DEF Interval
<1>2. LowerEnd(c, a, b) \in Int /\ Lower(c, p) = Num(LowerEnd(c, a, b))
  <2>1. c.min = MIN \/ c.min = MAX
          \/ (c.min \notin {MIN, MAX} /\ c.min.n \in Int /\ c.min = Num(c.min.n))
    BY <1>1, BoundKinds, NumLess
  <2> QED
    BY <1>1, <2>1 DEF Lower, LowerEnd
<1>3. UpperEnd(c, a, b) \in Int /\ Upper(c, p) = Num(UpperEnd(c, a, b))
  <2>1. c.max = MIN \/ c.max = MAX
          \/ (c.max \notin {MIN, MAX} /\ c.max.n \in Int /\ c.max = Num(c.max.n))
    BY <1>1, BoundKinds, NumLess
  <2>2. c.max = MAX => Upper(c, p) = Num(b) /\ UpperEnd(c, a, b) = b
    BY <1>1 DEF Upper, UpperEnd
  <2>3. c.max = MIN /\ c.max # MAX => Upper(c, p) = Num(a) /\ UpperEnd(c, a, b) = a
    BY <1>1 DEF Upper, UpperEnd
  <2>4. c.max \notin {MIN, MAX} => Upper(c, p) = c.max /\ UpperEnd(c, a, b) = c.max.n
    BY DEF Upper, UpperEnd
  <2> QED
    BY <2>1, <2>2, <2>3, <2>4
<1> QED
  BY <1>2, <1>3

\* The meet of two ranges holds what lies within both, and holds nothing only when it
\* can be seen that it does.
LEMMA MeetHolds ==
  ASSUME NEW a \in Int, NEW b \in Int, NEW p, p = [min |-> Num(a), max |-> Num(b)],
         NEW c \in Interval, c.min # Raw, c.max # Raw, NEW v \in Int
  PROVE  /\ Contains(Meet(c, p), v) <=>
              /\ a <= v /\ v <= b
              /\ LowerEnd(c, a, b) <= v /\ v <= UpperEnd(c, a, b)
         /\ Contains(Meet(c, p), v) => ~ ProvablyEmpty(c, p)
<1> DEFINE l == LowerEnd(c, a, b)
           u == UpperEnd(c, a, b)
           lo == IF l < a THEN a ELSE l
           hi == IF b < u THEN b ELSE u
<1>1. l \in Int /\ u \in Int /\ Lower(c, p) = Num(l) /\ Upper(c, p) = Num(u)
      /\ p.min = Num(a) /\ p.max = Num(b)
  BY EndsAreNumbers
<1> HIDE DEF l, u
<1>2. lo \in Int /\ hi \in Int /\ Meet(c, p) = [min |-> Num(lo), max |-> Num(hi)]
  BY <1>1, NumExtremes DEF Meet
<1>3. Contains(Meet(c, p), v) <=> lo <= v /\ v <= hi
  <2> HIDE DEF lo, hi
  <2> QED
    BY <1>2, NumericContains
<1>4. (lo <= v /\ v <= hi) <=> (a <= v /\ v <= b /\ l <= v /\ v <= u)
  BY <1>1
<1>5. ASSUME a <= v, v <= b, l <= v, v <= u PROVE ~ ProvablyEmpty(c, p)
  <2>1. \A x \in {a, l}, y \in {b, u} : ~ Less(Num(y), Num(x))
    BY <1>1, <1>5, NumLess
  <2> QED
    BY <1>1, <2>1 DEF ProvablyEmpty
<1> QED
  BY <1>3, <1>4, <1>5 DEF l, u

\* A range with numbers at both ends.
LEMMA NumericRange ==
  ASSUME NEW p \in Interval, p.min.k = "Num", p.max.k = "Num"
  PROVE  p.min.n \in Int /\ p.max.n \in Int /\ p = [min |-> Num(p.min.n), max |-> Num(p.max.n)]
<1>1. p.min \in Bound /\ p.max \in Bound /\ p = [min |-> p.min, max |-> p.max]
  BY DEF Interval
<1> QED
  BY <1>1, BoundIsNum

\* What the ends of a declared range say of a number.
LEMMA EndsSay ==
  ASSUME NEW c \in Interval, c.min # Raw, c.max # Raw, NEW v \in Int
  PROVE  /\ (c.min = Num(v) \/ Less(c.min, Num(v)))
              <=> (c.min = MIN \/ (c.min \notin {MIN, MAX} /\ c.min.n <= v))
         /\ (c.max = Num(v) \/ Less(Num(v), c.max))
              <=> (c.max = MAX \/ (c.max \notin {MIN, MAX} /\ v <= c.max.n))
         /\ c.min \notin {MIN, MAX} => c.min.n \in Int
         /\ c.max \notin {MIN, MAX} => c.max.n \in Int
<1>1. c.min \in Bound /\ c.max \in Bound /\ MIN # MAX
  BY DEF Interval, MIN, MAX
<1>2. \A b \in Bound : b \notin {MIN, MAX, Raw} => b.n \in Int /\ b = Num(b.n)
  BY BoundKinds
<1>3. \A b \in Bound \ {Raw} :
         /\ (b = Num(v) \/ Less(b, Num(v))) <=> (b = MIN \/ (b \notin {MIN, MAX} /\ b.n <= v))
         /\ (b = Num(v) \/ Less(Num(v), b)) <=> (b = MAX \/ (b \notin {MIN, MAX} /\ v <= b.n))
  <2>1. TAKE b \in Bound \ {Raw}
  <2>2. CASE b = MIN
    BY <1>1, <2>2, NumLess
  <2>3. CASE b = MAX
    BY <1>1, <2>3, NumLess
  <2>4. CASE b \notin {MIN, MAX}
    <3>1. PICK i \in Int : b = Num(i) /\ b.n = i
      BY <1>2, <2>1, <2>4
    <3>2. (b = Num(v) \/ Less(b, Num(v))) <=> i <= v
      BY <3>1, NumLess
    <3>3. (b = Num(v) \/ Less(Num(v), b)) <=> v <= i
      BY <3>1, NumLess
    <3> QED
      BY <2>4, <3>1, <3>2, <3>3
  <2> QED
    BY <2>2, <2>3, <2>4
<1> QED
  BY <1>1, <1>2, <1>3

\* The numbers of V that the alternatives ps allow.
Held(ps, V) == {v \in V : Allows(ps, v)}

\* What is left of a child's range holds numbers of the parent that the range names.
LEMMA MeetIsNarrower ==
  ASSUME NEW V \in SUBSET Int, NEW own \in SUBSET Interval, Readable(own),
         NEW ps \in SUBSET Interval, Numeric(ps), NEW c \in own, NEW p \in ps,
         EndsWithin(c, p, ps), NEW v \in V, Contains(Meet(c, p), v)
  PROVE  v \in Narrowed(own, Held(ps, V))
<1> DEFINE a == p.min.n
           b == p.max.n
<1>1. a \in Int /\ b \in Int /\ p = [min |-> Num(a), max |-> Num(b)]
  BY NumericRange DEF Numeric
<1>2. c \in Interval /\ c.min # Raw /\ c.max # Raw /\ v \in Int
  BY DEF Readable
<1> HIDE DEF a, b
<1>3. a <= v /\ v <= b /\ LowerEnd(c, a, b) <= v /\ v <= UpperEnd(c, a, b)
  BY <1>1, <1>2, MeetHolds
<1>4. v \in Held(ps, V)
  <2>1. Contains(p, v)
    BY <1>1, <1>2, <1>3, NumericContains
  <2> QED
    BY <2>1 DEF Held, Allows
<1>5. ASSUME NEW x \in Held(ps, V)
      PROVE  \E q \in ps : /\ q.min.n \in Int /\ q.max.n \in Int /\ x \in Int
                           /\ q.min = Num(q.min.n) /\ q.max = Num(q.max.n)
                           /\ q.min.n <= x /\ x <= q.max.n
  <2>1. PICK q \in ps : Contains(q, x)
    BY DEF Held, Allows
  <2>2. q.min.n \in Int /\ q.max.n \in Int /\ q = [min |-> Num(q.min.n), max |-> Num(q.max.n)]
    BY NumericRange DEF Numeric
  <2>3. q.min = Num(q.min.n) /\ q.max = Num(q.max.n)
    BY <2>2
  <2>4. x \in Int
    BY DEF Held
  <2>5. q.min.n <= x /\ x <= q.max.n
    BY <2>1, <2>2, <2>4, NumericContains
  <2> QED
    BY <2>2, <2>3, <2>4, <2>5
<1>6. ASSUME c.min = MAX PROVE \A x \in Held(ps, V) : x <= v
  <2>1. v = b
    <3>1. LowerEnd(c, a, b) = b
      BY <1>6 DEF LowerEnd, MIN, MAX
    <3> QED
      BY <1>1, <1>2, <1>3, <3>1
  <2>2. MayHoldMax(ps, p)
    BY <1>6 DEF EndsWithin
  <2>3. TAKE x \in Held(ps, V)
  <2>4. PICK q \in ps : /\ q.max.n \in Int /\ x \in Int /\ q.max = Num(q.max.n)
                        /\ x <= q.max.n
    BY <1>5, <2>3
  <2>5. CASE q = p
    BY <2>1, <2>4, <2>5 DEF b
  <2>6. CASE q # p
    <3>1. ~ Less(p.max, q.max) /\ p.max = Num(b)
      BY <1>1, <2>2, <2>6 DEF MayHoldMax
    <3>2. ~ (b < q.max.n)
      BY <1>1, <2>4, <3>1, NumLess
    <3> QED
      BY <1>1, <2>1, <2>4, <3>2
  <2> QED
    BY <2>5, <2>6
<1>7. ASSUME c.max = MIN PROVE \A x \in Held(ps, V) : v <= x
  <2>1. v = a
    <3>1. UpperEnd(c, a, b) = a
      BY <1>7 DEF UpperEnd, MIN, MAX
    <3> QED
      BY <1>1, <1>2, <1>3, <3>1
  <2>2. MayHoldMin(ps, p)
    BY <1>7 DEF EndsWithin
  <2>3. TAKE x \in Held(ps, V)
  <2>4. PICK q \in ps : /\ q.min.n \in Int /\ x \in Int /\ q.min = Num(q.min.n)
                        /\ q.min.n <= x
    BY <1>5, <2>3
  <2>5. CASE q = p
    BY <2>1, <2>4, <2>5 DEF a
  <2>6. CASE q # p
    <3>1. ~ Less(q.min, p.min) /\ p.min = Num(a)
      BY <1>1, <2>2, <2>6 DEF MayHoldMin
    <3>2. ~ (q.min.n < a)
      BY <1>1, <2>4, <3>1, NumLess
    <3> QED
      BY <1>1, <2>1, <2>4, <3>2
  <2> QED
    BY <2>5, <2>6
<1>8. \/ c.min = Num(v) \/ Less(c.min, Num(v))
      \/ c.min = MAX
  BY <1>2, <1>3, EndsSay DEF LowerEnd
<1>9. \/ c.max = Num(v) \/ Less(Num(v), c.max)
      \/ c.max = MIN
  BY <1>2, <1>3, EndsSay DEF UpperEnd
<1> QED
  BY <1>4, <1>6, <1>7, <1>8, <1>9 DEF Narrowed

\* A number of the parent that a child's range names is in what is left of the range.
LEMMA NarrowerIsMet ==
  ASSUME NEW own \in SUBSET Interval, Readable(own),
         NEW ps \in SUBSET Interval, Numeric(ps), NamesExtreme(own) => Proper(ps),
         NEW v \in Narrowed(own, Held(ps, Numbers))
  PROVE  v \in Numbers /\ \E c \in own, p \in ps :
           EndsWithin(c, p, ps) /\ ~ ProvablyEmpty(c, p) /\ Contains(Meet(c, p), v)
<1> DEFINE P == Held(ps, Numbers)
<1>1. v \in P /\ v \in Numbers /\ Numbers \subseteq Int
  BY RangesAssumption DEF Narrowed, Held, Numbers
<1>2. PICK c \in own :
        /\ \/ c.min = Num(v) \/ Less(c.min, Num(v))
           \/ c.min = MAX /\ (\A o \in P : o <= v)
        /\ \/ c.max = Num(v) \/ Less(Num(v), c.max)
           \/ c.max = MIN /\ (\A o \in P : v <= o)
  BY DEF Narrowed
<1>3. PICK p \in ps : Contains(p, v)
  BY <1>1 DEF Held, Allows
<1> DEFINE a == p.min.n
           b == p.max.n
<1>4. a \in Int /\ b \in Int /\ p = [min |-> Num(a), max |-> Num(b)]
  BY NumericRange DEF Numeric
<1>5. c \in Interval /\ c.min # Raw /\ c.max # Raw /\ v \in Int
  BY <1>1 DEF Readable
<1>6. a <= v /\ v <= b
  BY <1>3, <1>4, <1>5, NumericContains
<1>7. ASSUME Proper(ps), NEW q \in ps
      PROVE  /\ q.min.n \in P /\ q.max.n \in P /\ q.min.n <= q.max.n
             /\ q.min.n \in Int /\ q.max.n \in Int
             /\ q.min = Num(q.min.n) /\ q.max = Num(q.max.n)
  <2>1. q.min.n \in Int /\ q.max.n \in Int /\ q = [min |-> Num(q.min.n), max |-> Num(q.max.n)]
    BY NumericRange DEF Numeric
  <2>2. IntMin <= q.min.n /\ q.min.n <= q.max.n /\ q.max.n <= UInt64Max
        /\ IntMin \in Int /\ UInt64Max \in Int
    BY <1>7, RangesAssumption DEF Proper
  <2>3. q.min.n \in Numbers /\ q.max.n \in Numbers
    BY <2>1, <2>2 DEF Numbers
  <2>4. Contains(q, q.min.n) /\ Contains(q, q.max.n)
    BY <2>1, <2>2, NumericContains
  <2>5. q.min = Num(q.min.n) /\ q.max = Num(q.max.n)
    BY <2>1
  <2> QED
    BY <2>1, <2>2, <2>3, <2>4, <2>5 DEF Held, Allows
<1> HIDE DEF P, a, b
<1>8. ASSUME c.min = MAX PROVE b <= v /\ MayHoldMax(ps, p)
  <2>1. Proper(ps)
    BY <1>8 DEF NamesExtreme
  <2>2. \A o \in P : o <= v
    BY <1>2, <1>5, <1>8, NumLess
  <2>3. b <= v
    BY <1>7, <2>1, <2>2 DEF b
  <2>4. ASSUME NEW q \in ps PROVE ~ Less(p.max, q.max) /\ ~ Less(p.max, q.min)
    <3>1. q.max.n <= v /\ q.min.n <= q.max.n /\ q.min.n \in Int /\ q.max.n \in Int
          /\ q.min = Num(q.min.n) /\ q.max = Num(q.max.n) /\ p.max = Num(b)
      BY <1>4, <1>7, <2>1, <2>2
    <3>2. ~ (b < q.max.n) /\ ~ (b < q.min.n)
      BY <1>4, <1>5, <1>6, <3>1
    <3> QED
      BY <1>4, <3>1, <3>2, NumLess
  <2> QED
    BY <2>3, <2>4 DEF MayHoldMax
<1>9. ASSUME c.max = MIN PROVE v <= a /\ MayHoldMin(ps, p)
  <2>1. Proper(ps)
    BY <1>9 DEF NamesExtreme
  <2>2. \A o \in P : v <= o
    BY <1>2, <1>5, <1>9, NumLess
  <2>3. v <= a
    BY <1>7, <2>1, <2>2 DEF a
  <2>4. ASSUME NEW q \in ps PROVE ~ Less(q.min, p.min) /\ ~ Less(q.max, p.min)
    <3>1. v <= q.min.n /\ q.min.n <= q.max.n /\ q.min.n \in Int /\ q.max.n \in Int
          /\ q.min = Num(q.min.n) /\ q.max = Num(q.max.n) /\ p.min = Num(a)
      BY <1>4, <1>7, <2>1, <2>2
    <3>2. ~ (q.min.n < a) /\ ~ (q.max.n < a)
      BY <1>4, <1>5, <1>6, <3>1
    <3> QED
      BY <1>4, <3>1, <3>2, NumLess
  <2> QED
    BY <2>3, <2>4 DEF MayHoldMin
<1>10. LowerEnd(c, a, b) <= v
  BY <1>2, <1>4, <1>5, <1>6, <1>8, EndsSay DEF LowerEnd
<1>11. v <= UpperEnd(c, a, b)
  BY <1>2, <1>4, <1>5, <1>6, <1>9, EndsSay DEF UpperEnd
<1>12. Contains(Meet(c, p), v) /\ ~ ProvablyEmpty(c, p)
  BY <1>4, <1>5, <1>6, <1>10, <1>11, MeetHolds
<1>13. EndsWithin(c, p, ps)
  BY <1>8, <1>9 DEF EndsWithin
<1> QED
  BY <1>1, <1>12, <1>13

\* What a declaration leaves of a constraint is its intersection with it.
LEMMA EffectiveIntersects ==
  ASSUME NEW own \in SUBSET Interval, own # {}, NEW up \in Constraint,
         NEW here, here = Effective(own, up)
  PROVE  /\ here.present
         /\ (up.present /\ Readable(own) /\ Numeric(up.values)) =>
              /\ Allowed(here, Numbers) \subseteq Narrowed(own, Allowed(up, Numbers))
              /\ (NamesExtreme(own) => Proper(up.values)) =>
                   Narrowed(own, Allowed(up, Numbers)) \subseteq Allowed(here, Numbers)
<1>1. here.present
  BY DEF Effective, Constrained
<1> SUFFICES ASSUME up.present, Readable(own), Numeric(up.values)
             PROVE  /\ Allowed(here, Numbers) \subseteq Narrowed(own, Allowed(up, Numbers))
                    /\ (NamesExtreme(own) => Proper(up.values)) =>
                         Narrowed(own, Allowed(up, Numbers)) \subseteq Allowed(here, Numbers)
  BY <1>1
<1> DEFINE ps == up.values
<1>2. ps \in SUBSET Interval /\ Numbers \in SUBSET Int
  BY RangesAssumption DEF Constraint, Numbers
<1>3. Allowed(up, Numbers) = Held(ps, Numbers) /\ Allowed(here, Numbers) = Held(here.values, Numbers)
  BY <1>1 DEF Allowed, Held
<1>4. CASE ps = {}
  <2>1. here.values = {}
    BY <1>4 DEF Effective, Constrained
  <2>2. Held(here.values, Numbers) = {} /\ Held(ps, Numbers) = {}
    BY <1>4, <2>1 DEF Held, Allows
  <2>3. Narrowed(own, {}) = {}
    BY DEF Narrowed
  <2> QED
    BY <1>3, <2>2, <2>3
<1>5. CASE ps # {}
  <2>1. here.values = Intersect(own, ps)
    BY <1>5 DEF Effective, Constrained
  <2>2. Intersect(own, ps) = {Meet(cp[1], cp[2]) :
          cp \in {q \in own \X ps : EndsWithin(q[1], q[2], ps) /\ ~ ProvablyEmpty(q[1], q[2])}}
    BY <1>5 DEF Intersect
  <2> HIDE DEF ps
  <2>3. ASSUME NEW v \in Held(here.values, Numbers)
        PROVE  v \in Narrowed(own, Held(ps, Numbers))
    <3>1. PICK m \in Intersect(own, ps) : Contains(m, v) /\ v \in Numbers
      BY <2>1 DEF Held, Allows
    <3>2. PICK c \in own, p \in ps : EndsWithin(c, p, ps) /\ m = Meet(c, p)
      BY <2>2, <3>1
    <3> QED
      BY <1>2, <3>1, <3>2, MeetIsNarrower DEF ps
  <2>4. ASSUME NamesExtreme(own) => Proper(ps), NEW v \in Narrowed(own, Held(ps, Numbers))
        PROVE  v \in Held(here.values, Numbers)
    <3>1. /\ v \in Numbers
          /\ \E c \in own, p \in ps :
               EndsWithin(c, p, ps) /\ ~ ProvablyEmpty(c, p) /\ Contains(Meet(c, p), v)
      BY <1>2, <2>4, NarrowerIsMet DEF ps
    <3>2. PICK c \in own, p \in ps :
            EndsWithin(c, p, ps) /\ ~ ProvablyEmpty(c, p) /\ Contains(Meet(c, p), v)
      BY <3>1
    <3>3. Meet(c, p) \in here.values
      <4>1. <<c, p>> \in {q \in own \X ps : EndsWithin(q[1], q[2], ps)
                                            /\ ~ ProvablyEmpty(q[1], q[2])}
        BY <3>2
      <4>2. Meet(<<c, p>>[1], <<c, p>>[2]) \in Intersect(own, ps)
        BY <2>2, <4>1
      <4> QED
        BY <2>1, <4>2
    <3> QED
      BY <3>1, <3>2, <3>3 DEF Held, Allows
  <2> QED
    BY <1>3, <2>3, <2>4 DEF ps
<1> QED
  BY <1>4, <1>5

------------------------------------------------------------------------------
(* The effective constraints are computed from the parents'.                 *)
(*                                                                           *)
(* The calls under way are a chain of parents.  When every chain has its end *)
(* within the limit, the calls never reach the limit, and a constraint that  *)
(* is remembered is the one its parent's gives.                              *)

Calls == \A i \in 1 .. Len(stack) - 1 : parent[stack[i + 1]] = stack[i]

AllEnd == \A t \in Type : Ends(t)

\* The constraints of t are what its parent's leave.
FromParent(t) ==
  \/ parent[t] = 0 /\ effective[t] = Resolved(t, NoConstraints)
  \/ parent[t] # 0 /\ effective[parent[t]] # Pending
     /\ effective[t] = Resolved(t, effective[parent[t]])

Computing == {"effective", "done"}

EInv ==
  /\ Inv /\ Calls
  /\ phase \notin Computing => stack = <<>> /\ \A t \in Type : effective[t] = Pending
  /\ phase \in Computing /\ AllEnd => \A t \in Type : effective[t] # Pending => FromParent(t)
  /\ phase = "done" => \A t \in Type : effective[t] # Pending

\* A chain is over once it has ended.
LEMMA ChainOver ==
  ASSUME NEW t, NEW k \in Nat, Ancestor(t, k) = 0, NEW j \in Nat, k <= j
  PROVE  Ancestor(t, j) = 0
<1> DEFINE S == {n \in Nat : Ancestor(t, k + n) = 0}
<1>1. 0 \in S
  OBVIOUS
<1>2. ASSUME NEW n \in Nat, n \in S PROVE n + 1 \in S
  <2>1. k + n \in Nat /\ k + (n + 1) = (k + n) + 1
    OBVIOUS
  <2>2. Ancestor(t, (k + n) + 1) = Up(Ancestor(t, k + n))
    BY <2>1, AncestorStep
  <2> QED
    BY <1>2, <2>1, <2>2 DEF Up
<1> HIDE DEF S
<1>3. j - k \in S
  BY <1>1, <1>2, Induction
<1>4. Ancestor(t, k + (j - k)) = 0
  BY <1>3 DEF S
<1>5. k + (j - k) = j
  OBVIOUS
<1> QED
  BY <1>4, <1>5

\* The calls are as many types of one chain.
LEMMA CallsWithinLimit ==
  ASSUME Inv, Calls, AllEnd, stack # <<>>
  PROVE  Len(stack) <= DepthLimit
<1>1. stack \in Seq(Type) /\ Len(stack) \in Nat /\ Len(stack) # 0
      /\ \A i \in 1 .. Len(stack) : stack[i] \in Type
  BY LenProperties, ElementOfSeq, EmptySeq DEF Inv, TypeOK
<1> DEFINE n == Len(stack)
           s == stack[n]
           S == {j \in Nat : j < n => Ancestor(s, j) = stack[n - j]}
<1>2. 0 \in S
  BY <1>1, AncestorStep
<1>3. ASSUME NEW j \in Nat, j \in S PROVE j + 1 \in S
  <2> SUFFICES ASSUME j + 1 < n PROVE Ancestor(s, j + 1) = stack[n - (j + 1)]
    OBVIOUS
  <2>1. Ancestor(s, j) = stack[n - j] /\ Ancestor(s, j + 1) = Up(Ancestor(s, j))
    BY <1>1, <1>3, AncestorStep
  <2>2. PICK i \in 1 .. n - 1 : i = n - (j + 1) /\ i + 1 = n - j /\ i + 1 \in 1 .. n
    <3>1. /\ n - (j + 1) \in 1 .. n - 1 /\ (n - (j + 1)) + 1 = n - j
          /\ (n - (j + 1)) + 1 \in 1 .. n
      BY <1>1
    <3> QED
      BY <3>1
  <2>3. parent[stack[i + 1]] = stack[i]
    BY <2>2 DEF Calls
  <2>4. stack[i + 1] # 0
    BY <1>1, <2>2 DEF Type
  <2> QED
    BY <2>1, <2>2, <2>3, <2>4 DEF Up
<1> HIDE DEF S
<1>4. n - 1 \in S /\ n - 1 \in Nat
  BY <1>1, <1>2, <1>3, Induction
<1>5. Ancestor(s, n - 1) = stack[1] /\ stack[1] # 0
  <2>1. n - 1 < n /\ n - (n - 1) = 1 /\ 1 \in 1 .. n
    BY <1>1
  <2> QED
    BY <1>1, <1>4, <2>1 DEF S, Type
<1>6. PICK k \in 0 .. DepthLimit - 1 : Ancestor(s, k) # 0 /\ parent[Ancestor(s, k)] = 0
  BY <1>1 DEF AllEnd, Ends
<1>7. k \in Nat /\ k + 1 \in Nat /\ DepthLimit \in Nat /\ k + 1 <= DepthLimit
  BY TypeGraphAssumption
<1>8. Ancestor(s, k + 1) = 0
  BY <1>6, <1>7, AncestorStep DEF Up
<1>9. ~ (k + 1 <= n - 1)
  BY <1>4, <1>5, <1>7, <1>8, ChainOver
<1> QED
  BY <1>1, <1>7, <1>9

LEMMA ConstraintsInit == Init => EInv
<1> SUFFICES ASSUME Init PROVE EInv
  OBVIOUS
<1>1. stack = <<>> /\ phase = "seed" /\ Type = {}
  BY EmptySeq DEF Init, Type
<1>2. Len(stack) = 0
  BY <1>1, EmptySeq
<1> QED
  BY <1>1, <1>2, TypeInit DEF EInv, Calls, Computing

\* Until constraints are computed there are none.
LEMMA NotYetComputed ==
  ASSUME Inv', phase' \notin Computing, stack' = <<>>, \A t \in Type' : effective'[t] = Pending
  PROVE  EInv'
<1>1. Len(stack') = 0
  BY EmptySeq
<1> QED
  BY <1>1 DEF EInv, Calls, Computing

LEMMA EarlyConstraints ==
  ASSUME EInv, seed_primitive_types \/ create_user_types
  PROVE  EInv'
<1>1. Inv /\ Inv' /\ phase' \notin Computing /\ phase \notin Computing /\ stack' = <<>>
  BY SeedType, CreateType DEF EInv, Inv, Early, seed_primitive_types, create_user_types,
     Computing
<1>2. \A t \in Type' : effective'[t] = Pending
  <2>1. CASE UNCHANGED <<types, effective>>
    BY <1>1, <2>1 DEF EInv, Type
  <2>2. CASE seed_primitive_types /\ SMI \in world.loaded
    <3>1. effective' = [i \in 1 .. 4 |-> Pending]
      BY <2>2, PrimitiveType DEF seed_primitive_types
    <3>2. DOMAIN effective' = Type'
      BY <1>1 DEF Inv, TypeOK
    <3> QED
      BY <3>1, <3>2
  <2>3. CASE create_user_types /\ ~ world.defs[next].sequence
    <3>1. effective' = Append(effective, Pending)
      BY <2>3 DEF create_user_types, AddType
    <3> DEFINE C == {Pending} \cup [sizes : Constraint, ranges : Constraint]
    <3>2. effective \in [1 .. Len(types) -> C] /\ Len(types) \in Nat
      BY <1>1, ArenaType DEF Inv, TypeOK, Type
    <3> HIDE DEF C
    <3>3. effective \in Seq(C) /\ Len(effective) = Len(types)
      BY <3>2, FunctionIsSeq
    <3>4. Pending \in C
      BY DEF C
    <3>5. \A i \in 1 .. Len(effective) + 1 :
            effective'[i] = IF i = Len(effective) + 1 THEN Pending ELSE effective[i]
      BY <3>1, <3>3, <3>4, AppendProperties
    <3>6. DOMAIN effective' = Type'
      BY <1>1 DEF Inv, TypeOK
    <3>7. DOMAIN effective' = 1 .. Len(effective) + 1
      BY <3>1, <3>3, <3>4, AppendProperties, LenProperties
    <3>8. \A t \in Type : effective[t] = Pending
      BY <1>1 DEF EInv
    <3> QED
      BY <3>2, <3>3, <3>5, <3>6, <3>7, <3>8 DEF Type
  <2> QED
    BY <2>1, <2>2, <2>3 DEF seed_primitive_types, create_user_types
<1> QED
  BY <1>1, <1>2, NotYetComputed

LEMMA MiddleConstraints ==
  ASSUME EInv,
         \/ AllCreated \/ FindCycles \/ ResolveParents \/ link_primitive_syntax_parents
         \/ link_rfc1213_types_to_tcs \/ inherit_base_types
  PROVE  EInv'
<1>1. /\ Inv /\ Inv' /\ phase' \notin Computing /\ phase \notin Computing
      /\ UNCHANGED <<effective, stack>>
  BY AllCreatedType, FindCyclesType, ResolveParentsType, PrimitivesType, LinksType, InheritType
     DEF EInv, AllCreated, FindCycles, ResolveParents, link_primitive_syntax_parents,
         link_rfc1213_types_to_tcs, inherit_base_types, Computing
<1>2. Type' = Type
  BY <1>1 DEF Inv, TypeOK
<1> QED
  BY <1>1, <1>2, NotYetComputed DEF EInv

LEMMA NormalizeConstraints == EInv /\ normalize_named_values_for_base => EInv'
<1> SUFFICES ASSUME EInv, normalize_named_values_for_base PROVE EInv'
  OBVIOUS
<1>1. /\ Inv /\ Inv' /\ phase' = "effective" /\ phase \notin Computing
      /\ UNCHANGED <<effective, stack>>
  BY NormalizeType DEF EInv, normalize_named_values_for_base, Computing
<1>2. Type' = Type
  BY <1>1 DEF Inv, TypeOK
<1>3. stack' = <<>> /\ \A t \in Type' : effective'[t] = Pending
  BY <1>1, <1>2 DEF EInv
<1>4. Len(stack') = 0
  BY <1>3, EmptySeq
<1> QED
  BY <1>1, <1>3, <1>4 DEF EInv, Calls

\* A constraint that is computed from a known one, or from none, leaves what was
\* remembered as it was.
LEMMA SettlingKeeps ==
  ASSUME Inv, \A u \in Type : effective[u] # Pending => FromParent(u),
         UNCHANGED <<types, parent>>, NEW t \in Type,
         \/ parent[t] = 0 /\ effective' = [effective EXCEPT ![t] = Resolved(t, NoConstraints)]
         \/ /\ parent[t] # 0 /\ effective[parent[t]] # Pending
            /\ effective' = [effective EXCEPT ![t] = Resolved(t, effective[parent[t]])]
  PROVE  \A u \in Type : effective'[u] # Pending => FromParent(u)'
<1>1. effective \in [Type -> {Pending} \cup [sizes : Constraint, ranges : Constraint]]
      /\ parent \in [Type -> 0 .. Len(types)]
  BY DEF Inv, TypeOK
<1>2. \A u \in Type : parent[u] # 0 => parent[u] \in Type
  BY <1>1, ArenaType DEF Type
<1>3. \A u \in Type \ {t} : effective'[u] = effective[u]
  BY <1>1
<1>4. effective[t] # Pending => effective'[t] = effective[t]
  BY <1>1 DEF FromParent
<1>5. \A u \in Type : effective[u] # Pending => effective'[u] = effective[u]
  BY <1>3, <1>4
<1>6. ASSUME NEW u \in Type, effective'[u] # Pending
      PROVE  \/ parent[u] = 0 /\ effective'[u] = Resolved(u, NoConstraints)
             \/ parent[u] # 0 /\ effective'[parent[u]] # Pending
                /\ effective'[u] = Resolved(u, effective'[parent[u]])
  <2>1. CASE effective[u] # Pending
    <3>1. FromParent(u) /\ effective'[u] = effective[u]
      BY <1>5, <2>1
    <3>2. parent[u] # 0 => effective[parent[u]] # Pending
                           /\ effective'[parent[u]] = effective[parent[u]]
      BY <1>2, <1>5, <3>1 DEF FromParent
    <3> QED
      BY <3>1, <3>2 DEF FromParent
  <2>2. CASE effective[u] = Pending
    <3>1. u = t
      BY <1>3, <1>6, <2>2
    <3>2. parent[t] # 0 /\ effective[parent[t]] # Pending =>
            effective'[parent[t]] = effective[parent[t]]
      BY <1>2, <1>5
    <3>3. parent[t] = 0 => effective'[t] = Resolved(t, NoConstraints)
      BY <1>1
    <3>4. parent[t] # 0 => /\ effective[parent[t]] # Pending
                           /\ effective'[t] = Resolved(t, effective[parent[t]])
      BY <1>1
    <3> QED
      BY <3>1, <3>2, <3>3, <3>4
  <2> QED
    BY <2>1, <2>2
<1> QED
  BY <1>6 DEF FromParent, Resolved, NoConstraints

LEMMA ComputeConstraints == EInv /\ compute_effective_constraints => EInv'
<1> SUFFICES ASSUME EInv, compute_effective_constraints PROVE EInv'
  OBVIOUS
<1>1. /\ Inv /\ Inv' /\ phase = "effective" /\ phase' \in Computing
      /\ UNCHANGED <<world, types, symbol, parent>>
      /\ stack \in Seq(Type) /\ Calls
  BY ConstraintsType DEF EInv, Inv, TypeOK, compute_effective_constraints, Computing
<1>2. Type' = Type /\ AllEnd' = AllEnd
  BY <1>1 DEF Type, AllEnd, Ends, Ancestor
<1>3. AllEnd => \A t \in Type : effective[t] # Pending => FromParent(t)
  BY <1>1 DEF EInv, Computing
<1>4. ASSUME UNCHANGED effective
      PROVE  AllEnd' => \A t \in Type' : effective'[t] # Pending => FromParent(t)'
  BY <1>1, <1>2, <1>3, <1>4 DEF FromParent, Resolved, NoConstraints
<1>5. CASE stack # <<>> /\ resolve_effective_constraints(Head(stack)) /\ UNCHANGED phase
  <2> DEFINE t == Head(stack)
  <2>1. t \in Type /\ t = stack[1] /\ Len(stack) \in Nat /\ Len(stack) # 0
    BY <1>1, <1>5, HeadTailProperties, LenProperties, EmptySeq
  <2>2. phase' = "effective"
    BY <1>1, <1>5
  <2>3. CASE /\ parent[t] # 0 /\ Len(stack) <= DepthLimit /\ effective[parent[t]] = Pending
    <3>1. stack' = <<parent[t]>> \o stack /\ UNCHANGED effective
      BY <1>5, <2>3 DEF resolve_effective_constraints
    <3>2. parent[t] \in Type
      BY <1>1, <2>1, <2>3, ArenaType DEF Inv, TypeOK, Type
    <3>3. <<parent[t]>> \in Seq(Type) /\ Len(<<parent[t]>>) = 1 /\ <<parent[t]>>[1] = parent[t]
      BY <3>2
    <3>4. /\ Len(stack') = Len(stack) + 1
          /\ \A i \in 1 .. Len(stack) + 1 :
               stack'[i] = IF i <= 1 THEN <<parent[t]>>[i] ELSE stack[i - 1]
      <4> DEFINE one == <<parent[t]>>
      <4>1. one \in Seq(Type) /\ Len(one) = 1
        BY <3>3
      <4> HIDE DEF one
      <4>2. stack' = one \o stack
        BY <3>1 DEF one
      <4>3. Len(one \o stack) = Len(one) + Len(stack)
            /\ \A i \in 1 .. Len(one) + Len(stack) :
                 (one \o stack)[i] = IF i <= Len(one) THEN one[i] ELSE stack[i - Len(one)]
        BY <1>1, <4>1, ConcatProperties
      <4> QED
        BY <2>1, <4>1, <4>2, <4>3 DEF one
    <3>5. ASSUME NEW i \in 1 .. Len(stack) PROVE parent[stack'[i + 1]] = stack'[i]
      <4>1. stack'[i + 1] = stack[i]
        <5>1. i + 1 \in 1 .. Len(stack) + 1 /\ ~ (i + 1 <= 1) /\ (i + 1) - 1 = i
          BY <2>1
        <5> QED
          BY <3>4, <5>1
      <4>2. CASE i = 1
        <5>1. stack'[1] = parent[t]
          BY <2>1, <3>3, <3>4
        <5> QED
          BY <2>1, <4>1, <4>2, <5>1
      <4>3. CASE i # 1
        <5>1. stack'[i] = stack[i - 1]
          BY <2>1, <3>4, <4>3
        <5>2. i - 1 \in 1 .. Len(stack) - 1 /\ (i - 1) + 1 = i
          BY <2>1, <4>3
        <5>3. parent[stack[(i - 1) + 1]] = stack[i - 1]
          BY <1>1, <5>2 DEF Calls
        <5> QED
          BY <4>1, <5>1, <5>2, <5>3
      <4> QED
        BY <4>2, <4>3
    <3>6. Calls'
      BY <1>1, <2>1, <3>4, <3>5 DEF Calls
    <3> QED
      BY <1>1, <1>4, <2>2, <3>1, <3>6 DEF EInv, Computing
  <2>4. CASE ~ (parent[t] # 0 /\ Len(stack) <= DepthLimit /\ effective[parent[t]] = Pending)
    <3>1. stack' = Tail(stack)
      BY <1>5, <2>4 DEF resolve_effective_constraints
    <3>2. Len(stack') = Len(stack) - 1 /\ \A i \in 1 .. Len(stack) - 1 : stack'[i] = stack[i + 1]
      BY <1>1, <1>5, <3>1, HeadTailProperties
    <3>3. ASSUME NEW i \in 1 .. Len(stack) - 1 - 1 PROVE parent[stack'[i + 1]] = stack'[i]
      <4>1. i + 1 \in 1 .. Len(stack) - 1 /\ i \in 1 .. Len(stack) - 1
        BY <2>1
      <4>2. stack'[i + 1] = stack[(i + 1) + 1] /\ stack'[i] = stack[i + 1]
        BY <3>2, <4>1
      <4> QED
        BY <1>1, <4>1, <4>2 DEF Calls
    <3>4. Calls'
      BY <1>1, <3>2, <3>3 DEF Calls
    <3>5. ASSUME AllEnd PROVE \A u \in Type : effective'[u] # Pending => FromParent(u)'
      <4>1. Len(stack) <= DepthLimit
        BY <1>1, <1>5, <3>5, CallsWithinLimit
      <4>2. \/ parent[t] = 0 /\ effective' = [effective EXCEPT ![t] = Resolved(t, NoConstraints)]
            \/ /\ parent[t] # 0 /\ effective[parent[t]] # Pending
               /\ effective' = [effective EXCEPT ![t] = Resolved(t, effective[parent[t]])]
        BY <1>5, <2>4, <4>1 DEF resolve_effective_constraints
      <4> HIDE DEF t
      <4> QED
        BY <1>1, <1>3, <2>1, <3>5, <4>2, SettlingKeeps
    <3> QED
      BY <1>1, <1>2, <2>2, <3>4, <3>5 DEF EInv, Computing
  <2> QED
    BY <2>3, <2>4
<1>6. CASE /\ stack = <<>> /\ Missing # {}
           /\ stack' = <<CHOOSE t \in Missing : \A u \in Missing : t <= u>>
           /\ UNCHANGED <<phase, effective>>
  <2>1. Len(stack') = 1
    BY <1>6
  <2>2. Calls'
    BY <2>1 DEF Calls
  <2> QED
    BY <1>1, <1>4, <1>6, <2>2 DEF EInv, Computing
<1>7. CASE stack = <<>> /\ Missing = {} /\ phase' = "done" /\ UNCHANGED <<effective, stack>>
  <2>1. \A t \in Type' : effective'[t] # Pending
    BY <1>2, <1>7 DEF Missing
  <2>2. Calls'
    BY <1>1, <1>7 DEF Calls
  <2> QED
    BY <1>1, <1>4, <1>7, <2>1, <2>2 DEF EInv, Computing
<1> QED
  BY <1>5, <1>6, <1>7 DEF compute_effective_constraints

LEMMA ConstraintsStep == EInv /\ [Next]_vars => EInv'
<1>1. ASSUME EInv, UNCHANGED vars PROVE EInv'
  <2>1. UNCHANGED <<world, phase, next, types, symbol, parent, cyclic, unresolved, used,
                    effective, stack>>
    BY <1>1 DEF vars
  <2>2. Inv'
    BY <1>1, InvStep DEF EInv
  <2>3. Type' = Type /\ Calls' = Calls /\ AllEnd' = AllEnd
        /\ \A t : FromParent(t)' = FromParent(t)
    BY <2>1 DEF Type, Calls, AllEnd, Ends, Ancestor, FromParent, Resolved, NoConstraints
  <2> QED
    BY <1>1, <2>1, <2>2, <2>3 DEF EInv
<1> QED
  BY <1>1, EarlyConstraints, MiddleConstraints, NormalizeConstraints, ComputeConstraints DEF Next

\* Constraints that are their parents' are intersections with them.
LEMMA ResolvedIntersects ==
  ASSUME EInv, AllEnd
  PROVE  ConstraintsAreIntersections
<1> SUFFICES ASSUME phase = "done", NEW t \in Type, NEW dim \in {"sizes", "ranges"}
             PROVE  LET P    == ParentConstraint(t, dim)
                        up   == Inherited(Own(t, dim), P, types[t].base, dim = "sizes")
                        here == effective[t][dim]
                    IN IF Own(t, dim) = {} THEN here = P
                       ELSE /\ here.present
                            /\ (up.present /\ Readable(Own(t, dim)) /\ Numeric(up.values)) =>
                                 /\ Allowed(here, Numbers)
                                      \subseteq Narrowed(Own(t, dim), Allowed(up, Numbers))
                                 /\ (NamesExtreme(Own(t, dim)) => Proper(up.values)) =>
                                      Narrowed(Own(t, dim), Allowed(up, Numbers))
                                        \subseteq Allowed(here, Numbers)
  BY DEF ConstraintsAreIntersections
<1> DEFINE P    == ParentConstraint(t, dim)
           up   == Inherited(Own(t, dim), P, types[t].base, dim = "sizes")
           here == effective[t][dim]
<1>1. Inv /\ FromParent(t) /\ effective[t] # Pending
  BY DEF EInv, Computing
<1>2. Own(t, dim) \in SUBSET Interval
  <2>1. types[t] \in TypeData
    BY <1>1, ArenaType
  <2> QED
    BY <2>1 DEF Own, TypeData
<1> DEFINE C == [sizes : Constraint, ranges : Constraint]
<1>3. P \in Constraint /\ here = Effective(Own(t, dim), up)
  <2>1. PICK p \in C : /\ effective[t] = Resolved(t, p)
                       /\ P = p[dim]
    <3>1. CASE parent[t] = 0
      <4>1. NoConstraints \in C /\ NoConstraints[dim] = Unconstrained
        BY NoConstraintsType DEF NoConstraints
      <4> QED
        BY <1>1, <3>1, <4>1 DEF FromParent, ParentConstraint
    <3>2. CASE parent[t] # 0
      <4>1. parent[t] \in Type
        BY <1>1, <3>2, ArenaType DEF Inv, TypeOK, Type
      <4>2. effective[parent[t]] \in C
        BY <1>1, <3>2, <4>1 DEF FromParent, Inv, TypeOK
      <4> QED
        BY <1>1, <3>2, <4>2 DEF FromParent, ParentConstraint
    <3> QED
      BY <3>1, <3>2
  <2>2. P \in Constraint
    BY <2>1
  <2> HIDE DEF P
  <2>3. CASE dim = "sizes"
    <3>1. Own(t, dim) = types[t].sizes /\ P = p.sizes /\ (dim = "sizes") = TRUE
      BY <2>1, <2>3 DEF Own
    <3>2. here = Resolved(t, p).sizes
      BY <2>1, <2>3
    <3>3. up = Inherited(types[t].sizes, p.sizes, types[t].base, TRUE)
      BY <3>1
    <3> QED
      BY <2>2, <3>1, <3>2, <3>3 DEF Resolved
  <2>4. CASE dim = "ranges"
    <3>1. Own(t, dim) = types[t].ranges /\ P = p.ranges /\ (dim = "sizes") = FALSE
      BY <2>1, <2>4 DEF Own
    <3>2. here = Resolved(t, p).ranges
      BY <2>1, <2>4
    <3>3. up = Inherited(types[t].ranges, p.ranges, types[t].base, FALSE)
      BY <3>1
    <3> QED
      BY <2>2, <3>1, <3>2, <3>3 DEF Resolved
  <2> QED
    BY <2>3, <2>4
<1> HIDE DEF P
<1>4. CASE Own(t, dim) = {}
  <2>1. up = P
    BY <1>4 DEF Inherited
  <2>2. here = P
    BY <1>3, <1>4, <2>1 DEF Effective
  <2> QED
    BY <1>4, <2>2 DEF P
<1>5. CASE Own(t, dim) # {}
  <2>1. up \in Constraint
    <3>1. (dim = "sizes") \in BOOLEAN
      OBVIOUS
    <3> QED
      BY <1>2, <1>3, <3>1, ConstraintType
  <2> HIDE DEF up, here
  <2>2. /\ here.present
        /\ (up.present /\ Readable(Own(t, dim)) /\ Numeric(up.values)) =>
             /\ Allowed(here, Numbers) \subseteq Narrowed(Own(t, dim), Allowed(up, Numbers))
             /\ (NamesExtreme(Own(t, dim)) => Proper(up.values)) =>
                  Narrowed(Own(t, dim), Allowed(up, Numbers)) \subseteq Allowed(here, Numbers)
    BY <1>2, <1>3, <1>5, <2>1, EffectiveIntersects
  <2> QED
    BY <1>5, <2>2 DEF up, here, P
<1> QED
  BY <1>4, <1>5

\* For any modules, definitions and imports whose chains of parents end within the
\* limit: a type allows exactly the values that its parent allows and its own
\* declaration does, whatever order the types were computed in.
THEOREM ConstraintsAreIntersectionsHolds == Spec => [](AllEnd => ConstraintsAreIntersections)
<1>1. Spec => []EInv
  BY ConstraintsInit, ConstraintsStep, PTL DEF Spec
<1>2. EInv => (AllEnd => ConstraintsAreIntersections)
  BY ResolvedIntersects
<1> QED
  BY <1>1, <1>2, PTL
==============================================================================
