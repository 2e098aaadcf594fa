-------------------------------- MODULE Ranges --------------------------------
(***************************************************************************)
(* The constraint algebra of the resolver: RangeBound::cmp_value of        *)
(* src/src/mib/types.rs and intersect_constraints of                       *)
(* src/src/mib/resolver/types.rs.  A list of ranges is the set of its      *)
(* alternatives: nothing here depends on their order.                      *)
(***************************************************************************)
EXTENDS Integers

CONSTANTS
  IntMin, IntMax,   \* i32::MIN and i32::MAX
  UIntMax,          \* u32::MAX
  UInt64Max,        \* u64::MAX
  SizeMax           \* 65535

ASSUME RangesAssumption == {IntMin, IntMax, UIntMax, UInt64Max, SizeMax} \subseteq Int

\* A bound is a number, MIN, MAX, or text that names no number (Raw).
MIN == [k |-> "MIN", n |-> 0]
MAX == [k |-> "MAX", n |-> 0]
Raw == [k |-> "Raw", n |-> 0]
Num(i) == [k |-> "Num", n |-> i]

Bound == {MIN, MAX, Raw} \cup [k : {"Num"}, n : Int]
Interval == [min : Bound, max : Bound]

Comparable(a, b) == a.k # "Raw" /\ b.k # "Raw"

\* cmp_value says a < b; it says nothing when a bound is Raw.
Less(a, b) ==
  /\ Comparable(a, b) /\ a # b
  /\ \/ a.k = "MIN" \/ b.k = "MAX"
     \/ a.k = "Num" /\ b.k = "Num" /\ a.n < b.n

\* contains_i64, contains_u64.
Contains(r, v) == /\ r.min = Num(v) \/ Less(r.min, Num(v))
                  /\ r.max = Num(v) \/ Less(Num(v), r.max)

Allows(ranges, v) == \E r \in ranges : Contains(r, v)

\* No other alternative is known to reach further than r.
MayHoldMax(ranges, r) ==
  \A o \in ranges \ {r} : ~ Less(r.max, o.max) /\ ~ Less(r.max, o.min)
MayHoldMin(ranges, r) ==
  \A o \in ranges \ {r} : ~ Less(o.min, r.min) /\ ~ Less(o.max, r.min)

\* The ends of the child's range c within the alternative p of its parent.
Lower(c, p) == IF c.min = MIN THEN p.min ELSE IF c.min = MAX THEN p.max ELSE c.min
Upper(c, p) == IF c.max = MAX THEN p.max ELSE IF c.max = MIN THEN p.min ELSE c.max

\* A lower MAX or an upper MIN stands for the extreme of the whole parent.
EndsWithin(c, p, parent) == /\ c.min = MAX => MayHoldMax(parent, p)
                            /\ c.max = MIN => MayHoldMin(parent, p)

ProvablyEmpty(c, p) == \E lo \in {p.min, Lower(c, p)}, hi \in {p.max, Upper(c, p)} :
                         Less(hi, lo)

\* max_range_bound and min_range_bound: a Raw bound is kept, the child's first.
Greatest(l, r) == IF Comparable(l, r) THEN (IF Less(l, r) THEN r ELSE l)
                  ELSE (IF l.k = "Raw" THEN l ELSE r)
Least(l, r) == IF Comparable(l, r) THEN (IF Less(r, l) THEN r ELSE l)
               ELSE (IF l.k = "Raw" THEN l ELSE r)

Meet(c, p) == [min |-> Greatest(Lower(c, p), p.min), max |-> Least(Upper(c, p), p.max)]

Intersect(own, parent) ==
  IF own = {} \/ parent = {} THEN own
  ELSE {Meet(cp[1], cp[2]) :
          cp \in {q \in own \X parent :
                    EndsWithin(q[1], q[2], parent) /\ ~ ProvablyEmpty(q[1], q[2])}}

Between(lo, hi) == [min |-> Num(lo), max |-> Num(hi)]

\* base_constraint: what a SIZE, or a range of a numeric base, is always within.
BaseConstraint(base, isSize) ==
  IF isSize THEN {Between(0, SizeMax)}
  ELSE CASE base = "Integer32" -> {Between(IntMin, IntMax)}
         [] base \in {"Unsigned32", "Gauge32", "TimeTicks", "Counter32"} -> {Between(0, UIntMax)}
         [] base = "Counter64" -> {Between(0, UInt64Max)}
         [] OTHER              -> {}

\* An effective constraint: whether one was declared, and what is left of it.
Unconstrained == [present |-> FALSE, values |-> {}]
Constrained(ranges) == [present |-> TRUE, values |-> ranges]

Effective(own, parent) ==
  IF own = {} THEN parent
  ELSE IF ~ parent.present THEN Constrained(own)
  ELSE Constrained(IF parent.values = {} THEN {} ELSE Intersect(own, parent.values))

\* The constraint a type hands to its own declaration: its parent's, or its base's.
Inherited(own, parent, base, isSize) ==
  IF ~ parent.present /\ own # {} /\ BaseConstraint(base, isSize) # {}
  THEN Constrained(BaseConstraint(base, isSize))
  ELSE parent

==============================================================================
