----------------------------- MODULE MCIndexCodec -----------------------------
(***************************************************************************)
(* Clauses of up to two components of every kind and constraint, every     *)
(* suffix of up to five arcs or every row of values, and the limits.       *)
(***************************************************************************)
EXTENDS IndexCodec, TLC

MCIntMin == -1

Free == [present |-> FALSE, values |-> {}]
Only(ranges) == [present |-> TRUE, values |-> ranges]
D(base, implied, sizes) == [base |-> base, implied |-> implied, sizes |-> sizes,
                            ranges |-> Free, enums |-> {}]
Ranged(base, ranges, enums) == [D(base, FALSE, Free) EXCEPT !.ranges = ranges, !.enums = enums]

Integers ==
  {D("Integer32", FALSE, Free), Ranged("Integer32", Only({Between(-1, 0)}), {}),
   Ranged("Integer32", Free, {-1, 1}),
   Ranged("Counter32", Only({[min |-> Num(1), max |-> Raw], Between(0, 0)}), {}),
   Ranged("Counter32", Only({[min |-> Num(2), max |-> MAX]}), {0, 2})}

Variable ==
  {D("OctetString", FALSE, Free), D("OctetString", FALSE, Only({Between(2, 2)})),
   D("OctetString", FALSE, Only({Between(0, 0)})),
   D("OctetString", FALSE, Only({Between(2, 2), [min |-> Raw, max |-> Num(1)]})),
   D("OctetString", FALSE, Only({Between(1, 1), [min |-> Num(2), max |-> Raw]})),
   D("ObjectIdentifier", FALSE, Free), D("ObjectIdentifier", FALSE, Only({Between(1, 1)}))}

Last ==
  {D("OctetString", TRUE, Free), D("OctetString", TRUE, Only({Between(1, 2)})),
   D("OctetString", TRUE, Only({Between(1, 1)})), D("ObjectIdentifier", TRUE, Only({Between(1, 1)})),
   D("IpAddress", FALSE, Free)}

\* Components the compiler refuses.
Refused ==
  {D("Unknown", FALSE, Free), D("Counter64", FALSE, Free), D("Integer32", TRUE, Free),
   D("IpAddress", TRUE, Free), D("OctetString", FALSE, Only({})),
   Ranged("Integer32", Only({Between(-1, -1)}), {}), Ranged("Integer32", Only({Between(0, 0)}), {1})}

First == Integers \cup Variable
MCClauses == {<<d>> : d \in First \cup Last \cup Refused}
           \cup {<<d, e>> : d \in First, e \in First \cup Last}
           \cup {<<d, D("OctetString", FALSE, Free)>> : d \in Last \cup Refused}

Default == [maxSuffix |-> 5, maxValue |-> 5, maxComponents |-> 9, bound |-> TRUE,
            enforce |-> TRUE, allowIncomplete |-> FALSE]
Lenient == [Default EXCEPT !.enforce = FALSE, !.allowIncomplete = TRUE, !.bound = FALSE]
LimitedTo == [Default EXCEPT !.maxSuffix = 3, !.maxValue = 1, !.maxComponents = 1, !.bound = FALSE]

\* Arcs up to 2: 1 is the largest octet and Integer32.
ArcsUpTo(n) == UNION {[1 .. k -> Arc] : k \in 0 .. n}
MCSuffixes(clause) ==
  IF \E k \in DOMAIN clause : clause[k].base = "IpAddress"
  THEN {s \o t : s \in ArcsUpTo(1), t \in {<<>>, <<0, 1, 1>>, <<1, 0, 1, 0>>, <<0, 2, 0, 0>>}}
  ELSE ArcsUpTo(4)

V(kind, arcs) == [kind |-> kind, arcs |-> arcs]
ValuesOf(d) ==
  CASE d.base = "Integer32" -> {V("Integer32", <<n>>) : n \in -1 .. 1}
    [] d.base = "Counter32" -> {V("Counter32", <<n>>) : n \in 0 .. 2}
    [] d.base = "IpAddress" -> {V("IpAddress", <<0, 1, 1, 0>>), V("OctetString", <<0, 1, 1, 0>>)}
    [] d.base = "OctetString" -> {V("OctetString", a) : a \in {<<>>, <<1>>, <<0, 1>>, <<1, 0, 1>>}}
    [] OTHER                  -> {V("ObjectIdentifier", a) : a \in {<<>>, <<2>>, <<0, 2>>}}
MCRows(clause) ==
  IF Len(clause) = 1
  THEN {<<>>} \cup {<<v>> : v \in ValuesOf(clause[1])} \cup {<<v, v>> : v \in ValuesOf(clause[1])}
  ELSE {<<v, u>> : v \in ValuesOf(clause[1]), u \in ValuesOf(clause[2])}

MCLimits == {Default, Lenient, LimitedTo}

==============================================================================
