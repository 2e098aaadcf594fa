----------------------------- MODULE MCTypeGraph -----------------------------
(***************************************************************************)
(* Worlds for the model checking of TypeGraph: references of every shape   *)
(* between the types of SNMPv2-TC, RFC1213-MIB and a user's module, and    *)
(* chains of declared constraints.                                         *)
(***************************************************************************)
EXTENDS TypeGraph, TLC

CONSTANT User

MCModule == {SMI, TC, RFC1155, RFC1213, User}
MCName == PrimitiveNames \cup {"Counter32", "DisplayString", "A", "B", "C"}
MCNamedBase == [n \in MCName |-> CASE n = "Counter32" -> "Counter32" [] OTHER -> "Unknown"]

D(m, n, r) == [module |-> m, name |-> n, sequence |-> FALSE, ref |-> r, base |-> "Unknown",
               sizes |-> {}, ranges |-> {}, enums |-> FALSE, bits |-> FALSE]
Plain(m, n, b) == [D(m, n, NoName) EXCEPT !.base = b]
Sized(d, s) == [d EXCEPT !.sizes = s]
Ranged(d, r) == [d EXCEPT !.ranges = r]
Enum(d) == [d EXCEPT !.enums = TRUE]
Sequence(m, n) == [D(m, n, NoName) EXCEPT !.sequence = TRUE]

MCIntMin == -2

NoImports == [m \in MCModule |-> [n \in MCName |-> NoName]]
ImportsOf(m, from) == [NoImports EXCEPT ![m] = [n \in MCName |->
                         IF n \in DOMAIN from THEN from[n] ELSE NoName]]

Counter == Plain(SMI, "Counter32", "Integer32")

\* The user's types refer to each other, to a well-known type, or to nothing known.
UserWorlds ==
  {[loaded |-> {SMI, TC, User}, constrained |-> k, imports |-> NoImports,
    defs |-> <<Counter, Sized(Plain(TC, "DisplayString", "OctetString"), {Between(0, 2)}),
               IF e THEN Enum(D(User, "A", r[1])) ELSE D(User, "A", r[1]),
               D(User, b, r[2]), D(User, "C", r[3])>>] :
     k \in BOOLEAN, e \in BOOLEAN, b \in {"A", "B"},
     r \in [1 .. 3 -> {"A", "B", "C", "DisplayString", "Counter32"}]}

\* RFC1213-MIB and SNMPv2-TC, which both define DisplayString; TC does not refer back.
LinkWorlds ==
  {[loaded |-> L, constrained |-> TRUE,
    imports |-> ImportsOf(User, [n \in {"DisplayString", "A"} |-> RFC1213]),
    defs |-> <<IF l THEN D(RFC1213, "DisplayString", "A")
               ELSE Plain(RFC1213, "DisplayString", "OctetString"),
               D(RFC1213, "A", a), Sequence(RFC1213, "B"),
               Sized(Plain(TC, "DisplayString", "OctetString"), {Between(1, 2)}),
               Sized(D(User, "C", c), {[min |-> MIN, max |-> Num(1)]})>>] :
     L \in {{SMI, TC, RFC1213, User}, {TC, RFC1213, User}}, l \in BOOLEAN,
     a \in {"DisplayString", "B", NoName}, c \in {"DisplayString", "A", "B"}}

RangeChoices ==
  {{}, {Between(-1, 1)}, {Between(0, 0), Between(2, 3)}, {[min |-> MIN, max |-> Num(0)]},
   {[min |-> MAX, max |-> MAX]}, {[min |-> MIN, max |-> MIN], Between(1, 1)},
   {[min |-> Num(2), max |-> Raw]}, {Between(3, 1)}, {Between(3, 1), Between(0, 0)}}

\* A chain of three declarations, the last one first in the arena.
ChainWorlds ==
  {[loaded |-> {SMI, User}, constrained |-> TRUE, imports |-> NoImports,
    defs |-> <<Ranged(D(User, "A", "B"), a), Ranged(D(User, "B", "C"), b),
               Ranged(Plain(User, "C", base), c)>>] :
     base \in {"Integer32", "IpAddress", "Bits"},
     a \in RangeChoices, b \in RangeChoices, c \in RangeChoices}

BitsWorlds ==
  {[loaded |-> {SMI, User}, constrained |-> FALSE, imports |-> NoImports,
    defs |-> <<Enum(D(User, "A", "B")), [Plain(User, "B", "Bits") EXCEPT !.bits = TRUE]>>]}

\* A vendor's SNMPv2-TC whose DisplayString refers to a type of RFC1213-MIB, where the
\* DisplayString that the link redirects may have had no base of its own.
BackWorlds ==
  {[loaded |-> {SMI, TC, RFC1213}, constrained |-> TRUE,
    imports |-> ImportsOf(TC, [n \in {"A"} |-> RFC1213]),
    defs |-> <<l, D(RFC1213, "A", a),
               D(RFC1213, "B", b), D(TC, "DisplayString", c), D(TC, "C", d)>>] :
     l \in {Plain(RFC1213, "DisplayString", "OctetString"), D(RFC1213, "DisplayString", "B"),
            D(RFC1213, "DisplayString", NoName)},
     a \in {"DisplayString", "B"}, b \in {"DisplayString", "A", "Counter32"},
     c \in {"A", "C", "B"}, d \in {"A", "DisplayString", NoName}}

MCWorlds == UserWorlds \cup LinkWorlds \cup ChainWorlds \cup BitsWorlds \cup BackWorlds

==============================================================================
