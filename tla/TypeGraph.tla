------------------------------- MODULE TypeGraph -------------------------------
(***************************************************************************)
(* The type phase: resolve_types of src/src/mib/resolver/types.rs.  Types  *)
(* are created for the primitives and for every definition, each is linked *)
(* to the type its syntax names unless that closes a cycle, types of a     *)
(* primitive syntax are linked to the primitive, two types of RFC1213-MIB  *)
(* to those of SNMPv2-TC, and then bases and constraints are inherited.    *)
(*                                                                         *)
(* A type is its position in the arena; module names are unique, as the    *)
(* loader leaves them.                                                     *)
(***************************************************************************)
EXTENDS Ranges, Sequences, FiniteSets

CONSTANTS
  Module,        \* names of modules
  SMI, TC, RFC1155, RFC1213,   \* SNMPv2-SMI, SNMPv2-TC, RFC1155-SMI, RFC1213-MIB
  Foundation,    \* names of the foundation modules
  Name,          \* names of types, the primitives' among them
  NoName,        \* a syntax that names no type
  Pending,       \* constraints not computed yet
  LinkedNames,   \* DisplayString, PhysAddress
  NamedBase,     \* base_type_from_name
  FoundationBase,\* foundation_base_type
  DepthLimit,    \* how far a chain of parents is followed: 1000
  Worlds         \* the inputs considered

Bases == {"Unknown", "Integer32", "OctetString", "ObjectIdentifier", "Bits",
          "Counter32", "IpAddress"}
Primitives == <<[name |-> "INTEGER", base |-> "Integer32"],
                [name |-> "OCTET STRING", base |-> "OctetString"],
                [name |-> "OBJECT IDENTIFIER", base |-> "ObjectIdentifier"],
                [name |-> "BITS", base |-> "Bits"]>>
PrimitiveNames == {Primitives[i].name : i \in DOMAIN Primitives}

\* A definition: SEQUENCE assignments are not types; a syntax either names a type
\* (ref) or has a base of its own, Unknown for SEQUENCE OF.
Definition == [module : Module, name : Name, sequence : BOOLEAN,
               ref : Name \cup {NoName}, base : Bases,
               sizes : SUBSET Interval, ranges : SUBSET Interval,
               enums : BOOLEAN, bits : BOOLEAN]

\* What a module's name for a type leads to: the module it was imported from.
Scope == [Module -> [Name -> Module \cup {NoName}]]

World == [loaded : SUBSET Module, constrained : BOOLEAN, imports : Scope,
          defs : Seq(Definition)]

ASSUME TypeGraphAssumption ==
  /\ {SMI, TC, RFC1155, RFC1213} \subseteq Module
  /\ NoName \notin Name \cup Module
  /\ PrimitiveNames \cup LinkedNames \subseteq Name
  /\ NamedBase \in [Name -> Bases] /\ FoundationBase \in [Name -> Bases]
  /\ DepthLimit \in Nat
  /\ \A w \in Worlds :
       /\ w \in World
       /\ \A i \in DOMAIN w.defs : /\ w.defs[i].module \in w.loaded
                                   /\ w.defs[i].name \notin PrimitiveNames
                                   /\ w.defs[i].ref \notin PrimitiveNames

\* A type of the arena.
TypeData == [module : Module, name : Name, base : Bases, ref : Name \cup {NoName},
             sizes : SUBSET Interval, ranges : SUBSET Interval,
             enums : BOOLEAN, bits : BOOLEAN]

VARIABLES
  world,       \* the input: loaded modules, definitions, imports, strictness
  phase,       \* the step of resolve_types that comes next
  next,        \* the definition that create_user_types has come to
  types,       \* the arena: for a type, its declaration and its base
  symbol,      \* module_symbol_to_type, 0 where there is none
  parent,      \* 0, or the parent of a type
  cyclic,      \* cycle_type_ids
  unresolved,  \* unresolved_types, with the type that refers
  used,        \* used imports
  effective,   \* the effective constraints, Pending until computed
  stack        \* the calls of resolve_effective_constraints, innermost first

vars == <<world, phase, next, types, symbol, parent, cyclic, unresolved, used, effective, stack>>

Type == 1 .. Len(types)

Init ==
  /\ world \in Worlds
  /\ phase = "seed" /\ next = 1
  /\ types = <<>> /\ parent = <<>> /\ effective = <<>>
  /\ symbol = [m \in Module |-> [n \in Name |-> 0]]
  /\ cyclic = {} /\ unresolved = {} /\ used = {}
  /\ stack = <<>>

------------------------------------------------------------------------------
(* Creating the types. *)

Primitive(i) == [module |-> SMI, name |-> Primitives[i].name, base |-> Primitives[i].base,
                 ref |-> NoName, sizes |-> {}, ranges |-> {}, enums |-> FALSE,
                 bits |-> FALSE]

\* syntax_to_base_type; named numbers on a reference leave the base to the parent.
SyntaxBase(d) == IF d.ref = NoName THEN d.base
                 ELSE IF d.enums THEN "Unknown" ELSE NamedBase[d.ref]

IsFoundation(d) == d.module \in Foundation /\ FoundationBase[d.name] # "Unknown"

Declared(d) == [module |-> d.module, name |-> d.name,
                base |-> IF IsFoundation(d) THEN FoundationBase[d.name] ELSE SyntaxBase(d),
                ref |-> d.ref, sizes |-> d.sizes, ranges |-> d.ranges,
                enums |-> d.enums, bits |-> d.bits]

PrimitiveIndex(n) == IF n \in PrimitiveNames
                     THEN CHOOSE i \in DOMAIN Primitives : Primitives[i].name = n ELSE 0

seed_primitive_types ==
  /\ phase = "seed"
  /\ phase' = "create"
  /\ IF SMI \in world.loaded
     THEN /\ types' = [i \in DOMAIN Primitives |-> Primitive(i)]
          /\ parent' = [i \in DOMAIN Primitives |-> 0]
          /\ effective' = [i \in DOMAIN Primitives |-> Pending]
          /\ symbol' = [symbol EXCEPT ![SMI] = [n \in Name |-> PrimitiveIndex(n)]]
     ELSE UNCHANGED <<types, parent, effective, symbol>>
  /\ UNCHANGED <<world, next, cyclic, unresolved, used, stack>>

\* add_type: the name leads to the latest type of that name in the module.
AddType(t) ==
  /\ types' = Append(types, t)
  /\ parent' = Append(parent, 0)
  /\ effective' = Append(effective, Pending)
  /\ symbol' = [symbol EXCEPT ![t.module][t.name] = Len(types) + 1]

create_user_types ==
  /\ phase = "create" /\ next <= Len(world.defs)
  /\ next' = next + 1
  /\ IF world.defs[next].sequence THEN UNCHANGED <<types, parent, effective, symbol>>
     ELSE AddType(Declared(world.defs[next]))
  /\ UNCHANGED <<world, phase, cyclic, unresolved, used, stack>>

AllCreated ==
  /\ phase = "create" /\ next > Len(world.defs)
  /\ phase' = "graph"
  /\ UNCHANGED <<world, next, types, symbol, parent, cyclic, unresolved, used, effective, stack>>

------------------------------------------------------------------------------
(* Resolving parents. *)

Fallbacks == IF world.constrained THEN <<SMI, RFC1155, TC>> ELSE <<>>

\* try_well_known_type_fallbacks
WellKnown(n) ==
  IF n \in PrimitiveNames THEN symbol[SMI][n]
  ELSE LET hits == {i \in DOMAIN Fallbacks : symbol[Fallbacks[i]][n] # 0}
       IN IF hits = {} THEN 0
          ELSE symbol[Fallbacks[CHOOSE i \in hits : \A j \in hits : i <= j]][n]

\* The type imported under the name n, 0 if n is not imported or not a type.
Imported(m, n) == IF world.imports[m][n] = NoName THEN 0
                  ELSE symbol[world.imports[m][n]][n]

\* lookup_type_for_module
Lookup(m, n) == IF symbol[m][n] # 0 THEN symbol[m][n]
                ELSE IF Imported(m, n) # 0 THEN Imported(m, n) ELSE WellKnown(n)

UsesImport(m, n) == symbol[m][n] = 0 /\ Imported(m, n) # 0

\* type_to_parent_ref: every definition with a reference, and the type its name
\* leads to, which is a later one when the module defines the name again.
Referring == {i \in DOMAIN world.defs :
                ~ world.defs[i].sequence /\ world.defs[i].ref # NoName}
Subject(i) == symbol[world.defs[i].module][world.defs[i].name]
Refers(t) == {i \in Referring : Subject(i) = t}

Target(i) == Lookup(world.defs[i].module, world.defs[i].ref)

\* parent_ref_by_type: the latest reference counts.
ParentRef(t) == CHOOSE i \in Refers(t) : \A j \in Refers(t) : j <= i
Refer(t) == Target(ParentRef(t))

Edges == {<<Subject(i), Target(i)>> : i \in {j \in Referring : Target(j) # 0}}

Closed(S, E) == \A e \in E : e[1] \in S => e[2] \in S
Heads(E) == {e[2] : e \in E}

\* b can be reached from a by one or more edges: it is in every set that holds the
\* successors of a and, with a type, its successors.
Reaches(a, b, E) ==
  \A S \in SUBSET Heads(E) :
    (\A e \in E : e[1] = a => e[2] \in S) /\ Closed(S, E) => b \in S

\* The members of the components with an edge inside, as tarjan_scc finds them.
CycleMembers(E) == {t \in Heads(E) : Reaches(t, t, E)}

Unresolved(t, reason) ==
  [type |-> t, symbol |-> world.defs[ParentRef(t)].ref, reason |-> reason]

\* The imports through which the references of the types T were found.
UsedBy(T) ==
  {<<world.defs[ParentRef(t)].module, world.defs[ParentRef(t)].ref>> :
     t \in {u \in T : UsesImport(world.defs[ParentRef(u)].module,
                                 world.defs[ParentRef(u)].ref)}}

\* The graph is built, and the members of its cycles are recorded.
FindCycles ==
  /\ phase = "graph"
  /\ cyclic' = LET E == Edges IN CycleMembers(E)
  /\ unresolved' = {Unresolved(t, "DependencyCycle") : t \in cyclic'}
  /\ used' = UsedBy(cyclic')
  /\ phase' = "parents"
  /\ UNCHANGED <<world, next, types, symbol, parent, effective, stack>>

\* Mutant: the members of cycles are linked like any other type.
AllReferring == {t \in Type : Refers(t) # {}}

\* The types whose parent reference is resolved.  The code takes them in an order
\* that depends on its HashMaps; no type's link reads another's.
Linkable == {t \in Type \ cyclic : Refers(t) # {}}

\* Mutant: the report hangs on a reference to the type itself.
NoneFound == {t \in Linkable : Refer(t) = t}

NotFound == {t \in Linkable : Refer(t) = 0}

ResolveParents ==
  /\ phase = "parents"
  /\ parent' = [t \in Type |-> IF t \in Linkable /\ Refer(t) # t THEN Refer(t) ELSE 0]
  /\ unresolved' = unresolved \cup {Unresolved(t, "TypeNotFound") : t \in NotFound}
  /\ used' = used \cup UsedBy({t \in Linkable : Refer(t) # t})
  /\ phase' = "primitives"
  /\ UNCHANGED <<world, next, types, symbol, cyclic, effective, stack>>

PrimitiveFor(base) ==
  LET hits == {i \in DOMAIN Primitives :
                 Primitives[i].base = base /\ symbol[SMI][Primitives[i].name] # 0}
  IN IF SMI \notin world.loaded \/ hits = {} THEN 0
     ELSE symbol[SMI][Primitives[CHOOSE i \in hits : TRUE].name]

\* A type without a parent gets the primitive its syntax comes down to.
PrimitiveParent(t) ==
  IF parent[t] = 0 /\ t \notin cyclic /\ PrimitiveFor(types[t].base) # t
  THEN PrimitiveFor(types[t].base) ELSE parent[t]

link_primitive_syntax_parents ==
  /\ phase = "primitives"
  /\ parent' = [t \in Type |-> PrimitiveParent(t)]
  /\ phase' = "rfc1213"
  /\ UNCHANGED <<world, next, types, symbol, cyclic, unresolved, used, effective, stack>>

\* The types of RFC1213-MIB that are linked to SNMPv2-TC's.
Linked == {symbol[RFC1213][n] : n \in {l \in LinkedNames : /\ symbol[RFC1213][l] # 0
                                                          /\ symbol[TC][l] # 0}} \ cyclic

RfcParent(t) == IF t \in Linked THEN symbol[TC][types[t].name] ELSE parent[t]

link_rfc1213_types_to_tcs ==
  /\ phase = "rfc1213"
  /\ parent' = [t \in Type |-> RfcParent(t)]
  /\ phase' = "inherit"
  /\ UNCHANGED <<world, next, types, symbol, cyclic, unresolved, used, effective, stack>>

------------------------------------------------------------------------------
(* Inheriting. *)

\* The k-th type of the chain of parents that starts at t, 0 past its end.
Ancestor(t, k) ==
  LET up[i \in 0 .. k] ==
        IF i = 0 THEN t
        ELSE LET below == up[i - 1] IN IF below = 0 THEN 0 ELSE parent[below]
  IN up[k]

\* resolve_base_from_chain: the first base of the chain.  The code writes bases back
\* as it goes, which shortens the chains of later types and changes no base that is
\* within the limit.
BaseFromChain(t) ==
  LET known == {k \in 0 .. DepthLimit - 1 :
                  Ancestor(t, k) \in Type /\ types[Ancestor(t, k)].base # "Unknown"}
  IN IF known = {} THEN "Unknown"
     ELSE types[Ancestor(t, CHOOSE k \in known : \A j \in known : k <= j)].base

inherit_base_types ==
  /\ phase = "inherit"
  /\ types' = [t \in Type |-> [types[t] EXCEPT !.base = BaseFromChain(t)]]
  /\ phase' = "normalize"
  /\ UNCHANGED <<world, next, symbol, parent, cyclic, unresolved, used, effective, stack>>

\* Named numbers on a type of BITS are its bits.
Normalized(t) == IF t.base = "Bits" /\ t.enums /\ ~ t.bits
                 THEN [t EXCEPT !.enums = FALSE, !.bits = TRUE] ELSE t

normalize_named_values_for_base ==
  /\ phase = "normalize"
  /\ types' = [t \in Type |-> Normalized(types[t])]
  /\ phase' = "effective"
  /\ UNCHANGED <<world, next, symbol, parent, cyclic, unresolved, used, effective, stack>>

\* The constraints of t, given its parent's.
Resolved(t, p) ==
  [sizes  |-> Effective(types[t].sizes,
                Inherited(types[t].sizes, p.sizes, types[t].base, TRUE)),
   ranges |-> Effective(types[t].ranges,
                Inherited(types[t].ranges, p.ranges, types[t].base, FALSE))]

NoConstraints == [sizes |-> Unconstrained, ranges |-> Unconstrained]

\* Mutant: an unfinished parent is taken to constrain nothing.
OwnConstraints(t) ==
  IF parent[t] = 0 \/ effective[parent[t]] = Pending
  THEN effective' = [effective EXCEPT ![t] = Resolved(t, NoConstraints)] /\ stack' = Tail(stack)
  ELSE effective' = [effective EXCEPT ![t] = Resolved(t, effective[parent[t]])]
       /\ stack' = Tail(stack)

\* A call for t: the parent first, unless it is known or the limit is reached.
resolve_effective_constraints(t) ==
  IF parent[t] # 0 /\ Len(stack) <= DepthLimit
  THEN IF effective[parent[t]] = Pending
       THEN stack' = <<parent[t]>> \o stack /\ UNCHANGED effective
       ELSE /\ effective' = [effective EXCEPT ![t] = Resolved(t, effective[parent[t]])]
            /\ stack' = Tail(stack)
  ELSE /\ effective' = [effective EXCEPT ![t] = Resolved(t, NoConstraints)]
       /\ stack' = Tail(stack)

Missing == {t \in Type : effective[t] = Pending}

compute_effective_constraints ==
  /\ phase = "effective"
  /\ \/ /\ stack # <<>>
        /\ resolve_effective_constraints(Head(stack))
        /\ UNCHANGED phase
     \/ /\ stack = <<>> /\ Missing # {}
        /\ stack' = <<CHOOSE t \in Missing : \A u \in Missing : t <= u>>
        /\ UNCHANGED <<phase, effective>>
     \/ /\ stack = <<>> /\ Missing = {}
        /\ phase' = "done"
        /\ UNCHANGED <<effective, stack>>
  /\ UNCHANGED <<world, next, types, symbol, parent, cyclic, unresolved, used>>

Next == \/ seed_primitive_types \/ create_user_types \/ AllCreated \/ FindCycles \/ ResolveParents
        \/ link_primitive_syntax_parents \/ link_rfc1213_types_to_tcs
        \/ inherit_base_types \/ normalize_named_values_for_base
        \/ compute_effective_constraints

Spec == Init /\ [][Next]_vars /\ WF_vars(Next)

------------------------------------------------------------------------------
(* Properties. *)

Constraint == [present : BOOLEAN, values : SUBSET Interval]

TypeOK ==
  /\ world \in World
  /\ phase \in {"seed", "create", "graph", "parents", "primitives", "rfc1213", "inherit",
               "normalize", "effective", "done"}
  /\ next \in Nat \ {0}
  /\ types \in Seq(TypeData)
  /\ symbol \in [Module -> [Name -> 0 .. Len(types)]]
  /\ parent \in [Type -> 0 .. Len(types)]
  /\ cyclic \subseteq Type
  /\ unresolved \subseteq [type : Type, symbol : Name,
                          reason : {"DependencyCycle", "TypeNotFound"}]
  /\ used \subseteq Module \X Name
  /\ effective \in [Type -> {Pending} \cup [sizes : Constraint, ranges : Constraint]]
  /\ stack \in Seq(Type)

ParentEdges(T) == {<<t, parent[t]>> : t \in {u \in T : parent[u] # 0}}

\* Whatever the definitions refer to, chains of parents are cut at every cycle: one can
\* only come back to its start through a type of RFC1213-MIB that was linked to
\* SNMPv2-TC's, which happens after the cycles were looked for.
OnlyLinksCloseCycles ==
  \A t \in Type : ~ Reaches(t, t, ParentEdges(Type \ Linked))

\* t's chain of parents leads through u.
ChainMeets(t, u) == t = u \/ Reaches(t, u, ParentEdges(Type))

\* t's chain of parents comes to its end within the limit.  One that an RFC1213 link
\* closes never does: nothing reports its members when no base is known among them.
Ends(t) == \E k \in 0 .. DepthLimit - 1 : Ancestor(t, k) # 0 /\ parent[Ancestor(t, k)] = 0

\* No reference is lost without a report: when a type's base stays unknown, its
\* chain of parents leads to a type recorded as unresolved, or to one whose syntax
\* has no base and names no type.  (Of two definitions of a name in a module only
\* the later one's reference is followed.)
UnknownIsReported ==
  phase = "done" =>
    \A m \in Module, n \in Name :
      LET t == symbol[m][n] IN
        t # 0 /\ types[t].base = "Unknown" /\ Ends(t) =>
          \E u \in Type : /\ ChainMeets(t, u)
                          /\ \/ \E r \in unresolved : r.type = u
                             \/ types[u].ref = NoName /\ types[u].base = "Unknown"

\* What a constraint allows among the numbers v.
Allowed(c, V) == IF c.present THEN {v \in V : Allows(c.values, v)} ELSE V

\* What the ranges "own" leave of the numbers P: MIN and MAX are those of P.
Narrowed(own, P) ==
  {v \in P : \E r \in own :
     /\ \/ r.min = Num(v) \/ Less(r.min, Num(v))
        \/ r.min = MAX /\ (\A o \in P : o <= v)
     /\ \/ r.max = Num(v) \/ Less(Num(v), r.max)
        \/ r.max = MIN /\ (\A o \in P : v <= o)}

Readable(ranges) == \A r \in ranges : r.min # Raw /\ r.max # Raw
Numeric(ranges) == \A r \in ranges : r.min.k = "Num" /\ r.max.k = "Num"

Numbers == IntMin .. UInt64Max

\* Every alternative holds numbers, none but those considered.
Proper(ranges) == \A r \in ranges : IntMin <= r.min.n /\ r.min.n <= r.max.n /\ r.max.n <= UInt64Max

\* An end of these ranges stands for an extreme of the whole parent.
NamesExtreme(ranges) == \E r \in ranges : r.min = MAX \/ r.max = MIN

ParentConstraint(t, dim) == IF parent[t] = 0 THEN Unconstrained ELSE effective[parent[t]][dim]

Own(t, dim) == IF dim = "sizes" THEN types[t].sizes ELSE types[t].ranges

\* A type allows exactly the values that its parent allows and its own declaration
\* does, a base's limits where no parent has any: no call that was cut short and no
\* constraint remembered too early shows in the result.  (An alternative of the parent
\* whose ends are the wrong way round holds nothing and yet hides the parent's extremes.)
ConstraintsAreIntersections ==
  phase = "done" =>
    \A t \in Type, dim \in {"sizes", "ranges"} :
      LET up   == Inherited(Own(t, dim), ParentConstraint(t, dim), types[t].base, dim = "sizes")
          here == effective[t][dim]
      IN IF Own(t, dim) = {} THEN here = ParentConstraint(t, dim)
         ELSE /\ here.present
              /\ (up.present /\ Readable(Own(t, dim)) /\ Numeric(up.values)) =>
                   /\ Allowed(here, Numbers) \subseteq Narrowed(Own(t, dim), Allowed(up, Numbers))
                   /\ (NamesExtreme(Own(t, dim)) => Proper(up.values)) =>
                        Narrowed(Own(t, dim), Allowed(up, Numbers)) \subseteq Allowed(here, Numbers)

==============================================================================
