----------------------------- MODULE ResolvedMib -----------------------------
(***************************************************************************)
(* What the checks of phase 6 read: the definitions of the loaded modules  *)
(* (src/src/ir.rs) together with the model the earlier phases built from   *)
(* them, and the lookups of src/src/mib/resolver/context.rs.  A definition *)
(* and the entity made from it are one record, named by its index; a node  *)
(* of the OID tree is its path of arcs, a type the index of its data.      *)
(***************************************************************************)
EXTENDS Ranges, Sequences, FiniteSets

Seqs == INSTANCE SequencesExt

CONSTANTS
  NoNode, NoType,
  Spelling        \* what the checks look at inside the names that matter

VARIABLE mib
(* mib.modules  [name, language, base, nodes, types, imports, symbols, used], by index:     *)
(*              nodes and types are module_symbol_to_node and module_symbol_to_type,  *)
(*              imports the definer of a name, symbols the declared imports <<module, *)
(*              name>>, used ctx.used_imports                                         *)
(* mib.defs     the definitions, in the order of the modules                          *)
(* mib.tree     the nodes: [kind, name, module, object, notification, group]          *)
(* mib.types    [name, parent, tc, status, base, enums, bits, hint], effective values *)
(* mib.typeByName, mib.fallbackTypes  types by name;  mib.permissive                  *)

Front(s) == SubSeq(s, 1, Len(s) - 1)
Last(s) == s[Len(s)]
Elements(s) == {s[i] : i \in DOMAIN s}

\* What a filter keeps of a sequence: the members of S, in their order.
Filtered(s, S) ==
  LET upTo[k \in 0 .. Len(s)] ==
        IF k = 0 THEN <<>>
        ELSE IF s[k] \in S THEN Append(upTo[k - 1], s[k]) ELSE upTo[k - 1]
  IN upTo[Len(s)]

IsPrefixOf(p, s) == Len(p) <= Len(s) /\ SubSeq(s, 1, Len(p)) = p

\* The ending Table or Entry of a name, the rest of it, and its lower case.
Spelled(n) == IF n \in DOMAIN Spelling THEN Spelling[n]
              ELSE [stem |-> n, ending |-> "", folded |-> n, hyphen |-> FALSE]

WithoutEnding(n, ending) == IF Spelled(n).ending = ending THEN Spelled(n).stem ELSE n

------------------------------------------------------------------------------
(* Modules and definitions. *)

Modules == DOMAIN mib.modules
UserModules == {m \in Modules : ~ mib.modules[m].base}

Def(d) == mib.defs[d]
Language(d) == mib.modules[Def(d).module].language
ModuleName(d) == mib.modules[Def(d).module].name
IsUser(d) == Def(d).module \in UserModules

All(sort) == {d \in DOMAIN mib.defs : Def(d).sort = sort}
User(sort) == {d \in All(sort) : IsUser(d)}
UserIn(sort, language) == {d \in User(sort) : Language(d) = language}

\* The definitions with a syntax, and which of those checks look at.
Syntactic == User("ObjectType") \cup User("TypeDef")
SMIv2(S) == {d \in S : Language(d) = "SMIv2"}
IsSequence(d) == Def(d).sort = "TypeDef" /\ Def(d).syntax.form = "Sequence"
NotSequence(S) == {d \in S : ~ IsSequence(d)}

At(f, k, none) == IF k \in DOMAIN f THEN f[k] ELSE none

\* module_symbol_to_node, module_symbol_to_type
SymbolNode(m, n) == At(mib.modules[m].nodes, n, NoNode)
SymbolType(m, n) == At(mib.modules[m].types, n, NoType)
NodeOf(d) == SymbolNode(Def(d).module, Def(d).name)
HasNode(d) == NodeOf(d) # NoNode
TypeOf(d) == SymbolType(Def(d).module, Def(d).name)

------------------------------------------------------------------------------
(* The tree and the entities. *)

Tree(n) == mib.tree[n]
Nodes == DOMAIN mib.tree
Root == <<>>
IsChild(c, n) == c # Root /\ Front(c) = n
Children(n) == {c \in Nodes : IsChild(c, n)}
Kind(d) == Tree(NodeOf(d)).kind
ParentKind(n) == Tree(Front(n)).kind

\* The OBJECT-TYPEs and notifications an entity was made of: those with a node.
Objects == {d \in All("ObjectType") : HasNode(d)}
Notifications == {d \in All("Notification") : HasNode(d)}
Groups == {d \in All("ObjectGroup") \cup All("NotificationGroup") : HasNode(d)}

Base(t) == mib.types[t].base
Typed(d) == Def(d).typ # NoType

\* What the node that carries d's name has been given, its own object or another's.
NodeObject(d) == Tree(NodeOf(d)).object
NodeBase(d) == IF NodeObject(d) = 0 \/ Def(NodeObject(d)).typ = NoType THEN "None"
               ELSE Base(Def(NodeObject(d)).typ)

\* is_derived_from_type: the walk up the parents, which ends after 1000 steps in the
\* code; after as many steps as there are types it meets nothing new.
Ancestry[t \in DOMAIN mib.types, depth \in Nat] ==
  IF depth = 0 \/ mib.types[t].parent = NoType THEN {t}
  ELSE {t} \cup Ancestry[mib.types[t].parent, depth - 1]

Derives(d, t) == Typed(d) /\ t \in Ancestry[Def(d).typ, Cardinality(DOMAIN mib.types)]

------------------------------------------------------------------------------
(* Lookups of the resolver's context. *)

First(S) == CHOOSE m \in S : \A o \in S : m <= o
Named(n) == {m \in Modules : mib.modules[m].name = n}
Defining(S, n) == {m \in S : SymbolNode(m, n) # NoNode}
ImportedFrom(m, n) == IF n \in DOMAIN mib.modules[m].imports
                      THEN {mib.modules[m].imports[n]} ELSE {}

\* lookup_node_for_module, lookup_node_in_module
ScopeNode(m, n) ==
  IF SymbolNode(m, n) # NoNode THEN SymbolNode(m, n)
  ELSE IF Defining(ImportedFrom(m, n), n) = {} THEN NoNode
  ELSE SymbolNode(mib.modules[m].imports[n], n)

NodeIn(module, n) == IF Defining(Named(module), n) = {} THEN NoNode
                     ELSE SymbolNode(First(Defining(Named(module), n)), n)

\* lookup_type_for_module; the well-known types it falls back to are an input here,
\* TypeGraph says which they are
ScopeType(m, n) ==
  LET having == {s \in ImportedFrom(m, n) : SymbolType(s, n) # NoType}
  IN IF SymbolType(m, n) # NoType THEN SymbolType(m, n)
     ELSE IF having # {} THEN SymbolType(First(having), n)
     ELSE At(mib.fallbackTypes, n, NoType)

\* lookup_type_in_named_module
TypeIn(module, n) ==
  LET having == {m \in Named(module) : SymbolType(m, n) # NoType}
  IN IF having = {} THEN NoType ELSE SymbolType(First(having), n)

\* lookup_conformance_node: the module that declares the member of a clause about
\* `supports`, in the four scopes one after the other; 0 if there is none.
Declaring(m, supports, n) ==
  LET scopes == <<Defining(Named(supports), n), Defining({m}, n),
                  Defining(ImportedFrom(m, n), n),
                  IF mib.permissive THEN Defining(Modules, n) ELSE {}>>
      found  == {k \in DOMAIN scopes : scopes[k] # {}}
  IN IF found = {} THEN 0 ELSE First(scopes[First(found)])

ConformanceNode(m, supports, n) ==
  IF Declaring(m, supports, n) = 0 THEN NoNode ELSE SymbolNode(Declaring(m, supports, n), n)

------------------------------------------------------------------------------
(* What a check emits: a code, about a definition, a module or a node.     *)

Emitted(code, d) == [code |-> code, module |-> Def(d).module, def |-> d, node |-> Root]
Report(code, S) == {Emitted(code, d) : d \in S}
ReportModule(code, S) == {[code |-> code, module |-> m, def |-> 0, node |-> Root] : m \in S}

==============================================================================
