--------------------------- MODULE ObjectStructure ---------------------------
(***************************************************************************)
(* The tables, rows and columns that the OBJECT-TYPEs of one module        *)
(* declare: collect_module_object_structure of                             *)
(* src/src/mib/resolver/semantics.rs.  The writer and the queries about    *)
(* declared structure go by it, whatever module owns the nodes.  Objects   *)
(* are known by name, and a name declared again replaces the first one.    *)
(***************************************************************************)
EXTENDS Naturals, Sequences

CONSTANTS
  Name, NoName,
  Node, NoNode,
  Parent           \* the parent of a node, NoNode of the root

\* declared_syntax_name and declared_local_parent: the type an object names, and the
\* last object of its own module that its OID names.
Shape == [name : Name, table : BOOLEAN, indexed : BOOLEAN,
          syntax : Name \cup {NoName}, under : Name \cup {NoName}, node : Node \cup {NoNode}]

StructureKinds == {"Unknown", "Table", "Row", "Column", "Scalar"}

\* DeclaredObjectStructure; of an error only whom it is marked on.
Structure == [kind : [Name -> StructureKinds],
              rowOf : [Name -> Name \cup {NoName}], tableOf : [Name -> Name \cup {NoName}],
              columnsOf : [Name -> Seq(Name)], rowOfColumn : [Name -> Name \cup {NoName}],
              errors : SUBSET Name]

NamesOf(s) == {s[k] : k \in DOMAIN s}

\* What a filter keeps of a sequence: the members of S, in their order.
Filtered(s, S) ==
  LET upTo[k \in 0 .. Len(s)] ==
        IF k = 0 THEN <<>>
        ELSE IF s[k] \in S THEN Append(upTo[k - 1], s[k]) ELSE upTo[k - 1]
  IN upTo[Len(s)]

Declared(objects) == {objects[k].name : k \in DOMAIN objects}
ShapeOf(objects, n) ==
  objects[CHOOSE k \in DOMAIN objects :
            objects[k].name = n /\ \A j \in DOMAIN objects : objects[j].name = n => j <= k]
Names(objects) == [k \in DOMAIN objects |-> objects[k].name]

Unlinked(objects) ==
  [kind |-> [n \in Name |->
               IF n \notin Declared(objects) THEN "Unknown"
               ELSE IF ShapeOf(objects, n).table THEN "Table"
               ELSE IF ShapeOf(objects, n).indexed THEN "Row" ELSE "Scalar"],
   rowOf |-> [n \in Name |-> NoName], tableOf |-> [n \in Name |-> NoName],
   columnsOf |-> [n \in Name |-> <<>>], rowOfColumn |-> [n \in Name |-> NoName],
   errors |-> {}]

Mark(s, names) == [s EXCEPT !.errors = @ \cup names]

link_table_row(s, table, row) ==
  IF s.rowOf[table] \notin {NoName, row} THEN Mark(s, {table})
  ELSE IF s.tableOf[row] \notin {NoName, table} THEN Mark(s, {row, table})
  ELSE [s EXCEPT !.rowOf[table] = row, !.tableOf[row] = table, !.kind[row] = "Row"]

\* The columns are freed of duplicates at the end; here none is added twice.
link_row_column(s, row, column) ==
  IF row = column THEN Mark(s, {row})
  ELSE IF s.kind[column] \in {"Table", "Row"} THEN Mark(s, {row, column})
  ELSE IF s.rowOfColumn[column] \notin {NoName, row}
  THEN Mark(s, {row, s.rowOfColumn[column], column})
  ELSE LET columns == s.columnsOf[row]
       IN [s EXCEPT !.rowOfColumn[column] = row, !.kind[column] = "Column",
                    !.columnsOf[row] = IF column \in NamesOf(columns) THEN columns
                                       ELSE Append(columns, column)]

\* The objects with a node right below a node, which may be unknown itself.
Below(objects, node) ==
  {n \in Declared(objects) : LET own == ShapeOf(objects, n).node
                             IN node # NoNode /\ own # NoNode /\ Parent[own] = node}

\* What may be a table's row has the type it is a SEQUENCE OF and names it as its
\* parent; only if nothing does, what its OID puts there.
Candidates(objects, table) ==
  LET shape    == ShapeOf(objects, table)
      typed    == {n \in Declared(objects) : ShapeOf(objects, n).syntax = shape.syntax}
      explicit == {n \in typed : ShapeOf(objects, n).under = table}
  IN Filtered(Names(objects), IF explicit # {} THEN explicit
                              ELSE typed \cap Below(objects, shape.node))

\* Mutant: of several candidates the first one is taken.
LinkFirst(objects, s, table) ==
  LET rows == Candidates(objects, table)
  IN IF rows = <<>> THEN Mark(s, {table}) ELSE link_table_row(s, table, rows[1])

LinkTable(objects, s, table) ==
  LET rows == Candidates(objects, table)
  IN IF ShapeOf(objects, table).syntax = NoName THEN s
     ELSE IF Len(rows) = 1 THEN link_table_row(s, table, rows[1])
     ELSE Mark(s, {table} \cup NamesOf(rows))

LinkTables(objects, s, tables) ==
  LET upTo[k \in 0 .. Len(tables)] ==
        IF k = 0 THEN s ELSE LinkTable(objects, upTo[k - 1], tables[k])
  IN upTo[Len(tables)]

\* An object with INDEX or AUGMENTS is a row, whatever table it has, or is.
MarkRows(objects, s) ==
  [s EXCEPT !.kind = [n \in Name |->
     IF n \in Declared(objects) /\ ShapeOf(objects, n).indexed THEN "Row" ELSE s.kind[n]]]

\* The fields of the SEQUENCE that a table's row names are its columns; a name that no
\* type definition gives a SEQUENCE to has no fields.
LinkField(objects, s, table, row, field) ==
  IF field \in Declared(objects) THEN link_row_column(s, row, field) ELSE Mark(s, {table})

LinkFields(objects, sequences, s, table) ==
  LET entry  == s.rowOf[table]
      fields == sequences[ShapeOf(objects, entry).syntax]
      upTo[k \in 0 .. Len(fields)] ==
        IF k = 0 THEN s ELSE LinkField(objects, upTo[k - 1], table, entry, fields[k])
  IN IF entry = NoName THEN s ELSE upTo[Len(fields)]

LinkAllFields(objects, sequences, s, tables) ==
  LET upTo[k \in 0 .. Len(tables)] ==
        IF k = 0 THEN s ELSE LinkFields(objects, sequences, upTo[k - 1], tables[k])
  IN upTo[Len(tables)]

\* So is what names a row as its parent, or else what its OID puts below a row.
LinkObject(objects, rows, s, n) ==
  LET shape == ShapeOf(objects, n)
      placed == shape.node # NoNode /\ Parent[shape.node] # NoNode
      above == IF placed THEN Filtered(rows, {r \in NamesOf(rows) :
                                                ShapeOf(objects, r).node = Parent[shape.node]})
               ELSE <<>>
  IN IF shape.under \in NamesOf(rows) THEN link_row_column(s, shape.under, n)
     ELSE IF Len(above) = 1 THEN link_row_column(s, above[1], n)
     ELSE IF above = <<>> \/ s.rowOfColumn[n] # NoName THEN s
     ELSE Mark(s, {n} \cup NamesOf(above))

LinkObjects(objects, rows, s) ==
  LET names == Names(objects)
      upTo[k \in 0 .. Len(names)] ==
        IF k = 0 THEN s ELSE LinkObject(objects, rows, upTo[k - 1], names[k])
  IN upTo[Len(names)]

OfKind(s, k) == {n \in Name : s.kind[n] = k}

collect_module_object_structure(objects, sequences) ==
  LET unlinked == Unlinked(objects)
      tables   == Filtered(Names(objects), OfKind(unlinked, "Table"))
      linked   == MarkRows(objects, LinkTables(objects, unlinked, tables))
      rows     == Filtered(Names(objects), OfKind(linked, "Row"))
  IN LinkObjects(objects, rows, LinkAllFields(objects, sequences, linked, tables))

==============================================================================
