---------------------------- MODULE StructureFacts ----------------------------
(***************************************************************************)
(* What the profiles are told about a structure tree: the facts computed   *)
(* from the nodes of StructureTree, the objects the rules are evaluated    *)
(* for, and some rules of the PDF/UA profiles.                             *)
(*                                                                         *)
(* An element's dictionary also says id, headers, scope, rows, cols and    *)
(* role_attribute, a page's object whether it is a widget.                 *)
(***************************************************************************)
EXTENDS StructureTree

Ids == DOMAIN nodes
Role(n) == nodes[n].normalized_role
Attr(n) == doc.dict[nodes[n].dict]

\* attribute_positive_u32: a span that is not positive is none, and then a cell
\* has one row and one column. (Nor is one of more than 32 bits; there is none here.)
Positive(number) == IF number > 0 THEN number ELSE 1
row_span(n) == Positive(Attr(n).rows)
col_span(n) == Positive(Attr(n).cols)

\* The ancestors of a node, the nearest first.
Ancestors(n) ==
  LET up[m \in 0 .. Len(nodes)] == IF m = 0 THEN <<>> ELSE <<m>> \o up[nodes[m].parent]
  IN up[nodes[n].parent]

\* table_descendants: everything below a node, in document order.
table_descendants(n) ==
  LET below[m \in Ids] ==
        FlattenSeq([i \in DOMAIN nodes[m].children |->
                      <<nodes[m].children[i]>> \o below[nodes[m].children[i]]])
  IN below[n]

-----------------------------------------------------------------------------
(* Headings, notes and forms. *)

Levels == <<"H1", "H2", "H3", "H4", "H5", "H6">>
heading_level(role) ==
  IF \E i \in 1 .. 6 : Levels[i] = role THEN CHOOSE i \in 1 .. 6 : Levels[i] = role ELSE 0

\* A heading is compared with the nearest heading around it.
has_correct_heading_nesting(n) ==
  LET around == SelectSeq(Ancestors(n), LAMBDA m : heading_level(Role(m)) > 0)
  IN \/ heading_level(Role(n)) <= 1
     \/ around # <<>> /\ heading_level(Role(around[1])) < heading_level(Role(n))

has_duplicate_note_id(n) ==
  /\ Role(n) = "Note" /\ Attr(n).id # None
  /\ \E m \in Ids \ {n} : Role(m) = "Note" /\ Attr(m).id = Attr(n).id

\* The references of a node whose object is a widget.
widget_annotation_count(n) ==
  Cardinality({i \in DOMAIN references :
                 /\ references[i].node = n /\ references[i].object # None
                 /\ doc.dict[references[i].object].widget})

-----------------------------------------------------------------------------
(* Tables. *)

header_resolves_to_table_header(header) ==
  \E m \in Ids : Role(m) = "TH" /\ Attr(m).id = header

scoped_table_header_applies(n) ==
  LET tables == SelectSeq(Ancestors(n), LAMBDA m : Role(m) = "Table")
  IN /\ tables # <<>>
     /\ \E m \in ToSet(table_descendants(tables[1])) : Role(m) = "TH" /\ Attr(m).scope # None

headers_resolve(n) ==
  /\ Attr(n).headers # {}
  /\ \A h \in Attr(n).headers : header_resolves_to_table_header(h)

has_connected_table_header(n) ==
  \/ Role(n) \in {"TH", "THead"}
  \/ Role(n) = "TD" /\ (headers_resolve(n) \/ scoped_table_header_applies(n))

\* The headers that lead nowhere, or that there are none.
unknown_headers(n) ==
  LET unresolved == {h \in Attr(n).headers : ~header_resolves_to_table_header(h)}
  IN IF Role(n) # "TD" THEN {}
     ELSE IF unresolved # {} \/ has_connected_table_header(n) THEN unresolved
     ELSE {"missing"}

table_rows(n) == SelectSeq(table_descendants(n), LAMBDA m : Role(m) = "TR")
table_cells(n) == SelectSeq(table_descendants(n), LAMBDA m : Role(m) \in {"TH", "TD"})

NoTable == [intersection |-> FALSE, rows |-> 0, columns |-> 0]

\* Mutant of PlaceCell: a cell does not step over the cells that reach down
\* into its row, and only its first row is taken.
PlaceCellMutant(grid, row, n) ==
  LET slots == {<<row, grid.column + j>> : j \in 0 .. col_span(n) - 1}
  IN [grid EXCEPT !.column = @ + col_span(n), !.width = grid.column + col_span(n),
                  !.occupied = @ \cup slots,
                  !.intersection = @ \/ slots \cap grid.occupied # {}]

\* A cell goes to the next free column of its row, and takes the slots its
\* spans say.
PlaceCell(grid, row, n) ==
  LET column == CHOOSE c \in grid.column .. grid.column + Cardinality(grid.occupied) :
                  /\ <<row, c>> \notin grid.occupied
                  /\ \A b \in grid.column .. c - 1 : <<row, b>> \in grid.occupied
      slots == {<<row + i, column + j>> : i \in 0 .. row_span(n) - 1, j \in 0 .. col_span(n) - 1}
  IN [grid EXCEPT !.column = column + col_span(n), !.width = column + col_span(n),
                  !.occupied = @ \cup slots,
                  !.intersection = @ \/ slots \cap grid.occupied # {}]

\* The slots the cells of a table take, and the width of each of its rows.
Grid(rows) ==
  LET PlaceRow(grid, row) ==
        LET full == FoldLeft(LAMBDA g, n : PlaceCell(g, row, n),
                             [grid EXCEPT !.column = 0, !.width = 0], table_cells(rows[row]))
        IN [full EXCEPT !.widths = Append(@, full.width)]
  IN FoldLeft(PlaceRow,
              [occupied |-> {}, intersection |-> FALSE, column |-> 0, width |-> 0, widths |-> <<>>],
              [i \in DOMAIN rows |-> i])

\* How many rows are not as wide as the widest, and how many columns reach
\* below the last row.
table_analysis(n) ==
  LET rows == table_rows(n)
      grid == Grid(rows)
      widest == CHOOSE w \in ToSet(grid.widths) : \A v \in ToSet(grid.widths) : v <= w
      overlong == FlattenSeq([r \in DOMAIN rows |->
                    SelectSeq(table_cells(rows[r]), LAMBDA m : r + row_span(m) - 1 > Len(rows))])
  IN IF Role(n) # "Table" \/ rows = <<>> THEN NoTable
     ELSE [intersection |-> grid.intersection,
           rows |-> Cardinality({r \in DOMAIN rows : grid.widths[r] \notin {0, widest}}),
           columns |-> FoldLeft(LAMBDA sum, m : sum + col_span(m), 0, overlong)]

-----------------------------------------------------------------------------
(* The objects rules are evaluated for. *)

semantic_node_family(role) ==
  CASE role \in {"Table", "TR", "TH", "TD", "THead", "TBody", "TFoot"} -> "table"
    [] role \in {"L", "LI", "Lbl", "LBody"} -> "list"
    [] role = "H" \/ heading_level(role) > 0 -> "heading"
    [] role = "Link" -> "link"
    [] OTHER -> None

\* linked_objects of the document's model.
linked_objects ==
  {<<"structureElement", n>> : n \in Ids}
  \cup {<<"textChunk", i>> : i \in {j \in DOMAIN marked : marked[j].text}}
  \cup {<<"imageChunk", i>> : i \in {j \in DOMAIN marked : marked[j].image}}
  \cup {<<"accessibilityAnnotation", i>> : i \in DOMAIN references}
  \cup {<<"artifact", a>> : a \in artifacts}
  \cup {<<semantic_node_family(Role(n)), n>> : n \in {m \in Ids : semantic_node_family(Role(m)) # None}}

\* The elements each rule is written for, and its test on an element.
RuleElements ==
  [note_id |-> {"Note"}, note_unique |-> {"Note"}, nesting |-> {"H1", "H2", "H3", "H4", "H5", "H6"},
   headers_known |-> {"TD"}, headers_there |-> {"TD"}, intersection |-> {"TH", "TD"},
   row_spans |-> {"Table"}, column_spans |-> {"Table"}, form |-> {"Form"}]

RuleHolds(rule, n) ==
  CASE rule = "note_id"       -> Attr(n).id # None
    [] rule = "note_unique"   -> ~has_duplicate_note_id(n)
    [] rule = "nesting"       -> has_correct_heading_nesting(n)
    [] rule = "headers_known" -> has_connected_table_header(n) \/ unknown_headers(n) # {}
    [] rule = "headers_there" -> has_connected_table_header(n) \/ unknown_headers(n) = {}
    [] rule = "intersection"  -> ~table_analysis(n).intersection
    [] rule = "row_spans"     -> table_analysis(n).columns = 0
    [] rule = "column_spans"  -> table_analysis(n).rows = 0
    [] rule = "form"          -> Attr(n).role_attribute # None \/ widget_annotation_count(n) = 1

\* map_verapdf_object_type gives every element type of a rule the one type
\* structureElement.
Evaluated(rule) == {o[2] : o \in {x \in linked_objects : x[1] = "structureElement"}}

-----------------------------------------------------------------------------
(* Properties. *)

Sum(F(_), ns) == FoldLeft(LAMBDA sum, n : sum + F(n), 0, ns)

\* AcceptedTablesTile: a table without a table in it whose rows all have
\* cells, and which no table rule objects to, is a rectangle: its cells
\* cover as many slots as its first row is wide times the number of rows.
AcceptedTablesTile ==
  phase = "done" =>
    \A n \in Ids :
      LET rows == table_rows(n)
          cells == FlattenSeq([i \in DOMAIN rows |-> table_cells(rows[i])])
          wide == Sum(LAMBDA m : col_span(m), table_cells(rows[1]))
      IN /\ Role(n) = "Table" /\ "Table" \notin {Role(m) : m \in ToSet(table_descendants(n))}
         /\ rows # <<>> /\ \A i \in DOMAIN rows : table_cells(rows[i]) # <<>>
         /\ table_analysis(n) = NoTable
         => Sum(LAMBDA m : row_span(m) * col_span(m), cells) = wide * Len(rows)

\* RulesAskTheirElements: the rules of the PDF/UA profile are written for one
\* kind of element each ("Note tag shall have ID entry"), and no element of
\* another kind fails them.
RulesAskTheirElements ==
  phase = "done" =>
    \A rule \in DOMAIN RuleElements :
      \A n \in Evaluated(rule) : ~RuleHolds(rule, n) => Role(n) \in RuleElements[rule]

\* WidgetsCountedOnce: a form element with one widget ("A Form structure
\* element shall contain at most one widget annotation") has one.
WidgetsCountedOnce ==
  phase = "done" =>
    \A n \in Ids :
      LET widgets == {w \in {references[i].object : i \in {j \in DOMAIN references : references[j].node = n}} :
                        w # None /\ doc.dict[w].widget}
      IN Role(n) = "Form" /\ Cardinality(widgets) <= 1 => widget_annotation_count(n) <= 1

=============================================================================
