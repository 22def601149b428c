---------------------------- MODULE MCStructure ----------------------------
(***************************************************************************)
(* Small documents of four kinds: trees of four elements that go round, are *)
(* shared or nested, on two pages; parent trees and ID trees of two nodes;  *)
(* tables of three rows with spans; and forms.                              *)
(***************************************************************************)
EXTENDS StructureFacts

D == [is |-> "elem", role |-> "P", page |-> None, k |-> NoValue, mcid |-> None, target |-> None,
      parent |-> None, id |-> None, headers |-> {}, scope |-> None, rows |-> 1, cols |-> 1,
      role_attribute |-> None, widget |-> FALSE]
Elem(role, k) == [D EXCEPT !.role = role, !.k = k]
Span(mcid) == [tag |-> "P", mcid |-> mcid, linked |-> None, named |-> None, text |-> TRUE,
               image |-> FALSE]
Stream(spans) == [ok |-> TRUE, spans |-> spans]
Bad == [ok |-> FALSE, spans |-> <<>>]
\* The keys of pages are in no order of theirs.
Page(key, parent, streams, objects) ==
  [key |-> key, rank |-> IF key = "q1" THEN 2 ELSE 1, parent |-> parent, streams |-> streams, objects |-> objects]
Empty == [root |-> NoValue, node |-> <<>>]
\* One array is an object of its own, named l.
Doc(dict, k, pages, ids, nums, roles) ==
  [dict |-> dict, k |-> k, arrays |-> [l |-> <<<<"ref", "b">>, <<"ref", "a">>>>], pages |-> pages, ids |-> ids, nums |-> nums, roles |-> roles]

Ref(x) == <<"ref", x>>
Direct(x) == <<"dict", x>>
Number(n) == <<"int", n>>
Array(values) == <<"array", values>>

\* Trees: an element a with kids b and c, which may lead back, and an
\* element d in place.
Kids == {NoValue, Number(0), Ref("a"), Ref("l"), Array(<<Ref("b"), Number(0), Ref("c")>>),
         Array(<<Ref("c"), Ref("m"), Ref("b")>>), Array(<<Direct("d"), Ref("z"), Ref("o")>>)}
\* An array in the array of the root is opened too.
Nested == Array(<<Array(<<Ref("c"), Ref("b")>>), Ref("a")>>)
Trees ==
  {Doc([a |-> [Elem("Sect", ka) EXCEPT !.page = p], b |-> Elem("X", kb), c |-> Elem("Artifact", kc),
        d |-> [Elem("P", Array(<<Number(1), Direct("e")>>)) EXCEPT !.page = "q2"],
        e |-> Elem("P", Ref("n")), n |-> [D EXCEPT !.is = "mcr", !.mcid = 0, !.page = "q1"],
        m |-> [D EXCEPT !.is = "mcr", !.mcid = 1], o |-> [D EXCEPT !.is = "objr", !.target = "w"],
        w |-> [D EXCEPT !.is = "annot", !.parent = 7, !.widget = TRUE]],
       k, <<Page("q1", None, <<Stream(<<Span(0), Span(1)>>)>>, <<"w">>), Page("q2", None, IF p = None THEN <<Bad, Stream(<<Span(1)>>)>> ELSE <<Stream(<<Span(1)>>)>>, <<>>)>>,
       Empty, Empty, r)
   : ka \in Kids, kb \in Kids \ {Ref("l"), Array(<<Direct("d"), Ref("z"), Ref("o")>>)}, kc \in {NoValue, Number(0), Ref("b"), Ref("a")},
     k \in {Ref("a"), Ref("l"), Array(<<Number(0), Ref("m"), Ref("b"), Ref("a")>>), Nested}, p \in {None, "q1"},
     r \in {[X |-> "Y", Y |-> "X"], [X |-> "Y", Y |-> "Figure"], [X |-> "Y", Y |-> "Z", Z |-> "P"]}}

\* Parent trees: page q1 has number 3, page q2, an annotation w and an image i
\* have numbers too, perhaps the same; the entries may be in two nodes, lead
\* nowhere, and go round.
Entries ==
  {<<3, Array(<<Ref("a"), Ref("b")>>)>>, <<3, Ref("b")>>, <<3, Ref("z")>>, <<4, Ref("b")>>,
   <<5, Ref("a")>>, <<5, Ref("z")>>}
ParentTrees ==
  {Doc([a |-> [Elem("Sect", Array(<<Ref("b"), Number(0)>>)) EXCEPT !.page = p, !.id = "i"],
        b |-> Elem("P", NoValue), w |-> [D EXCEPT !.is = "annot", !.parent = nw],
        i |-> [D EXCEPT !.is = "image", !.parent = 5]],
       Ref("a"),
       <<Page("q1", 3, <<Stream(<<Span(0), [Span(None) EXCEPT !.linked = 1], Span(None)>>)>>, <<"w", "i">>),
         Page("q2", np, <<Stream(<<Span(0)>>)>>, <<>>)>>,
       [root |-> IF p = None THEN Direct("t") ELSE NoValue, node |-> [t |-> [kids |-> <<Ref("u")>>, pairs |-> <<<<"i", "a">>, <<"j", "b">>>>],
                                        u |-> [kids |-> <<Ref("u")>>, pairs |-> <<<<"i", "b">>>>]]],
       [root |-> Ref("t"), node |-> [t |-> [kids |-> ks, pairs |-> <<e>>],
                                     u |-> [kids |-> <<Ref("t")>>, pairs |-> <<f, g>>]]],
       <<>>)
   : p \in {None, "q1"}, nw \in {4, 3}, np \in {3, 5}, ks \in {<<>>, <<Ref("z"), Ref("u")>>}, e \in Entries \cup {<<3, Ref("l")>>}, f \in Entries, g \in Entries}

\* Tables: three rows, of at most two, two and one cell; the first cell may have
\* spans that are not positive, or longer than the table.
Cells == {[Elem("TD", NoValue) EXCEPT !.rows = r, !.cols = c] : r \in 1 .. 2, c \in 1 .. 2}
AnyCells == {[Elem("TD", NoValue) EXCEPT !.rows = r, !.cols = c] : r \in {0, 2, 4}, c \in {-1, 1, 3}}
RowOf(a, b, n) == Elem("TR", Array(SubSeq(<<Direct(a), Direct(b)>>, 1, n)))
Tables ==
  {Doc([t |-> Elem("Table", Array(<<Ref("r1"), Ref("r2"), Ref("r3")>>)), r1 |-> RowOf("c1", "c2", n1),
        r2 |-> RowOf("c3", "c4", n2), r3 |-> RowOf("c5", "c5", n3),
        c1 |-> c1, c2 |-> c2, c3 |-> c3, c4 |-> Elem("TD", NoValue), c5 |-> Elem("TH", NoValue)],
       Ref("t"), <<>>, Empty, Empty, <<>>)
   : n1 \in 1 .. 2, n2 \in 1 .. 2, n3 \in 0 .. 1, c1 \in AnyCells, c2 \in Cells, c3 \in Cells}

\* A form with one widget or two, in its kids, the parent tree or both.
Forms ==
  {Doc([f |-> Elem("Form", k), o |-> [D EXCEPT !.is = "objr", !.target = "w"],
        w |-> [D EXCEPT !.is = "annot", !.parent = 1, !.widget = TRUE],
        v |-> [D EXCEPT !.is = "annot", !.parent = 2, !.widget = TRUE]],
       Ref("f"), <<Page("q1", 0, <<>>, <<"w", "v">>)>>, Empty,
       [root |-> Direct("t"), node |-> [t |-> [kids |-> <<>>, pairs |-> pairs]]], <<>>)
   : k \in {NoValue, Ref("o")}, pairs \in {<<>>, <<<<1, Ref("f")>>>>, <<<<1, Ref("f")>>, <<2, Ref("f")>>>>}}

MCDocuments == Trees \cup ParentTrees \cup Tables \cup Forms

Names == {"a", "b", "c", "d", "e", "f", "l", "m", "n", "o", "t", "z"} \cup
         {"r1", "r2", "r3", "c1", "c2", "c3", "c4", "c5"}
MCValues ==
  {NoValue} \cup {Number(n) : n \in 0 .. 1} \cup {Ref(x) : x \in Names} \cup {Direct(x) : x \in Names}
  \cup Kids
  \cup {Array(SubSeq(<<Direct(row[1]), Direct(row[2])>>, 1, n)) :
          row \in {<<"c1", "c2">>, <<"c3", "c4">>, <<"c5", "c5">>}, n \in 0 .. 2}
  \cup {Array(<<Number(1), Direct("e")>>), Array(<<Ref("b"), Number(0)>>), Array(<<Ref("a"), Ref("b")>>),
        Array(<<Number(0), Ref("m"), Ref("b"), Ref("a")>>), Array(<<Ref("c"), Ref("b")>>), Nested,
        Array(<<Ref("r1"), Ref("r2"), Ref("r3")>>)}

=============================================================================
