---------------------------- MODULE MCXmpFlavour ----------------------------
(***************************************************************************)
(* Packets of up to three parts out of sixteen: identifications as        *)
(* attributes, elements and arrays, prefixes redeclared on the way,        *)
(* conflicting and broken values. Each may be cut off anywhere.            *)
(***************************************************************************)
EXTENDS XmpFlavour

A(prefix, local, value) == [prefix |-> prefix, local |-> local, value |-> value]
Open(prefix, local, decls, attrs) ==
  [kind |-> "start", prefix |-> prefix, local |-> local, decls |-> decls, attrs |-> attrs]
Chars(value) == [kind |-> "text", value |-> value]
Close == [kind |-> "end"]
Wrap(prefix, local, inner) == <<Open(prefix, local, <<>>, <<>>)>> \o inner \o <<Close>>
Leaf(prefix, local, value) == Wrap(prefix, local, <<Chars(value)>>)

Parts == {
  <<Open("r", "Description", <<>>, <<A("a", "part", <<"1">>), A("a", "conformance", <<"b">>)>>), Close>>,
  Leaf("a", "part", <<"2">>) \o Leaf("a", "conformance", <<"B">>),
  Wrap("a", "part", <<Chars(<<"1">>), Chars(<<"0">>)>>),
  Leaf("a", "part", <<"b">>),
  Wrap("a", "conformance", Wrap("r", "Bag", Leaf("r", "li", <<"b">>))),
  <<Open("r", "Description", <<>>, <<A("u", "part", <<"1">>)>>), Close>>,
  Leaf("u", "part", <<"2">>),
  Leaf("u", "part", <<"3">>),
  <<Open("x", "wrapper", <<<<"a", "pdfuaid">>>>, <<>>)>> \o Leaf("a", "part", <<"1">>) \o <<Close>>,
  <<Open("", "part", <<<<"", "pdfaid">>>>, <<>>), Chars(<<"4">>), Close>>,
  Wrap("d", "declarations", Leaf("d", "conformsTo", <<"reuse">>)),
  Leaf("d", "conformsTo", <<"reuse">>),
  <<Open("x", "note", <<>>, <<A("u", "rev", <<"2", "0", "1">>)>>), Close>>,
  <<Open("z", "title", <<>>, <<>>), Close>>,
  <<[kind |-> "xpacket"]>>,
  <<[kind |-> "doctype"]>> }

Root == Open("r", "RDF", <<<<"r", "rdf">>, <<"a", "pdfaid">>, <<"u", "pdfuaid">>, <<"d", "pdfd">>, <<"x", "other">>>>, <<>>)

Whole == {<<Root>> \o FlattenSeq(ps) \o <<Close>> : ps \in UNION {[1 .. n -> Parts] : n \in 0 .. 3}}
Cut == UNION {{SubSeq(f, 1, n) : n \in DOMAIN f} : f \in {<<Root>> \o p \o q : p \in Parts, q \in Parts}}

MCFiles == Whole \cup Cut \cup {None}
MCBuiltin ==
  {Flavour("pdfa", 1, <<"b">>), Flavour("pdfa", 2, <<"b">>), Flavour("pdfa", 4, <<"none">>),
   Flavour("pdfua", 1, <<"none">>), Flavour("pdfua", 2, <<"iso32005">>), Flavour("wtpdf", 1, <<"reuse">>)}
MCDefaults == {None, Flavour("pdfa", 1, <<"b">>), Flavour("pdfa", 9, <<"b">>)}

=============================================================================
