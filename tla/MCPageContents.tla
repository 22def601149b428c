--------------------------- MODULE MCPageContents ---------------------------
(* Small documents for PageContents: page trees that are plain, shared,    *)
(* cyclic or broken, with resources at some of their nodes, and one page   *)
(* with every short stream over a few tokens.                              *)
EXTENDS PageContents

Op(o)      == [kind |-> "op", val |-> o, len |-> 1]
Name(n)    == [kind |-> "name", val |-> n, len |-> 1]
Dict(m, l) == [kind |-> "dict", val |-> m, len |-> l]
IntTok(i)  == [kind |-> "int", val |-> i, len |-> 1]
R          == [kind |-> "keyword", val |-> "R", len |-> 1]
Bad        == [kind |-> "bad", val |-> None, len |-> 1]
Text       == [kind |-> "bytes", val |-> None, len |-> 2]

SeqUpTo(S, n) == UNION {[1..m -> S] : m \in 0..n}

\* Nested and unbalanced spans with text and images.
MarkStreams == SeqUpTo({Op("BMC"), Op("EMC"), Op("Tj"), Op("BI")}, 5)
\* q and Q around the cap.
StateStreams == SeqUpTo({Op("q"), Op("Q")}, 7)
\* Operands at both limits, properties and dangling operands.
OperandStreams == SeqUpTo({Name("a"), Dict(7, 2), Text, Op("Do"), Op("BDC")}, 4)
                  \cup {<<IntTok(n), IntTok(g), R, Op("BDC")>> : n, g \in {-1, 0, 3}}
                  \cup {<<Name("a"), Dict(7, 9), Op("BDC")>>, <<Name("a"), Bad>>}
                  \cup {<<Name("a"), Op(o), Name("b"), Op("Q")>> :
                            o \in {"BT", "Tf", "Td", "gs", "cs", "sh", "g", "MP",
                                   "f*", "BX", "zz", "Do", "w"}}
\* Inline images: keys, ID, data and EI in any order.
ImageStreams == {<<Op("BMC"), Op("BI")>> \o s :
                    s \in SeqUpTo({Op("ID"), Op("EI"), Bad, Name("a")}, 4)}

MCStreams == MarkStreams \cup StateStreams \cup OperandStreams \cup ImageStreams
UseStreams == {<<Name("a"), Op("Tf"), Name("b"), Op("cs"), Name("a"), Op("Do")>>}
MCContents == MCStreams \cup UseStreams \cup {<<>>}

\* Nodes without their resources; 6 is a form XObject.
Node(kids, parent) == [type |-> "Pages", subtype |-> None, kids |-> kids,
                       parent |-> parent, contents |-> {}]
Page(parent, cs)   == [type |-> "Page", subtype |-> None, kids |-> <<>>,
                       parent |-> parent, contents |-> cs]
Form               == [type |-> "XObject", subtype |-> "Form", kids |-> <<>>,
                       parent |-> None, contents |-> UseStreams]

Trees == {
    1 :> Node(<<2, 3>>, None) @@ 2 :> Page(1, UseStreams)
        @@ 3 :> Node(<<4>>, 1) @@ 4 :> Page(3, UseStreams),
    \* shared, missing (9) and repeated kids
    1 :> Node(<<3, 9, 2, 4, 2>>, None) @@ 2 :> Page(3, UseStreams)
        @@ 3 :> Node(<<2, 4>>, 1) @@ 4 :> Page(1, UseStreams),
    \* a kid that leads back up, and parents that form a cycle
    1 :> Node(<<3, 4>>, 3) @@ 2 :> Page(3, UseStreams)
        @@ 3 :> Node(<<1, 2>>, 1) @@ 4 :> Page(9, UseStreams),
    \* more pages than allowed
    1 :> Node(<<2, 3, 4>>, None) @@ 2 :> Page(1, {}) @@ 3 :> Page(1, {}) @@ 4 :> Page(1, {}),
    \* a chain that is longer than the limits
    1 :> Node(<<3>>, 9) @@ 2 :> Page(4, UseStreams)
        @@ 3 :> Node(<<4, 5>>, 1) @@ 4 :> Node(<<2>>, 3) @@ 5 :> Page(5, {<<>>}) }

InPlace(names)  == [direct |-> TRUE, names |-> names]
ByRef(names)    == [direct |-> FALSE, names |-> names]
NoResources     == [hasResources |-> FALSE, resources |-> None]
Resources(cats) == [hasResources |-> TRUE, resources |-> cats]

\* No entry, one that is no dictionary, and dictionaries whose values are forms,
\* other dictionaries and no dictionaries at all (9).
ResourceChoices == {
    NoResources, Resources(None),
    Resources("Font" :> InPlace("a" :> 2) @@ "XObject" :> InPlace("a" :> 6)
              @@ "ColorSpace" :> InPlace("b" :> 9)),
    Resources("Font" :> InPlace("a" :> 9 @@ "b" :> 9) @@ "XObject" :> InPlace("a" :> 1)),
    Resources("Font" :> ByRef("a" :> 2) @@ "XObject" :> ByRef("a" :> 6)
              @@ "ColorSpace" :> InPlace("a" :> 1)) }

At(shape, res) == [k \in DOMAIN shape |->
                      shape[k] @@ (IF k \in DOMAIN res THEN res[k] ELSE NoResources)]

PageDocs == {At(t, r) : t \in Trees, r \in [{1, 2, 3} -> ResourceChoices]}
FormDocs == {At(1 :> Page(None, UseStreams) @@ 6 :> Form, r) :
                 r \in [{1, 6} -> ResourceChoices]}
StreamDocs == {At(1 :> Page(None, {c}), <<>>) : c \in MCStreams}

MCDocs == {d @@ (6 :> (Form @@ NoResources)) : d \in PageDocs} \cup FormDocs \cup StreamDocs
=============================================================================
