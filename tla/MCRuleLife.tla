----------------------------- MODULE MCRuleLife -----------------------------
(***************************************************************************)
(* A document with two font objects alike and one that differs, two pages  *)
(* and the rules of type font.                                             *)
(***************************************************************************)
EXTENDS RuleLife

Name(c) == <<"Name", <<c>> >>

MCTypeOf == [f1 |-> "font", f2 |-> "font", f3 |-> "font", p1 |-> "page", p2 |-> "page"]

FontProperties(n, real, name, flag) ==
  [num |-> <<"Integer", n>>, real |-> real, str |-> name, flag |-> <<"Boolean", flag>>,
   names |-> <<"Array", <<Name("a"), name, Name("a")>> >>,
   mixed |-> <<"Array", <<Name("a"), <<"Integer", 1>> >> >>,
   none |-> <<"Dictionary">>]

MCProperties ==
  [f1 |-> FontProperties(1, <<"Real", 9, 8>>, <<"Name", <<"a", ",", "b">> >>, TRUE),
   f2 |-> FontProperties(1, <<"Real", 9, 8>>, <<"Name", <<"a", ",", "b">> >>, TRUE),
   f3 |-> FontProperties(-3, <<"Real", -1, 8>>, <<"String", <<>> >>, FALSE),
   p1 |-> [num |-> <<"Integer", 7>>], p2 |-> [num |-> <<"Integer", 200>>]]

MCLinksTo == [font |-> [pages |-> "page", kids |-> "font"], page |-> [fonts |-> "font"]]
MCRegistered == [font |-> {"num", "real", "str", "flag", "names", "mixed", "none"}, page |-> {"num"}]
MCCarried == [f1 |-> {"pages"}, f2 |-> {"pages"}, f3 |-> {"pages", "kids"}, p1 |-> {}, p2 |-> {"fonts"}]
MCLinked == [f1 |-> <<"p1", "f3", "p2">>, f2 |-> <<"p1", "f3", "p2">>, f3 |-> <<"p2">>,
             p1 |-> <<>>, p2 |-> <<"f3">>]

MCBadPatterns == {<<"(">>}

MCFacts ==
  {[kind |-> "encryption", encrypted |-> FALSE], [kind |-> "length", declared |-> 4, discovered |-> 5]}

P(name) == Property(<<name>>)
S(c) == Literal(Text(c))
N(n) == Literal(Number(n))

Atoms == {P("flag"), P("num"), P("real"), P("str"), P("names"), P("none"), P("unheard"),
          Property(<<"pages", "num">>), True, Literal(Null), N(1), N(-3), S(<<"a">>)}
Few == {P("flag"), P("num"), P("unheard"), True, N(1)}
Operators == UNION {Levels[n] : n \in DOMAIN Levels}

\* One operator on every pair of atoms; two operators in every nesting.
Binaries == {Binary(op, l, r) : op \in Operators, l \in Atoms, r \in Atoms}
Nested ==
  {Binary(op, Binary(sub, P("num"), N(1)), N(2)) : op \in Operators, sub \in Operators} \cup
  {Binary(op, N(2), Binary(sub, P("num"), N(1))) : op \in Operators, sub \in Operators} \cup
  {Negation(Binary(op, Negation(P("flag")), True)) : op \in Operators} \cup
  {Binary(op, Conditional(P("flag"), N(1), N(2)), N(2)) : op \in Operators}
Conditionals ==
  {Conditional(c, t, f) : c \in Few, t \in Few, f \in Few} \cup
  {Conditional(Conditional(P("flag"), c, True), N(1), Conditional(True, c, N(2))) : c \in Few}

Lists == {P("names"), P("mixed"), P("str"), P("num"), Call("split", <<P("str"), S(<<",">>)>>)}
Filters ==
  {Call(f, <<l>> \o ps) : f \in {"filterEquals", "filterNotEquals"}, l \in Lists,
     ps \in {<<S(<<"a">>)>>, <<S(<<"b">>), S(<<"a">>)>>}} \cup
  {Call(f, <<l, S(p)>>) : f \in {"filterMatches", "filterNotMatches"}, l \in Lists,
     p \in {<<"a">>, <<"(">>}} \cup
  {Call("findIndexEquals", <<l, S(<<"b">>), S(<<"a", ",", "b">>)>>) : l \in Lists}
Calls ==
  Filters \cup {Call("size", <<f>>) : f \in Filters} \cup
  {Call(f, <<l>>) : f \in {"size", "isEmpty", "abs"}, l \in Lists \cup {P("none"), N(-3)}} \cup
  {Call(f, <<l, a>>) : f \in {"contains", "indexOf", "slice", "split", "search"},
     l \in Lists, a \in {S(<<"a">>), S(<<>>), N(1), S(<<"a", ",">>)}} \cup
  {Call("matches", <<S(p), l>>) : p \in {<<"a">>, <<"b">>, <<"(">>}, l \in Lists} \cup
  {Call(f, args) : f \in {"all", "exists"},
     args \in {<<>>} \cup {<<a, b>> : a \in Few, b \in Few}} \cup
  {Call("hasParseFact", <<S(<<f>>)>>) : f \in {"header", "encryption", "streamLengthMismatch"}}

MCWritten == Atoms \cup Binaries \cup Nested \cup Conditionals \cup Calls

\* Every text of at most four of these tokens.
Tokens == {Id("flag"), Digits(1), Op("!"), Op("&&"), Op("<"), Op("?"), Op(":"), Op("("), Op(")")}

\* A lambda's body: every text of three of its tokens, and every way of putting
\* two comparisons together.
LambdaTokens == {Id("v"), Op("=="), Op("!="), Op("||"), Op("&&"), Quoted(<<"a">>)}
LambdaBodies ==
  [1 .. 3 -> LambdaTokens] \cup
  {<<Id("v"), f, Quoted(<<"a">>), sep, Id("v"), g, Quoted(<<"b">>)>> :
     f \in LambdaTokens, sep \in LambdaTokens, g \in LambdaTokens}

MCRawTexts == UNION {[1 .. n -> Tokens] : n \in 0 .. 4} \cup
  {<<Id("names"), Op("."), Id(m), Op("("), Id("v"), Op("=>")>> \o body \o <<Op(")")>> :
     m \in {"filter", "findIndex"}, body \in LambdaBodies} \cup
  {<<Op("("), Id("str"), Op(")"), Op("."), Id("length")>>,
   <<Id("str"), Op("."), Id("length")>>,
   <<Id("str"), Op("."), Id("length"), Op("("), Op(")")>>}

=============================================================================
