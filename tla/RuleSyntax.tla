----------------------------- MODULE RuleSyntax -----------------------------
(***************************************************************************)
(* The rule expressions of a validation profile (RuleExpr) and the         *)
(* recursive-descent parser that reads one out of a profile's <test> text  *)
(* (parse_imported_expr and ExprParser).                                   *)
(*                                                                         *)
(* The text is a sequence of tokens: a token is a pair of its class ("op", *)
(* "id", "num", "string", "regex") and its content.  White space and the   *)
(* scanning of one literal are left out: a literal holds no operator, one  *)
(* kind of quote is used, and a number is written as a whole one.          *)
(***************************************************************************)
EXTENDS Integers, Sequences, SequencesExt

Op(s) == <<"op", s>>
Id(s) == <<"id", s>>
Digits(n) == <<"num", n>>
Quoted(s) == <<"string", s>>
RegexLiteral(s) == <<"regex", s>>

-----------------------------------------------------------------------------
(* RuleExpr and ModelValue; a number is a reduced fraction, a string the    *)
(* sequence of its characters.                                              *)

Null == <<"Null">>
Bool(b) == <<"Bool", b>>
Number(n) == <<"Number", n, 1>>
Text(s) == <<"String", s>>

Literal(v) == <<"Literal", v>>
Property(path) == <<"Property", path>>
Negation(e) == <<"Not", e>>
Binary(op, l, r) == <<"Binary", op, l, r>>
Conditional(c, t, f) == <<"Conditional", c, t, f>>
Call(function, args) == <<"Call", function, args>>
Unsupported == <<"Unsupported">>

-----------------------------------------------------------------------------
(* The names the parser maps. *)

map_verapdf_property(name) ==
  CASE name = "Length"            -> "declaredLength"
    [] name = "realLength"        -> "discoveredLength"
    [] name = "isEncrypted"       -> "encrypted"
    [] name = "containsMetadata"  -> "hasMetadata"
    [] name = "isCatalogMetadata" -> "catalogMetadata"
    [] OTHER -> name

builtin_function == {"hasParseFact", "size", "isEmpty", "contains", "all", "exists", "matches"}

\* The methods with one argument, and the built-in each one calls with its
\* receiver as the first argument.
Methods ==
  [test |-> "matches", contains |-> "contains", split |-> "split", slice |-> "slice",
   indexOf |-> "indexOf", search |-> "search"]

method_call_expr(receiver, method, args) ==
  IF receiver = Property(<<"Math">>) /\ method = "abs" THEN
         IF Len(args) = 1 THEN Call("abs", args) ELSE Unsupported
  ELSE IF method = "length" THEN IF args = <<>> THEN Call("size", <<receiver>>) ELSE Unsupported
  ELSE IF method \in DOMAIN Methods THEN
         IF Len(args) = 1 THEN Call(Methods[method], <<receiver>> \o args) ELSE Unsupported
  ELSE Unsupported

\* A member name after a postfix expression that is not a method call.
append_property_member(e, member) ==
  IF member = "length" THEN Call("size", <<e>>)
  ELSE IF e[1] = "Property" THEN Property(Append(e[2], map_verapdf_property(member)))
  ELSE Unsupported

-----------------------------------------------------------------------------
(* filter and findIndex take a lambda, read from the tokens up to the       *)
(* closing parenthesis.                                                     *)

Occurrences(tokens, t) == Len(SelectSeq(tokens, LAMBDA u : u = t))

Closings(tokens) ==
  {i \in 1 .. Len(tokens) :
     /\ tokens[i] = Op(")")
     /\ Occurrences(SubSeq(tokens, 1, i), Op(")")) = Occurrences(SubSeq(tokens, 1, i), Op("(")) + 1}

\* The characters of a text; a token that is not a string literal counts as one.
QuoteMark == "'"
Spelled(tokens) ==
  FlattenSeq([i \in DOMAIN tokens |->
                IF tokens[i][1] = "string" THEN <<QuoteMark>> \o tokens[i][2] \o <<QuoteMark>>
                ELSE <<tokens[i][2]>>])

\* parse_static_string looks at the first and the last quote only: what is written
\* between them is the literal, another comparison too.
IsStaticString(tokens) ==
  tokens # <<>> /\ Head(tokens)[1] = "string" /\ Last(tokens)[1] = "string"
StaticString(tokens) == Front(Tail(Spelled(tokens)))

\* The text between one separator and the next.
Parts(body, sep) ==
  LET cuts == <<0>> \o SelectSeq([i \in DOMAIN body |-> i], LAMBDA i : body[i] = Op(sep))
                   \o <<Len(body) + 1>>
  IN [n \in 1 .. Len(cuts) - 1 |-> SubSeq(body, cuts[n] + 1, cuts[n + 1] - 1)]

\* comparison_lambda_value: "v op 'a'", split at the first op.
IsComparison(part, v, op) ==
  /\ Len(part) > 2 /\ part[1] = Id(v) /\ part[2] = Op(op)
  /\ IsStaticString(SubSeq(part, 3, Len(part)))

\* "v op 'a' sep v op 'b' ..."
comparison_lambda_values(body, v, op, sep) ==
  \A n \in DOMAIN Parts(body, sep) : IsComparison(Parts(body, sep)[n], v, op)

string_args(body, sep) ==
  [n \in DOMAIN Parts(body, sep) |-> Literal(Text(StaticString(SubSeq(Parts(body, sep)[n], 3,
                                                               Len(Parts(body, sep)[n])))))]

regex_lambda_pattern(body, v) ==
  /\ Len(body) = 6
  /\ body[1][1] = "regex"
  /\ Tail(body) = <<Op("."), Id("test"), Op("("), Id(v), Op(")")>>

LambdaPredicate(body, v) ==
  IF regex_lambda_pattern(body, v) THEN
         <<"filterMatches", <<Literal(Text(body[1][2]))>> >>
  ELSE IF body # <<>> /\ body[1] = Op("!") /\ regex_lambda_pattern(Tail(body), v) THEN
         <<"filterNotMatches", <<Literal(Text(body[2][2]))>> >>
  ELSE IF comparison_lambda_values(body, v, "==", "||") THEN
         <<"filterEquals", string_args(body, "||")>>
  ELSE IF comparison_lambda_values(body, v, "!=", "&&") THEN
         <<"filterNotEquals", string_args(body, "&&")>>
  ELSE <<"none", <<>> >>

\* The call a lambda makes of its receiver: findIndex takes only equality.
LambdaCall(receiver, method, content) ==
  IF Len(content) < 3 \/ content[1][1] # "id" \/ content[2] # Op("=>") THEN Unsupported
  ELSE LET predicate == LambdaPredicate(SubSeq(content, 3, Len(content)), content[1][2])
           args == <<receiver>> \o predicate[2]
       IN IF predicate[1] = "none" THEN Unsupported
          ELSE IF method = "filter" THEN Call(predicate[1], args)
          ELSE IF predicate[1] = "filterEquals" THEN Call("findIndexEquals", args)
          ELSE Unsupported

-----------------------------------------------------------------------------
(* The parser.  A parse is the tree read and the tokens left.               *)

Ok(tree, rest) == [tree |-> tree, rest |-> rest]
Fail == Ok(Unsupported, <<>>)
Failed(parse) == parse.tree = Unsupported
At(tokens, t) == tokens # <<>> /\ Head(tokens) = t
AtClass(tokens, class) == tokens # <<>> /\ Head(tokens)[1] = class

\* Mutant of Levels: "&" binds weaker than a comparison.
LevelsMutant ==
  <<{"||"}, {"&&"}, {"&"}, {"==", "!=", "<=", ">=", "<", ">"}, {">>"}, {"+", "-"},
    {"*", "/", "%"}>>

\* The binary operators, weakest first; a comparison takes one operator.
Levels ==
  <<{"||"}, {"&&"}, {"==", "!=", "<=", ">=", "<", ">"}, {"&"}, {">>"}, {"+", "-"},
    {"*", "/", "%"}>>
ComparisonLevel == 3

AtLevel(tokens, n) == \E op \in Levels[n] : At(tokens, Op(op))

\* The dotted names after an identifier: the loop stops before a name that
\* is called, which it leaves to the postfix loop.
RECURSIVE PathOf(_, _)
PathOf(path, tokens) ==
  IF At(tokens, Op(".")) /\ AtClass(Tail(tokens), "id") /\ ~At(SubSeq(tokens, 3, Len(tokens)), Op("("))
  THEN PathOf(Append(path, map_verapdf_property(tokens[2][2])), SubSeq(tokens, 3, Len(tokens)))
  ELSE Ok(Property(path), tokens)

RECURSIVE parse_conditional(_), parse_level(_, _), parse_rest(_, _), parse_unary(_),
          parse_postfix(_), parse_primary(_), parse_args(_, _)

parse_conditional(tokens) ==
  LET condition == parse_level(1, tokens)
      when_true == parse_conditional(Tail(condition.rest))
      when_false == parse_conditional(Tail(when_true.rest))
  IN IF Failed(condition) \/ ~At(condition.rest, Op("?")) THEN condition
     ELSE IF Failed(when_true) \/ ~At(when_true.rest, Op(":")) THEN Fail
     ELSE IF Failed(when_false) THEN Fail
     ELSE Ok(Conditional(condition.tree, when_true.tree, when_false.tree), when_false.rest)

\* parse_or down to parse_multiplicative.
parse_level(n, tokens) ==
  IF n > Len(Levels) THEN parse_unary(tokens) ELSE parse_rest(n, parse_level(n + 1, tokens))

parse_rest(n, left) ==
  IF Failed(left) \/ ~AtLevel(left.rest, n) THEN left
  ELSE LET op == Head(left.rest)[2]
           right == parse_level(n + 1, Tail(left.rest))
           both == IF Failed(right) THEN Fail
                   ELSE Ok(Binary(op, left.tree, right.tree), right.rest)
       IN IF n = ComparisonLevel THEN both ELSE parse_rest(n, both)

parse_unary(tokens) ==
  IF ~At(tokens, Op("!")) THEN parse_postfix(parse_primary(tokens))
  ELSE LET operand == parse_unary(Tail(tokens))
       IN IF Failed(operand) THEN Fail ELSE Ok(Negation(operand.tree), operand.rest)

parse_postfix(left) ==
  IF Failed(left) \/ ~At(left.rest, Op(".")) THEN left
  ELSE IF ~AtClass(Tail(left.rest), "id") THEN Fail
  ELSE LET member == left.rest[2][2]
           after == SubSeq(left.rest, 3, Len(left.rest))
           closing == Closings(Tail(after))
           close == CHOOSE i \in closing : \A j \in closing : i <= j
           args == parse_args(<<>>, Tail(after))
       IN CASE ~At(after, Op("(")) ->
                 parse_postfix(Ok(append_property_member(left.tree, member), after))
            [] At(after, Op("(")) /\ member \in {"filter", "findIndex"} ->
                 IF closing = {} THEN Fail
                 ELSE parse_postfix(Ok(LambdaCall(left.tree, member, SubSeq(after, 2, close)),
                                       SubSeq(after, close + 2, Len(after))))
            [] OTHER ->
                 IF args.tree = Unsupported THEN Fail
                 ELSE parse_postfix(Ok(method_call_expr(left.tree, member, args.tree[2]), args.rest))

\* The arguments of a call, after its opening parenthesis.
parse_args(args, tokens) ==
  LET arg == parse_conditional(tokens)
  IN IF args = <<>> /\ At(tokens, Op(")")) THEN Ok(<<"Args", args>>, Tail(tokens))
     ELSE IF Failed(arg) THEN Fail
     ELSE IF At(arg.rest, Op(")")) THEN Ok(<<"Args", Append(args, arg.tree)>>, Tail(arg.rest))
     ELSE IF At(arg.rest, Op(",")) THEN parse_args(Append(args, arg.tree), Tail(arg.rest))
     ELSE Fail

parse_primary(tokens) ==
  LET inner == parse_conditional(Tail(tokens))
      args == parse_args(<<>>, SubSeq(tokens, 3, Len(tokens)))
      word == Head(tokens)[2]
      rest == Tail(tokens)
  IN IF tokens = <<>> THEN Fail
     ELSE IF At(tokens, Op("(")) THEN
            IF Failed(inner) \/ ~At(inner.rest, Op(")")) THEN Fail ELSE Ok(inner.tree, Tail(inner.rest))
     ELSE IF AtClass(tokens, "regex") \/ AtClass(tokens, "string") THEN Ok(Literal(Text(word)), rest)
     ELSE IF At(tokens, Id("true")) THEN Ok(Literal(Bool(TRUE)), rest)
     ELSE IF At(tokens, Id("false")) THEN Ok(Literal(Bool(FALSE)), rest)
     ELSE IF At(tokens, Id("null")) THEN Ok(Literal(Null), rest)
     ELSE IF AtClass(tokens, "num") THEN Ok(Literal(Number(word)), rest)
     ELSE IF At(tokens, Op("-")) THEN
            IF AtClass(rest, "num") THEN Ok(Literal(Number(-rest[1][2])), Tail(rest)) ELSE Fail
     ELSE IF AtClass(tokens, "id") /\ At(rest, Op("(")) THEN
            IF args.tree = Unsupported \/ word \notin builtin_function THEN Fail
            ELSE Ok(Call(word, args.tree[2]), args.rest)
     ELSE IF AtClass(tokens, "id") THEN PathOf(<<map_verapdf_property(word)>>, rest)
     ELSE Fail

parse_imported_expr(tokens) ==
  LET parse == parse_conditional(tokens)
  IN IF Failed(parse) \/ parse.rest # <<>> THEN Unsupported ELSE parse.tree

=============================================================================
