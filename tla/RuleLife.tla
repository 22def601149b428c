------------------------------ MODULE RuleLife ------------------------------
(***************************************************************************)
(* The life of one profile rule: its text is parsed (parse_imported_expr), *)
(* its property paths are held against the registry                        *)
(* (apply_model_schema_checks), and it is then evaluated on the objects of *)
(* its type, in any order, by one evaluator that also evaluates other      *)
(* rules in between (DefaultRuleEvaluator).                                *)
(***************************************************************************)
EXTENDS RuleEvaluator

CONSTANTS
    Written,      \* expressions a profile may hold, written out as text
    RawTexts,     \* other texts
    RuleType,     \* the object type of the rule
    Registered    \* the registry: the property names of each type

VARIABLES
    text,         \* the text of the rule's <test>
    meant,        \* the expression the text was written from, Unsupported if none
    test,         \* the expression the profile holds for it
    stage,        \* "written", "imported" or "bound"
    instructions, \* DefaultRuleEvaluator::instructions
    outcome       \* the value or error of each evaluated object

life_vars == <<text, meant, test, stage, instructions, outcome>>

\* The objects of the rule's own type: a rule of a type that is also a supertype
\* meets objects of other types too, which is ModelGraph's subject.
Candidates == {o \in DOMAIN TypeOf : TypeOf[o] = RuleType}

-----------------------------------------------------------------------------
(* Writing an expression out with the fewest parentheses. *)

\* How strongly each operator binds, for one who writes a rule.
Strengths ==
  [n \in {"?"} |-> 0] @@ [n \in {"||"} |-> 1] @@ [n \in {"&&"} |-> 2] @@
  [n \in {"==", "!=", "<=", ">=", "<", ">"} |-> 3] @@ [n \in {"&"} |-> 4] @@
  [n \in {">>"} |-> 5] @@ [n \in {"+", "-"} |-> 6] @@ [n \in {"*", "/", "%"} |-> 7] @@
  [n \in {"!"} |-> 8]
Tightest == 9

Strength(e) ==
  CASE e[1] = "Conditional" -> Strengths["?"]
    [] e[1] = "Binary"      -> Strengths[e[2]]
    [] e[1] = "Not"         -> Strengths["!"]
    [] OTHER -> Tightest

Lambda(op, sep, args) ==
  <<Id("v"), Op("=>")>> \o
  FlattenSeq([i \in DOMAIN args |->
                <<Id("v"), Op(op), Quoted(args[i][2][2])>> \o
                (IF i = Len(args) THEN <<>> ELSE <<Op(sep)>>)])

RegexTest(pattern) == <<RegexLiteral(pattern), Op("."), Id("test"), Op("("), Id("v"), Op(")")>>

MethodOf(function) == CHOOSE m \in DOMAIN Methods : Methods[m] = function

LiteralText(v) ==
  CASE v = Null -> <<Id("null")>>
    [] v[1] = "Bool" -> <<Id(IF v[2] THEN "true" ELSE "false")>>
    [] v[1] = "Number" -> IF v[2] < 0 THEN <<Op("-"), Digits(-v[2])>> ELSE <<Digits(v[2])>>
    [] v[1] = "String" -> <<Quoted(v[2])>>

Dotted(path) ==
  Tail(FlattenSeq([i \in DOMAIN path |-> <<Op("."), Id(path[i])>>]))

RECURSIVE Show(_, _), ShowCall(_, _), ShowArgs(_)

ShowArgs(args) ==
  Tail(FlattenSeq([i \in DOMAIN args |-> <<Op(",")>> \o Show(args[i], 0)]))

ShowCall(function, args) ==
  LET Method(m, content) == Show(args[1], Tightest) \o <<Op("."), Id(m), Op("(")>> \o content \o <<Op(")")>>
      values == Tail(args)
  IN CASE function = "filterEquals"    -> Method("filter", Lambda("==", "||", values))
       [] function = "filterNotEquals" -> Method("filter", Lambda("!=", "&&", values))
       [] function = "findIndexEquals" -> Method("findIndex", Lambda("==", "||", values))
       [] function = "filterMatches" ->
            Method("filter", <<Id("v"), Op("=>")>> \o RegexTest(values[1][2][2]))
       [] function = "filterNotMatches" ->
            Method("filter", <<Id("v"), Op("=>"), Op("!")>> \o RegexTest(values[1][2][2]))
       [] function = "abs" -> <<Id("Math"), Op("."), Id("abs"), Op("(")>> \o ShowArgs(args) \o <<Op(")")>>
       [] function \in {Methods[m] : m \in DOMAIN Methods} ->
            Method(MethodOf(function), Show(args[2], 0))
       [] function = "size" -> Method("length", <<>>)
       [] args = <<>> -> <<Id(function), Op("("), Op(")")>>
       [] OTHER -> <<Id(function), Op("(")>> \o ShowArgs(args) \o <<Op(")")>>

Show(e, atLeast) ==
  LET n == Strength(e)
      bare ==
        CASE e[1] = "Literal"  -> LiteralText(e[2])
          [] e[1] = "Property" -> Dotted(e[2])
          [] e[1] = "Not"      -> <<Op("!")>> \o Show(e[2], n)
          [] e[1] = "Binary"   ->
               Show(e[3], IF n = Strengths["=="] THEN n + 1 ELSE n) \o <<Op(e[2])>> \o Show(e[4], n + 1)
          [] e[1] = "Conditional" ->
               Show(e[2], 1) \o <<Op("?")>> \o Show(e[3], 0) \o <<Op(":")>> \o Show(e[4], 0)
          [] e[1] = "Call" -> ShowCall(e[2], e[3])
  IN IF n < atLeast THEN <<Op("(")>> \o bare \o <<Op(")")>> ELSE bare

-----------------------------------------------------------------------------
(* The checks of the import against the registry. *)

\* Mutant of collect_property_paths: the second branch of a conditional is
\* not looked at.
RECURSIVE PathsMutant(_)
PathsMutant(e) ==
  CASE e[1] = "Property"    -> {e[2]}
    [] e[1] = "Conditional" -> PathsMutant(e[2]) \cup PathsMutant(e[3])
    [] e[1] = "Not"         -> PathsMutant(e[2])
    [] e[1] = "Binary"      -> PathsMutant(e[3]) \cup PathsMutant(e[4])
    [] e[1] = "Call"        -> UNION {PathsMutant(e[3][i]) : i \in DOMAIN e[3]}
    [] OTHER -> {}
collect_property_pathsMutant(e) == PathsMutant(e)

RECURSIVE Paths(_)
Paths(e) ==
  CASE e[1] = "Property"    -> {e[2]}
    [] e[1] = "Conditional" -> Paths(e[2]) \cup Paths(e[3]) \cup Paths(e[4])
    [] e[1] = "Not"         -> Paths(e[2])
    [] e[1] = "Binary"      -> Paths(e[3]) \cup Paths(e[4])
    [] e[1] = "Call"        -> UNION {Paths(e[3][i]) : i \in DOMAIN e[3]}
    [] OTHER -> {}

collect_property_paths(e) == Paths(e)

\* ModelRegistry::unsupported_property_path_reason gives no reason.
SupportedPath(path) ==
  LET end == FoldLeft(link_target, RuleType, Front(path))
  IN end \in DOMAIN Registered /\ Last(path) \in Registered[end]

-----------------------------------------------------------------------------
(* The machine. *)

Init ==
  /\ \/ \E e \in Written : meant = e /\ text = Show(e, 0)
     \/ meant = Unsupported /\ text \in RawTexts
  /\ test = Unsupported /\ stage = "written" /\ instructions = 0 /\ outcome = <<>>

\* XmlRuleBuilder::finish: a text the parser rejects is kept as unsupported.
Import ==
  /\ stage = "written"
  /\ test' = parse_imported_expr(text) /\ stage' = "imported"
  /\ UNCHANGED <<text, meant, instructions, outcome>>

\* apply_model_schema_checks: an unknown path makes the rule unsupported.
CheckSchema ==
  /\ stage = "imported"
  /\ test' = IF \A path \in collect_property_paths(test) : SupportedPath(path) THEN test
             ELSE Unsupported
  /\ stage' = "bound"
  /\ UNCHANGED <<text, meant, instructions, outcome>>

\* One call of evaluate on the next object met.
Evaluate(o) ==
  /\ stage = "bound" /\ o \in Candidates \ DOMAIN outcome
  /\ LET r == evaluate(o, test, instructions)
     IN outcome' = (o :> r[1]) @@ outcome /\ instructions' = r[2]
  /\ UNCHANGED <<text, meant, test, stage>>

Next == Import \/ CheckSchema \/ \E o \in Candidates : Evaluate(o)

Spec == Init /\ [][Next]_life_vars

-----------------------------------------------------------------------------
(* Properties. *)

WithoutParentheses(tokens) == SelectSeq(tokens, LAMBDA t : t \notin {Op("("), Op(")")})

\* Nothing of the text is lost, added or moved.
ReadWhole == WithoutParentheses(Show(test, 0)) = WithoutParentheses(text)

\* A literal of a lambda that took the rest of a comparison in.
RECURSIVE Swallows(_)
Swallows(e) ==
  CASE e[1] = "Literal"     -> IsText(e[2]) /\ \E i \in DOMAIN e[2][2] : e[2][2][i] = QuoteMark
    [] e[1] = "Not"         -> Swallows(e[2])
    [] e[1] = "Binary"      -> Swallows(e[3]) \/ Swallows(e[4])
    [] e[1] = "Conditional" -> Swallows(e[2]) \/ Swallows(e[3]) \/ Swallows(e[4])
    [] e[1] = "Call"        -> \E i \in DOMAIN e[3] : Swallows(e[3][i])
    [] OTHER -> FALSE

\* ReadAsMeant: an expression written with the fewest parentheses its
\* operators' strengths allow is read back as itself, and from any text the
\* parser accepts no token is lost, added or moved: precedence, grouping,
\* method calls and lambdas of ExprParser all agree with one another.  Left
\* out: a lambda whose literal Swallows the comparisons behind it.
ReadAsMeant ==
  stage = "imported" =>
    IF meant # Unsupported THEN test = meant
    ELSE test = Unsupported \/ Swallows(test) \/ ReadWhole

\* LambdasReadWhole: the same with no lambda left out, as "unsupported lambda
\* predicate" (profile.rs:3830) says of a lambda that mixes its comparisons.
LambdasReadWhole ==
  stage = "imported" /\ meant = Unsupported => test = Unsupported \/ ReadWhole

\* BoundNamesKnown: a rule that passed the schema checks never stops on a
\* link or a property the registry does not publish on an object of its own
\* type, wherever in the expression the path stands and whichever branches
\* are evaluated.
BoundNamesKnown ==
  \A o \in DOMAIN outcome : outcome[o] \notin {Error("unknown link"), Error("unknown property")}

Value(o, e) == eval(o, e, 0, 0)[1]
One == Literal(Number(1))
Zero == Literal(Number(0))
MinusOne == Literal(Number(-1))
True == Literal(Bool(TRUE))
False == Literal(Bool(FALSE))

\* Numbers that "==" takes for equal and "<" does not.
Close(v, w) == IsNumber(v) /\ IsNumber(w) /\ v # w /\ values_equal(v, w)

\* Other expressions that must have the value of e.
Twins(e) ==
  LET op == e[2]  l == e[3]  r == e[4]  args == e[3]
  IN CASE e[1] = "Binary" ->
       (CASE op = "&&" -> {Negation(Binary("||", Negation(l), Negation(r))),
                           Call("all", <<l, r>>),
                           Conditional(l, Binary("&&", True, r), False)}
          [] op = "||" -> {Negation(Binary("&&", Negation(l), Negation(r))),
                           Call("exists", <<l, r>>),
                           Conditional(l, True, Binary("&&", True, r))}
          [] op = "!=" -> {Negation(Binary("==", l, r)), Negation(Binary("==", r, l))}
          [] op = ">=" -> {Negation(Binary("<", l, r))}
          [] op = "<=" -> {Negation(Binary(">", l, r)), Binary(">=", r, l)}
          [] op = "-"  -> {Binary("+", l, Binary("*", r, MinusOne))}
          [] op = "%"  -> {Binary("%", l, Binary("*", r, MinusOne)),
                           Binary("*", Binary("%", Binary("*", l, MinusOne), r), MinusOne)}
          [] op = "&"  -> {Binary("&", r, l)}
          [] op = ">>" /\ r = One ->
               {Binary("/", Binary("-", l, Binary("&", l, One)), Literal(Number(2)))}
          [] OTHER -> {})
     [] e[1] = "Not" -> {Conditional(e[2], False, True)}
     [] e[1] = "Call" ->
       (CASE op = "isEmpty"  -> {Binary("==", Call("size", args), Zero)}
          [] op = "contains" -> {Binary(">=", Call("indexOf", args), Zero)}
          [] op = "matches"  -> {Binary(">=", Call("search", <<args[2], args[1]>>), Zero)}
          [] op = "filterEquals" ->
               {Call("filterEquals", <<e>> \o Tail(args))} \cup
               {Call("slice", <<e, Zero>>)}
          [] op = "size" /\ args[1][1] = "Call" /\ args[1][2] = "filterEquals" ->
               {Binary("-", Call("size", <<args[1][3][1]>>),
                            Call("size", <<Call("filterNotEquals", args[1][3])>>))}
          [] OTHER -> {})
     [] OTHER -> {}

Stopped(v) == v = Error("budget")
Agree(v, w) == values_equal(v, w) \/ (IsError(v) /\ IsError(w)) \/ Stopped(v) \/ Stopped(w)

\* A comparison against an order and an equality, where neither operand stops.
OrderByParts(o) ==
  LET l == test[3]  r == test[4] IN
  test[1] = "Binary" /\ test[2] = ">=" =>
    Agree(Value(o, test), Value(o, Binary("||", Binary(">", l, r), Binary("==", l, r))))

CloseOperands(o) ==
  test[1] = "Binary" /\ Close(Value(o, test[3]), Value(o, test[4]))

\* LawsHold: the operators and built-ins agree with one another as the
\* expression language promises: De Morgan, all and exists against "&&" and
\* "||", a comparison against the negation of its opposite, contains against
\* indexOf, matches against search, filter against its complement; also
\* where an operand is of the wrong kind, missing or an error, and where
\* numbers are close or small.  ">=" is ">" or "==" but for numbers so Close
\* that only "==" takes them for equal.
LawsHold ==
  \A o \in DOMAIN outcome :
    /\ \A twin \in Twins(test) : Agree(Value(o, test), Value(o, twin))
    /\ CloseOperands(o) \/ OrderByParts(o)

\* OrderKnowsEquality: the same of every pair of numbers.
OrderKnowsEquality == \A o \in DOMAIN outcome : OrderByParts(o)

\* RulesStartAfresh: no evaluation is charged for another one: objects that
\* differ in nothing get the same outcome, in whatever order they are met,
\* and the counter stops one step past the budget.
RulesStartAfresh ==
  /\ \A o, p \in DOMAIN outcome :
       Properties[o] = Properties[p] /\ Linked[o] = Linked[p] => outcome[o] = outcome[p]
  /\ instructions <= MaxInstructions + 1

=============================================================================
