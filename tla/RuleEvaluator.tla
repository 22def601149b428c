---------------------------- MODULE RuleEvaluator ----------------------------
(***************************************************************************)
(* DefaultRuleEvaluator: one rule's expression, evaluated on one model     *)
(* object within an instruction and a depth budget.                        *)
(*                                                                         *)
(* An evaluation gives a pair: the value, or an error <<"Error", kind>>,   *)
(* and the instructions counted so far.  A regular expression is one that  *)
(* matches its own text (the regex crate is outside the project), or one   *)
(* that does not compile.                                                  *)
(***************************************************************************)
EXTENDS RuleSyntax, Bitwise

CONSTANTS
    MaxInstructions,  \* MAX_RULE_INSTRUCTIONS
    MaxDepth,         \* the smaller of MAX_RULE_DEPTH and limits.max_object_depth
    MaxParts,         \* limits.max_array_len
    MaxLinked,        \* limits.max_objects
    MaxPattern,       \* MAX_REGEX_PATTERN_BYTES
    MaxHaystack,      \* MAX_REGEX_HAYSTACK_BYTES
    IntBits,          \* the width of the integers of "&" and ">>" (32)
    EpsilonParts,     \* f64::EPSILON is one part of this many (2^52)
    BadPatterns,      \* the patterns that do not compile
    Facts,            \* the document's parse facts
    TypeOf,           \* the object type of each model object
    Properties,       \* its property values, as COS objects
    LinksTo,          \* the registry: the links of each type and their target types
    Carried,          \* the link names each object carries
    Linked            \* the objects linked to each object, whatever the link

ASSUME Bounds == /\ MaxInstructions \in Nat /\ MaxDepth \in Nat /\ MaxParts \in Nat
                 /\ MaxLinked \in Nat
                 /\ MaxPattern \in Nat /\ MaxHaystack \in Nat /\ IntBits \in Nat \ {0}
                 /\ EpsilonParts \in Nat \ {0}

Error(kind) == <<"Error", kind>>
IsError(v) == v[1] = "Error"
Mismatch == Error("mismatch")

IsNumber(v) == v[1] = "Number"
IsBool(v) == v[1] = "Bool"
IsText(v) == v[1] = "String"
IsList(v) == v[1] = "List"
IsTrue(v) == v = Bool(TRUE)

-----------------------------------------------------------------------------
(* Values. *)

\* ModelValue::from(CosObject): an integer beyond 32 bits, a dictionary and
\* a stream read as null.  A real is a reduced fraction.
IntMax == 2^(IntBits - 1) - 1
RECURSIVE model_value(_)
model_value(cos) ==
  CASE cos[1] = "Boolean" -> Bool(cos[2])
    [] cos[1] = "Integer" -> IF cos[2] \in (-IntMax - 1) .. IntMax THEN Number(cos[2]) ELSE Null
    [] cos[1] = "Real" -> <<"Number", cos[2], cos[3]>>
    [] cos[1] \in {"Name", "String"} -> Text(cos[2])
    [] cos[1] = "Reference" -> <<"ObjectKey", cos[2]>>
    [] cos[1] = "Array" -> <<"List", [i \in DOMAIN cos[2] |-> model_value(cos[2][i])]>>
    [] OTHER -> Null

Divisors(n) == {d \in 1 .. n : n % d = 0}
Magnitude(n) == IF n < 0 THEN -n ELSE n
\* The number p / q, reduced.
Fraction(p, q) ==
  LET sign == IF q < 0 THEN -1 ELSE 1
      common == IF p = 0 THEN Magnitude(q)
                ELSE CHOOSE d \in Divisors(Magnitude(q)) :
                       /\ Magnitude(p) % d = 0
                       /\ \A c \in Divisors(Magnitude(q)) : Magnitude(p) % c = 0 => c <= d
  IN <<"Number", sign * (p \div common), sign * (q \div common)>>

Difference(l, r) == Fraction(l[2] * r[3] - r[2] * l[3], l[3] * r[3])

\* Smaller than f64::EPSILON.  (The rounding of f64, the reason for it, is left
\* out: a number is exact.)
Negligible(v) == Magnitude(v[2]) * EpsilonParts < v[3]

\* Numbers are compared up to EPSILON, but not those inside of a list.
values_equal(l, r) == IF IsNumber(l) /\ IsNumber(r) THEN Negligible(Difference(l, r)) ELSE l = r

Less(l, r) == l[2] * r[3] < r[2] * l[3]

Truncated(p, q) == IF p < 0 THEN -((-p) \div q) ELSE p \div q

\* expect_integral_i64: a number of 32 bits that is whole up to EPSILON.
Integral(v) == Truncated(v[2], v[3])
IsIntegral(v) ==
  /\ IsNumber(v)
  /\ Magnitude(v[2] - v[3] * Integral(v)) * EpsilonParts <= v[3]
  /\ v[2] >= (-IntMax - 1) * v[3] /\ v[2] <= IntMax * v[3]
IsIndex(v) == IsIntegral(v) /\ Integral(v) >= 0
IsShift(v) == IsIndex(v) /\ Integral(v) < 64

TwosComplement(n) == n % 2^IntBits
Signed(n) == IF n > IntMax THEN n - 2^IntBits ELSE n
ShiftRight(n, by) == IF by >= IntBits THEN (IF n < 0 THEN -1 ELSE 0) ELSE n \div 2^by
\* The remainder has the sign of the dividend.
Remainder(l, r) ==
  LET p == l[2] * r[3]  q == Magnitude(r[2] * l[3])
  IN Fraction(p - q * Truncated(p, q), l[3] * r[3])

Arithmetic(op, l, r) ==
  IF ~IsNumber(l) \/ ~IsNumber(r) \/ (op \in {"/", "%"} /\ Negligible(r)) THEN Mismatch
  ELSE CASE op = "+" -> Fraction(l[2] * r[3] + r[2] * l[3], l[3] * r[3])
         [] op = "-" -> Difference(l, r)
         [] op = "*" -> Fraction(l[2] * r[2], l[3] * r[3])
         [] op = "/" -> Fraction(l[2] * r[3], l[3] * r[2])
         [] op = "%" -> Remainder(l, r)

\* Equality is of any values, an order of numbers only.
Comparable(op, l, r) == op \in {"==", "!="} \/ (IsNumber(l) /\ IsNumber(r))

\* Mutant of Compare: "<=" is taken for "<".
CompareMutant(op, l, r) ==
  IF ~Comparable(op, l, r) THEN Mismatch
  ELSE CASE op = "==" -> Bool(values_equal(l, r))
         [] op = "!=" -> Bool(~values_equal(l, r))
         [] op = ">=" -> Bool(~Less(l, r))
         [] op \in {"<=", "<"} -> Bool(Less(l, r))
         [] op = ">" -> Bool(Less(r, l))

Compare(op, l, r) ==
  IF ~Comparable(op, l, r) THEN Mismatch
  ELSE CASE op = "==" -> Bool(values_equal(l, r))
         [] op = "!=" -> Bool(~values_equal(l, r))
         [] op = "<=" -> Bool(~Less(r, l))
         [] op = ">=" -> Bool(~Less(l, r))
         [] op = "<"  -> Bool(Less(l, r))
         [] op = ">"  -> Bool(Less(r, l))

BinaryValue(op, l, r) ==
  CASE op \in Levels[ComparisonLevel] -> Compare(op, l, r)
    [] op = "&"  -> IF IsIntegral(l) /\ IsIntegral(r)
                    THEN Number(Signed(TwosComplement(Integral(l)) & TwosComplement(Integral(r)))) ELSE Mismatch
    [] op = ">>" -> IF IsIntegral(l) /\ IsShift(r) THEN Number(ShiftRight(Integral(l), Integral(r))) ELSE Mismatch
    [] OTHER -> Arithmetic(op, l, r)

-----------------------------------------------------------------------------
(* The built-in functions. *)

\* Where a text occurs in another, counted from zero.
Places(needle, text) ==
  {i \in 0 .. Len(text) - Len(needle) : SubSeq(text, i + 1, i + Len(needle)) = needle}
First(places) == IF places = {} THEN -1 ELSE CHOOSE i \in places : \A j \in places : i <= j

\* (The names of facts are texts of one character.)
has_parse_fact(name) ==
  \E fact \in Facts :
    \/ name = <<"header">> /\ fact.kind = "header"
    \/ name = <<"encryption">> /\ fact.kind = "encryption" /\ fact.encrypted
    \/ name = <<"streamLengthMismatch">> /\ fact.kind = "length" /\ fact.declared # fact.discovered

collection_len(v) == IF IsText(v) \/ IsList(v) THEN Number(Len(v[2])) ELSE Mismatch

\* The places of a value in a list, or of a text in a text.
Finds(collection, v) ==
  IF IsList(collection) THEN {i \in 0 .. Len(collection[2]) - 1 : values_equal(collection[2][i + 1], v)}
  ELSE Places(v[2], collection[2])
Compatible(collection, v) == IsList(collection) \/ (IsText(collection) /\ IsText(v))

RegexError(pattern, text) ==
  IF Len(pattern) > MaxPattern \/ Len(text) > MaxHaystack THEN Error("budget")
  ELSE IF pattern \in BadPatterns THEN Error("field")
  ELSE Null

RECURSIVE Pieces(_, _)
Pieces(text, separator) ==
  LET at == First(Places(separator, text))
  IN IF at = -1 THEN <<Text(text)>>
     ELSE <<Text(SubSeq(text, 1, at))>> \o
          Pieces(SubSeq(text, at + 1 + Len(separator), Len(text)), separator)

split_string(text, separator) ==
  IF separator = <<>> THEN Mismatch
  ELSE IF Len(Pieces(text, separator)) > MaxParts THEN Error("budget")
  ELSE <<"List", Pieces(text, separator)>>

ByRegex(function) == function \in {"filterMatches", "filterNotMatches"}

Kept(function, v, predicates) ==
  CASE function = "filterEquals"     -> v \in ToSet(predicates)
    [] function = "filterNotEquals"  -> v \notin ToSet(predicates)
    [] function = "filterMatches"    -> Places(predicates[1][2], v[2]) # {}
    [] function = "filterNotMatches" -> Places(predicates[1][2], v[2]) = {}

\* What one element of a filtered list stops the filter with.
ElementError(function, v, predicates) ==
  IF ~IsText(v) THEN Mismatch
  ELSE IF ByRegex(function) /\ predicates = <<>> THEN Mismatch
  ELSE IF ByRegex(function) THEN RegexError(predicates[1][2], v[2])
  ELSE Null

filter_values(function, collection, predicates) ==
  LET errors == SelectSeq(collection[2],
                          LAMBDA v : IsError(ElementError(function, v, predicates)))
  IN IF ~IsList(collection) THEN Mismatch
     ELSE IF errors # <<>> THEN ElementError(function, errors[1], predicates)
     ELSE <<"List", SelectSeq(collection[2], LAMBDA v : Kept(function, v, predicates))>>

\* The arguments a built-in insists on; a filter and all and exists take any.
Arity(function) ==
  CASE function \in {"hasParseFact", "size", "isEmpty", "abs"} -> {1}
    [] function \in {"contains", "matches", "split", "slice", "indexOf", "search"} -> {2}
    [] OTHER -> 1 .. 9

\* A built-in on its evaluated arguments.
CallValue(function, args) ==
  LET a == args[1]  b == args[2]  others == Tail(args)
      texts == IsText(a) /\ IsText(b)
  IN CASE function = "hasParseFact" -> IF IsText(a) THEN Bool(has_parse_fact(a[2])) ELSE Mismatch
       [] function = "size" -> collection_len(a)
       [] function = "isEmpty" ->
            IF IsError(collection_len(a)) THEN Mismatch ELSE Bool(Len(a[2]) = 0)
       [] function = "abs" -> IF IsNumber(a) THEN <<"Number", Magnitude(a[2]), a[3]>> ELSE Mismatch
       [] function = "contains" -> IF Compatible(a, b) THEN Bool(Finds(a, b) # {}) ELSE Mismatch
       [] function = "indexOf" -> IF Compatible(a, b) THEN Number(First(Finds(a, b))) ELSE Mismatch
       [] function = "matches" ->
            IF ~texts THEN Mismatch
            ELSE IF IsError(RegexError(a[2], b[2])) THEN RegexError(a[2], b[2])
            ELSE Bool(Places(a[2], b[2]) # {})
       [] function = "search" ->
            IF ~texts THEN Mismatch
            ELSE IF IsError(RegexError(b[2], a[2])) THEN RegexError(b[2], a[2])
            ELSE Number(First(Places(b[2], a[2])))
       [] function = "split" -> IF texts THEN split_string(a[2], b[2]) ELSE Mismatch
       [] function = "slice" ->
            IF (IsText(a) \/ IsList(a)) /\ IsIndex(b)
            THEN <<a[1], SubSeq(a[2], Integral(b) + 1, Len(a[2]))>> ELSE Mismatch
       [] function = "findIndexEquals" ->
            IF IsList(a) /\ \A i \in DOMAIN others : IsText(others[i])
            THEN Number(First({i \in 0 .. Len(a[2]) - 1 : a[2][i + 1] \in ToSet(others)}))
            ELSE Mismatch
       [] OTHER -> IF \A i \in DOMAIN others : IsText(others[i]) THEN filter_values(function, a, others)
                   ELSE Mismatch

-----------------------------------------------------------------------------
(* Property paths. *)

link_target(type, link) ==
  IF type \in DOMAIN LinksTo /\ link \in DOMAIN LinksTo[type] THEN LinksTo[type][link] ELSE "none"

\* ModelObjectRef::property.
ObjectProperty(o, name) ==
  IF name \in DOMAIN Properties[o] THEN model_value(Properties[o][name]) ELSE Error("unknown property")

\* One link from one object: every linked object of the target's type,
\* whichever link it is linked by.
LinkedBy(o, link) ==
  IF link_target(TypeOf[o], link) = "none" THEN Error("unknown link")
  ELSE IF link \notin Carried[o] THEN Error("unmaterialized link")
  ELSE IF Len(Linked[o]) > MaxLinked THEN Error("budget")
  ELSE <<"Objects", SelectSeq(Linked[o], LAMBDA d : TypeOf[d] = link_target(TypeOf[o], link))>>

\* The first error of a sequence of values, or the sequence.
Gather(kind, vs) ==
  LET errors == SelectSeq(vs, IsError) IN IF errors # <<>> THEN errors[1] ELSE <<kind, vs>>

FollowLink(candidates, link) ==
  LET found == Gather("Found", [i \in DOMAIN candidates |-> LinkedBy(candidates[i], link)])
      next == FlattenSeq([i \in DOMAIN candidates |-> found[2][i][2]])
  IN IF IsError(found) THEN found
     ELSE IF Len(next) > MaxLinked THEN Error("budget")
     ELSE <<"Objects", next>>

PathProperty(o, path) ==
  LET ends == FoldLeft(LAMBDA c, link : IF IsError(c) THEN c ELSE FollowLink(c[2], link),
                       <<"Objects", <<o>> >>, Front(path))
      values == Gather("List", [i \in DOMAIN ends[2] |-> ObjectProperty(ends[2][i], Last(path))])
  IN IF Len(path) = 1 THEN ObjectProperty(o, path[1])
     ELSE IF IsError(ends) THEN ends
     ELSE IF ends[2] = <<>> THEN Null
     ELSE IF IsError(values) THEN values
     ELSE IF Len(ends[2]) = 1 THEN values[2][1]
     ELSE values

-----------------------------------------------------------------------------
(* DefaultRuleEvaluator::eval. *)

expect_bool(r) == IF IsError(r[1]) \/ IsBool(r[1]) THEN r ELSE <<Mismatch, r[2]>>
\* The next step, unless this one failed.
Then(r, step(_)) == IF IsError(r[1]) THEN r ELSE step(r)
Returns(v, r) == <<v, r[2]>>

RECURSIVE eval(_, _, _, _), EvalAll(_, _, _, _, _), Fold(_, _, _, _, _)

\* The arguments in order, stopping at the first error.
EvalAll(o, es, depth, used, values) ==
  IF es = <<>> THEN << <<"Values", values>>, used>>
  ELSE LET r == eval(o, Head(es), depth, used)
       IN IF IsError(r[1]) THEN r ELSE EvalAll(o, Tail(es), depth, r[2], Append(values, r[1]))

\* "&&", "||", all and exists stop at the first operand equal to stop.
Fold(o, es, depth, used, stop) ==
  IF es = <<>> THEN <<Bool(~stop), used>>
  ELSE Then(expect_bool(eval(o, Head(es), depth, used)),
            LAMBDA r : IF r[1] = Bool(stop) THEN r ELSE Fold(o, Tail(es), depth, r[2], stop))

eval(o, e, depth, used) ==
  LET n == used + 1
      Strict(es, Value(_)) ==
        Then(EvalAll(o, es, depth + 1, n, <<>>), LAMBDA r : Returns(Value(r[1][2]), r))
  IN IF n > MaxInstructions THEN <<Error("budget"), n>>
     ELSE IF depth > MaxDepth THEN <<Error("budget"), n>>
     ELSE IF e[1] = "Literal" THEN <<e[2], n>>
     ELSE IF e[1] = "Property" THEN <<PathProperty(o, e[2]), n>>
     ELSE IF e[1] = "Unsupported" THEN <<Error("unsupported"), n>>
     ELSE IF e[1] = "Not" THEN
            Then(expect_bool(eval(o, e[2], depth + 1, n)), LAMBDA r : Returns(Bool(~r[1][2]), r))
     ELSE IF e[1] = "Conditional" THEN
            Then(expect_bool(eval(o, e[2], depth + 1, n)),
                 LAMBDA r : eval(o, IF IsTrue(r[1]) THEN e[3] ELSE e[4], depth + 1, r[2]))
     ELSE IF e[1] = "Binary" /\ e[2] \in {"&&", "||"} THEN
            Fold(o, <<e[3], e[4]>>, depth + 1, n, e[2] = "||")
     ELSE IF e[1] = "Binary" THEN Strict(<<e[3], e[4]>>, LAMBDA vs : BinaryValue(e[2], vs[1], vs[2]))
     ELSE IF e[2] \in {"all", "exists"} THEN Fold(o, e[3], depth + 1, n, e[2] = "exists")
     ELSE IF Len(e[3]) \notin Arity(e[2]) THEN <<Mismatch, n>>
     ELSE Strict(e[3], LAMBDA vs : CallValue(e[2], vs))

\* Mutant of evaluate: the counter of the rule before is kept.
evaluateMutant(o, test, counted) == expect_bool(eval(o, test, 0, counted))

\* RuleEvaluator::evaluate: the instructions counted for earlier rules are
\* forgotten.
evaluate(o, test, counted) == expect_bool(eval(o, test, 0, 0))

=============================================================================
