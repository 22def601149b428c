------------------------- MODULE ContentStreamProofs -------------------------
(***************************************************************************)
(* Proofs about the summary of a content stream, for every stream and      *)
(* every limit: the two records of the nesting of marked content agree,    *)
(* the caps hold, and the spans and the depth warning are those that       *)
(* counting operators gives.                                               *)
(***************************************************************************)
EXTENDS ContentStream, FiniteSetTheorems, TLAPS

IsSeq(s) == \E S : s \in Seq(S)

\* What the state must be for the stacks to be what they are meant to be.
ShapeInv ==
    /\ content \in Contents /\ pos \in Nat \ {0}
    /\ IsSeq(operands) /\ IsSeq(spans)
    /\ \A i \in DOMAIN spans : "nesting_depth" \in DOMAIN spans[i]
    /\ operand_bytes \in Nat /\ graphics_depth \in Nat /\ operators_seen \in Nat
    /\ marked_depth \in Nat /\ marked_stack \in Seq(Nat)

StreamInv == ShapeInv /\ StacksAgree /\ WithinLimits

-----------------------------------------------------------------------------
(* Sequences. *)

\* Appending to a sequence, whatever it holds.
LEMMA AppendFacts ==
    ASSUME NEW s, IsSeq(s), NEW e
    PROVE  /\ IsSeq(Append(s, e)) /\ Len(s) \in Nat
           /\ DOMAIN s = 1..Len(s) /\ DOMAIN Append(s, e) = 1..Len(s) + 1
           /\ Len(Append(s, e)) = Len(s) + 1
           /\ \A i \in 1..Len(s) : Append(s, e)[i] = s[i]
           /\ Append(s, e)[Len(s) + 1] = e
<1>1. PICK S : s \in Seq(S)
    BY DEF IsSeq
<1>2. s \in Seq(S \cup {e}) /\ e \in S \cup {e}
    <2>1. \A i \in 1..Len(s) : s[i] \in S \cup {e}
        BY <1>1
    <2> QED BY <1>1, <2>1
<1>3. Append(s, e) \in Seq(S \cup {e})
    BY <1>2
<1>4. IsSeq(Append(s, e))
    BY <1>3 DEF IsSeq
<1> QED BY <1>2, <1>3, <1>4

\* The empty sequence.
LEMMA EmptyFacts == IsSeq(<<>>) /\ Len(<<>>) = 0 /\ DOMAIN (<<>>) = {}
<1>1. <<>> \in Seq({}) /\ Len(<<>>) = 0 /\ DOMAIN (<<>>) = {}
    OBVIOUS
<1> QED BY <1>1 DEF IsSeq

-----------------------------------------------------------------------------
(* Steps. *)

\* Marking the active spans changes no nesting.
LEMMA MarkedKeeps ==
    ASSUME ShapeInv, NEW field \in {"has_text", "has_image"}, Marked(field)
    PROVE  /\ IsSeq(spans') /\ DOMAIN spans' = DOMAIN spans
           /\ \A i \in DOMAIN spans :
                 /\ "nesting_depth" \in DOMAIN spans'[i]
                 /\ spans'[i].nesting_depth = spans[i].nesting_depth
<1>1. Len(spans) \in Nat /\ DOMAIN spans = 1..Len(spans)
    BY AppendFacts DEF ShapeInv
<1> DEFINE new(i) == IF \E k \in DOMAIN marked_stack : marked_stack[k] = i
                     THEN [spans[i] EXCEPT ![field] = TRUE] ELSE spans[i]
<1>2. spans' = [i \in 1..Len(spans) |-> new(i)]
    BY <1>1 DEF Marked
<1>3. \A i \in DOMAIN spans : /\ "nesting_depth" \in DOMAIN new(i)
                              /\ new(i).nesting_depth = spans[i].nesting_depth
    BY DEF ShapeInv
<1>4. spans' \in Seq({new(i) : i \in 1..Len(spans)})
    <2> HIDE DEF new
    <2>1. \A i \in 1..Len(spans) : new(i) \in {new(j) : j \in 1..Len(spans)}
        OBVIOUS
    <2> QED BY <1>1, <1>2, <2>1
<1> HIDE DEF new
<1> QED BY <1>1, <1>2, <1>3, <1>4 DEF IsSeq

\* The effect of an operator on the operands and the counter.
LEMMA ExecutedKeeps ==
    ASSUME ShapeInv, WithinLimits, IsOperator, NEW family, Executed(family)
    PROVE  /\ content' = content /\ IsSeq(operands') /\ Len(operands') = 0
           /\ operand_bytes' = 0
           /\ operators_seen' \in Nat /\ operators_seen' <= MaxOps
<1>1. operands' = <<>> /\ operators_seen' = operators_seen + 1 /\ operand_bytes' = 0 /\ content' = content
    BY DEF Executed
<1> QED BY <1>1, EmptyFacts, ContentLimits DEF ShapeInv, IsOperator

\* Operators that leave the nesting of marked content alone.
LEMMA SameNesting ==
    ASSUME StreamInv, UNCHANGED <<marked_depth, marked_stack>>,
           DOMAIN spans' = DOMAIN spans, IsSeq(spans'),
           \A i \in DOMAIN spans : /\ "nesting_depth" \in DOMAIN spans'[i]
                                   /\ spans'[i].nesting_depth = spans[i].nesting_depth
    PROVE  /\ StacksAgree' /\ IsSeq(spans')
           /\ \A i \in DOMAIN spans' : "nesting_depth" \in DOMAIN spans'[i]
           /\ marked_depth' \in Nat /\ marked_stack' \in Seq(Nat)
BY DEF StreamInv, StacksAgree, ShapeInv

\* BMC and BDC push the new span one deeper.
LEMMA BeginStep ==
    ASSUME StreamInv, BeginMarkedContent
    PROVE  /\ StacksAgree' /\ IsSeq(spans')
           /\ \A i \in DOMAIN spans' : "nesting_depth" \in DOMAIN spans'[i]
           /\ marked_depth' \in Nat /\ marked_stack' \in Seq(Nat)
<1> DEFINE n == Len(spans)
           m == Len(marked_stack)
<1>1. PICK s : /\ spans' = Append(spans, s) /\ "nesting_depth" \in DOMAIN s
               /\ s.nesting_depth = marked_depth'
    BY DEF BeginMarkedContent
<1>2. /\ marked_depth' = marked_depth + 1 /\ marked_stack' = Append(marked_stack, n + 1)
      /\ marked_depth \in Nat /\ marked_stack \in Seq(Nat) /\ m \in Nat /\ marked_depth = m
    BY DEF BeginMarkedContent, StreamInv, ShapeInv, StacksAgree
<1>3. /\ IsSeq(spans') /\ n \in Nat /\ DOMAIN spans = 1..n /\ DOMAIN spans' = 1..n + 1
      /\ \A i \in 1..n : spans'[i] = spans[i]
      /\ spans'[n + 1] = s
    BY <1>1, AppendFacts DEF StreamInv, ShapeInv
<1>4. /\ marked_stack' \in Seq(Nat) /\ Len(marked_stack') = m + 1
      /\ DOMAIN marked_stack = 1..m /\ DOMAIN marked_stack' = 1..m + 1
      /\ \A k \in 1..m : marked_stack'[k] = marked_stack[k]
      /\ marked_stack'[m + 1] = n + 1
    BY <1>2, <1>3
<1> HIDE DEF n, m
<1>5. \A i \in DOMAIN spans' : "nesting_depth" \in DOMAIN spans'[i]
    BY <1>1, <1>3 DEF StreamInv, ShapeInv
<1>6. \A k \in 1..m : /\ marked_stack[k] \in 1..n /\ spans[marked_stack[k]].nesting_depth = k
                      /\ \A j \in 1..k - 1 : marked_stack[j] < marked_stack[k]
    BY <1>3, <1>4 DEF StreamInv, StacksAgree
<1>7. ASSUME NEW k \in 1..m + 1
      PROVE  /\ marked_stack'[k] \in DOMAIN spans' /\ spans'[marked_stack'[k]].nesting_depth = k
             /\ \A j \in 1..k - 1 : marked_stack'[j] < marked_stack'[k]
    <2>1. CASE k \in 1..m
        <3>1. \A j \in 1..k - 1 : j \in 1..m
            BY <2>1, <1>2
        <3> QED BY <1>3, <1>4, <1>6, <2>1, <3>1
    <2>2. CASE k = m + 1
        <3>1. \A j \in 1..k - 1 : j \in 1..m
            BY <2>2, <1>2
        <3>2. \A j \in 1..m : marked_stack'[j] < n + 1
            BY <1>3, <1>4, <1>6
        <3> QED BY <1>1, <1>2, <1>3, <1>4, <2>2, <3>1, <3>2
    <2>3. m \in Nat
        BY <1>2
    <2>4. k \in 1..m \/ k = m + 1
        BY <2>3
    <2> QED BY <2>1, <2>2, <2>4
<1>8. StacksAgree'
    <2>1. marked_depth' = Len(marked_stack')
        BY <1>2, <1>4
    <2> QED BY <1>4, <1>7, <2>1 DEF StacksAgree
<1> QED BY <1>2, <1>3, <1>4, <1>5, <1>8

\* EMC pops at most what there is.
LEMMA EndStep ==
    ASSUME StreamInv, EndMarkedContent
    PROVE  StacksAgree' /\ marked_depth' \in Nat /\ marked_stack' \in Seq(Nat)
<1> DEFINE m == Len(marked_stack)
<1>1. /\ UNCHANGED spans
      /\ marked_depth \in Nat /\ marked_stack \in Seq(Nat) /\ m \in Nat /\ marked_depth = m
      /\ marked_depth' = (IF marked_depth = 0 THEN 0 ELSE marked_depth - 1)
      /\ marked_stack' = (IF marked_stack = <<>> THEN <<>> ELSE SubSeq(marked_stack, 1, m - 1))
    BY DEF EndMarkedContent, StreamInv, ShapeInv, StacksAgree
<1>2. CASE marked_stack = <<>>
    BY <1>1, <1>2 DEF StreamInv, StacksAgree
<1>3. CASE marked_stack # <<>>
    <2>1. m > 0 /\ m - 1 \in Nat
        BY <1>1, <1>3
    <2>2. /\ marked_stack' \in Seq(Nat) /\ Len(marked_stack') = m - 1
          /\ \A k \in 1..m - 1 : marked_stack'[k] = marked_stack[k]
        BY <1>1, <1>3, <2>1
    <2>3. /\ DOMAIN marked_stack' = 1..m - 1 /\ DOMAIN marked_stack = 1..m
          /\ marked_depth' = m - 1
        BY <1>1, <2>1, <2>2
    <2> HIDE DEF m
    <2>4. \A k \in 1..m - 1 : \A j \in 1..k - 1 : j \in 1..m - 1 /\ k \in 1..m
        <3>1. m \in Nat BY <1>1
        <3> QED BY <2>1, <3>1
    <2> QED BY <1>1, <2>1, <2>2, <2>3, <2>4 DEF StreamInv, StacksAgree
<1> QED BY <1>2, <1>3

\* Every step of the reader keeps the invariant.
LEMMA ReadStep == StreamInv /\ [Read]_stream_vars => StreamInv'
<1> SUFFICES ASSUME StreamInv, [Read]_stream_vars PROVE StreamInv'
    OBVIOUS
<1>0. ContentLimits /\ ShapeInv /\ StacksAgree /\ WithinLimits
    BY ContentLimits DEF StreamInv
<1>a. UNCHANGED <<marked_depth, marked_stack, spans>> =>
          /\ StacksAgree' /\ IsSeq(spans')
          /\ \A i \in DOMAIN spans' : "nesting_depth" \in DOMAIN spans'[i]
          /\ marked_depth' \in Nat /\ marked_stack' \in Seq(Nat)
    BY <1>0 DEF ShapeInv, StacksAgree
<1>b. /\ pos \in Nat \ {0} /\ pos + 1 \in Nat \ {0}
      /\ More => /\ tok.len \in Nat
    <2>1. Len(content) \in Nat /\ DOMAIN content = 1..Len(content)
          /\ \A i \in DOMAIN content : content[i] \in Token(content[i].kind)
        BY <1>0, ContentTokens DEF ShapeInv
    <2>2. pos \in Nat \ {0} BY <1>0 DEF ShapeInv
    <2>3. More => tok \in Token(tok.kind) BY <2>1, <2>2 DEF More, tok
    <2> QED BY <2>2, <2>3 DEF Token
<1>1. CASE TakeOperand
    <2>1. /\ UNCHANGED <<content, graphics_depth, marked_depth, marked_stack, operators_seen, spans>>
          /\ pos' = pos + 1 /\ More
        BY <1>1 DEF TakeOperand
    <2>2. CASE Len(operands) >= MaxOperands \/ operand_bytes + tok.len > MaxOperandBytes
        <3>1. operands' = <<>> /\ operand_bytes' = 0
            BY <1>1, <2>2 DEF TakeOperand
        <3> QED BY <1>0, <1>a, <1>b, <2>1, <3>1, EmptyFacts
                DEF StreamInv, ShapeInv, WithinLimits, ContentLimits
    <2>3. CASE ~(Len(operands) >= MaxOperands \/ operand_bytes + tok.len > MaxOperandBytes)
        <3>1. operands' = Append(operands, tok) /\ operand_bytes' = operand_bytes + tok.len
            BY <1>1, <2>3 DEF TakeOperand
        <3>2. IsSeq(operands') /\ Len(operands') = Len(operands) + 1 /\ Len(operands) \in Nat
            BY <1>0, <3>1, AppendFacts DEF ShapeInv
        <3>3. Len(operands') <= MaxOperands /\ operand_bytes' <= MaxOperandBytes /\ operand_bytes' \in Nat
            BY <1>0, <1>b, <2>1, <2>3, <3>1, <3>2 DEF ShapeInv, ContentLimits
        <3> QED BY <1>0, <1>a, <1>b, <2>1, <3>2, <3>3 DEF StreamInv, ShapeInv, WithinLimits
    <2> QED BY <2>2, <2>3
<1>2. CASE TokenFails \/ CapReached \/ EndOfStream \/ UNCHANGED stream_vars
    <2>1. UNCHANGED <<content, pos, operands, operand_bytes, graphics_depth, marked_depth,
                      marked_stack, operators_seen, spans>>
        BY <1>2 DEF TokenFails, CapReached, EndOfStream, stream_vars
    <2> QED BY <1>0, <1>a, <2>1 DEF StreamInv, ShapeInv, WithinLimits
<1>3. CASE InlineImageFails
    <2>1. /\ UNCHANGED <<content, pos, operands, operand_bytes, graphics_depth, marked_depth,
                         marked_stack, spans>>
          /\ operators_seen' = operators_seen + 1 /\ operators_seen < MaxOps
        BY <1>3 DEF InlineImageFails, IsOperator
    <2> QED BY <1>0, <1>a, <2>1 DEF StreamInv, ShapeInv, WithinLimits, ContentLimits
<1>4. CASE PlainOperator
    <2>1. /\ IsOperator /\ Executed(FamilyOf(tok.val)) /\ pos' = pos + 1
          /\ UNCHANGED <<graphics_depth, marked_depth, marked_stack, spans>>
        BY <1>4 DEF PlainOperator
    <2>2. /\ content' = content /\ IsSeq(operands') /\ Len(operands') = 0 /\ operand_bytes' = 0
          /\ operators_seen' \in Nat /\ operators_seen' <= MaxOps
        BY <1>0, <2>1, ExecutedKeeps
    <2> QED BY <1>0, <1>a, <1>b, <2>1, <2>2 DEF StreamInv, ShapeInv, WithinLimits, ContentLimits
<1>5. CASE ShowText \/ InvokeXObject \/ InlineImage
    <2>1. PICK family : Executed(family)
        BY <1>5 DEF ShowText, InvokeXObject, InlineImage
    <2>2. /\ IsOperator /\ UNCHANGED <<graphics_depth, marked_depth, marked_stack>>
          /\ (\E field \in {"has_text", "has_image"} : Marked(field)) \/ UNCHANGED spans
        BY <1>5 DEF ShowText, InvokeXObject, InlineImage
    <2>3. pos' \in Nat \ {0}
        <3>1. CASE ShowText \/ InvokeXObject
            BY <1>b, <3>1 DEF ShowText, InvokeXObject
        <3>2. CASE InlineImage
            <4>1. PICK i \in EndOfImage : pos' = i + 1
                BY <3>2 DEF InlineImage
            <4>2. i \in pos + 1..Len(content)
                BY <4>1 DEF EndOfImage
            <4>3. Len(content) \in Nat
                BY <1>0, ContentTokens DEF ShapeInv
            <4> QED BY <1>b, <4>1, <4>2, <4>3
        <3> QED BY <1>5, <3>1, <3>2
    <2>4. /\ content' = content /\ IsSeq(operands') /\ Len(operands') = 0 /\ operand_bytes' = 0
          /\ operators_seen' \in Nat /\ operators_seen' <= MaxOps
        BY <1>0, <2>1, <2>2, ExecutedKeeps
    <2>5. /\ StacksAgree' /\ IsSeq(spans')
          /\ \A i \in DOMAIN spans' : "nesting_depth" \in DOMAIN spans'[i]
          /\ marked_depth' \in Nat /\ marked_stack' \in Seq(Nat)
        <3>1. CASE UNCHANGED spans
            BY <1>a, <2>2, <3>1
        <3>2. CASE \E field \in {"has_text", "has_image"} : Marked(field)
            <4>1. PICK field \in {"has_text", "has_image"} : Marked(field)
                BY <3>2
            <4> QED BY <1>0, <2>2, <4>1, MarkedKeeps, SameNesting
        <3> QED BY <2>2, <3>1, <3>2
    <2> QED BY <1>0, <2>2, <2>3, <2>4, <2>5 DEF StreamInv, ShapeInv, WithinLimits, ContentLimits
<1>6. CASE BeginMarkedContent \/ EndMarkedContent
    <2>1. /\ IsOperator /\ Executed("markedContent") /\ pos' = pos + 1 /\ UNCHANGED graphics_depth
        BY <1>6 DEF BeginMarkedContent, EndMarkedContent
    <2>2. /\ content' = content /\ IsSeq(operands') /\ Len(operands') = 0 /\ operand_bytes' = 0
          /\ operators_seen' \in Nat /\ operators_seen' <= MaxOps
        BY <1>0, <2>1, ExecutedKeeps
    <2>3. EndMarkedContent => UNCHANGED spans
        BY DEF EndMarkedContent
    <2>4. /\ StacksAgree' /\ IsSeq(spans')
          /\ \A i \in DOMAIN spans' : "nesting_depth" \in DOMAIN spans'[i]
          /\ marked_depth' \in Nat /\ marked_stack' \in Seq(Nat)
        BY <1>0, <1>6, <2>3, BeginStep, EndStep DEF ShapeInv
    <2> QED BY <1>0, <1>b, <2>1, <2>2, <2>4 DEF StreamInv, ShapeInv, WithinLimits, ContentLimits
<1>7. CASE SaveState \/ RestoreState
    <2>1. /\ IsOperator /\ Executed("graphicsState") /\ pos' = pos + 1
          /\ UNCHANGED <<marked_depth, marked_stack, spans>>
          /\ \/ graphics_depth' = graphics_depth
             \/ graphics_depth < MaxDepth /\ graphics_depth' = graphics_depth + 1
             \/ graphics_depth # 0 /\ graphics_depth' = graphics_depth - 1
             \/ graphics_depth' = 0
        <3>1. CASE SaveState
            <4>1. graphics_depth >= MaxDepth \/ graphics_depth < MaxDepth
                BY <1>0 DEF ShapeInv, ContentLimits
            <4> QED BY <3>1, <4>1 DEF SaveState
        <3>2. CASE RestoreState
            BY <3>2 DEF RestoreState
        <3> QED BY <1>7, <3>1, <3>2
    <2>2. /\ content' = content /\ IsSeq(operands') /\ Len(operands') = 0 /\ operand_bytes' = 0
          /\ operators_seen' \in Nat /\ operators_seen' <= MaxOps
        BY <1>0, <2>1, ExecutedKeeps
    <2>3. graphics_depth' \in Nat /\ graphics_depth' <= MaxDepth
        BY <1>0, <2>1 DEF ShapeInv, WithinLimits, ContentLimits
    <2> QED BY <1>0, <1>a, <1>b, <2>1, <2>2, <2>3 DEF StreamInv, ShapeInv, WithinLimits, ContentLimits
<1> QED BY <1>1, <1>2, <1>3, <1>4, <1>5, <1>6, <1>7 DEF Read

\* A stream that is opened has nothing on its stacks.
LEMMA OpenStream == ASSUME NEW c \in Contents, Open(c) PROVE StreamInv
<1>1. /\ content = c /\ pos = 1 /\ operands = <<>> /\ operand_bytes = 0 /\ graphics_depth = 0
      /\ marked_depth = 0 /\ marked_stack = <<>> /\ operators_seen = 0 /\ spans = <<>>
    BY DEF Open
<1> QED BY <1>1, EmptyFacts, ContentLimits
        DEF StreamInv, ShapeInv, StacksAgree, WithinLimits

\* The invariant holds while any stream is read.
LEMMA StreamInvariant == StreamSpec => []StreamInv
<1>1. (\E c \in Contents : Open(c)) => StreamInv
    BY OpenStream
<1> QED BY <1>1, ReadStep, PTL DEF StreamSpec

-----------------------------------------------------------------------------
\* The depth counter of marked content and the stack of open spans, which the
\* code keeps apart, agree after every token of every stream, EMC without BMC
\* and spans that never end included.
THEOREM StacksAgreeAlways == StreamSpec => []StacksAgree
<1>1. StreamInv => StacksAgree
    BY DEF StreamInv
<1> QED BY <1>1, StreamInvariant, PTL

\* Operators, operands, their bytes and the graphics-state depth stay within
\* the limits of summarize_content_stream for every stream and limit.
THEOREM WithinLimitsAlways == StreamSpec => []WithinLimits
<1>1. StreamInv => WithinLimits
    BY DEF StreamInv
<1> QED BY <1>1, StreamInvariant, PTL

-----------------------------------------------------------------------------
(* What the summary says of the stream. *)

\* Whether span i is on the stack, and whether an operator of these families
\* lies between fact b and the end of the span that begins there.
OnStack(i) == \E k \in DOMAIN marked_stack : marked_stack[k] = i
HoldsSome(families, b) ==
    \E j \in b + 1..Len(facts) : facts[j].family \in families /\ OpenAt(b, j)

\* How much deeper marked content and the graphics state are after fact b than
\* before fact a.
MarkedRise(a, b) == Count(MarkedBeginOps, a, b) - Count({"EMC"}, a, b)
StateRise(a, b) == Count({"q"}, a, b) - Count({"Q"}, a, b)

\* One fact per operator, each at its own position before the next token.
FactsInOrder ==
    /\ IsSeq(facts)
    /\ \A n \in DOMAIN facts : facts[n].at \in Nat /\ facts[n].at < pos
    /\ \A m, n \in DOMAIN facts : facts[m].at = facts[n].at => m = n

SpanFields == {"nesting_depth", "mcid", "properties", "properties_name",
               "has_text", "has_image", "at"}
SpanShape(s) ==
    DOMAIN s = SpanFields /\ s.has_text \in BOOLEAN /\ s.has_image \in BOOLEAN

\* A span is on the stack as long as its end has not come, as many levels below
\* the top as marked content has deepened since, and its flags are exact so far.
SpanFits(i, b) ==
    /\ OnStack(i) <=> OpenAt(b, Len(facts))
    /\ \A k \in DOMAIN marked_stack :
          marked_stack[k] = i => Len(marked_stack) - k = MarkedRise(b + 1, Len(facts))
    /\ spans[i].has_text = TRUE <=> HoldsSome({"textShow"}, b)
    /\ spans[i].has_image = TRUE <=> HoldsSome({"xObject", "inlineImage"}, b)

SpansInv ==
    /\ \A i \in DOMAIN spans : SpanShape(spans[i])
    /\ \A i \in DOMAIN spans : \E b \in DOMAIN facts : facts[b].at = spans[i].at
    /\ \A i \in DOMAIN spans : \A b \in DOMAIN facts :
          facts[b].at = spans[i].at => SpanFits(i, b)

\* Until the warning, the depth is the largest rise of any stretch up to here,
\* and no stretch rose above the cap.
TooDeep == \E a \in DOMAIN facts : \E b \in a..Len(facts) : StateRise(a, b) > MaxDepth
DepthInv ==
    /\ "depth" \in warnings <=> TooDeep
    /\ "depth" \notin warnings =>
          /\ \A a \in 1..Len(facts) + 1 : StateRise(a, Len(facts)) <= graphics_depth
          /\ \E a \in 1..Len(facts) + 1 : StateRise(a, Len(facts)) = graphics_depth

MarkingInv == FactsInOrder /\ SpansInv /\ DepthInv

\* A count is a number, and 0 over no facts.
LEMMA CountType ==
    ASSUME NEW ops, NEW a \in Int, NEW b \in Int
    PROVE  Count(ops, a, b) \in Nat /\ (b < a => Count(ops, a, b) = 0)
<1> DEFINE S == {i \in a..b : facts[i].op \in ops}
<1>1. IsFiniteSet(a..b)
    BY FS_Interval
<1>2. IsFiniteSet(S) /\ Cardinality(S) \in Nat
    <2>1. S \subseteq a..b
        OBVIOUS
    <2> QED BY <1>1, <2>1, FS_Subset, FS_CardinalityType
<1>3. b < a => Cardinality(S) = 0
    <2>1. b < a => S = {}
        OBVIOUS
    <2> QED BY <2>1, FS_EmptySet
<1> QED BY <1>2, <1>3 DEF Count

\* A fact that is appended changes no earlier count.
LEMMA CountBefore ==
    ASSUME IsSeq(facts), NEW f, facts' = Append(facts, f), NEW n, n = Len(facts),
           NEW ops, NEW a \in 1..n + 1, NEW b \in 0..n
    PROVE  Count(ops, a, b)' = Count(ops, a, b)
<1>1. n \in Nat /\ \A i \in 1..n : facts'[i] = facts[i]
    BY AppendFacts
<1>2. \A i \in a..b : i \in 1..n
    BY <1>1
<1>3. {i \in a..b : facts'[i].op \in ops} = {i \in a..b : facts[i].op \in ops}
    BY <1>1, <1>2
<1> QED BY <1>3 DEF Count

\* A fact that is appended counts as one more.
LEMMA CountAppend ==
    ASSUME IsSeq(facts), NEW f, facts' = Append(facts, f), NEW n, n = Len(facts),
           NEW ops, NEW a \in 1..n + 1
    PROVE  Count(ops, a, n + 1)' = Count(ops, a, n) + (IF f.op \in ops THEN 1 ELSE 0)
<1>1. /\ n \in Nat /\ DOMAIN facts' = 1..n + 1 /\ facts'[n + 1] = f
      /\ \A i \in 1..n : facts'[i] = facts[i]
    BY AppendFacts
<1> DEFINE S == {i \in a..n : facts[i].op \in ops}
           T == {i \in a..n + 1 : facts'[i].op \in ops}
<1>3. T = IF f.op \in ops THEN S \cup {n + 1} ELSE S
    <2>1. \A i \in a..n + 1 : i = n + 1 \/ (i \in a..n /\ i \in 1..n)
        BY <1>1
    <2>2. n + 1 \in a..n + 1 /\ \A i \in a..n : i \in a..n + 1 /\ i # n + 1 /\ i \in 1..n
        BY <1>1
    <2> QED BY <1>1, <2>1, <2>2
<1>4. IsFiniteSet(S) /\ Cardinality(S) \in Nat
    <2>1. S \subseteq a..n /\ a \in Int /\ n \in Int
        BY <1>1
    <2>2. IsFiniteSet(a..n)
        BY <2>1, FS_Interval
    <2> QED BY <2>1, <2>2, FS_Subset, FS_CardinalityType
<1>5. n + 1 \notin S
    BY <1>1
<1>6. Cardinality(T) = Cardinality(S) + (IF f.op \in ops THEN 1 ELSE 0)
    <2> HIDE DEF S, T
    <2>1. Cardinality(S \cup {n + 1}) = Cardinality(S) + 1
        BY <1>4, <1>5, FS_AddElement
    <2> QED BY <1>3, <1>4, <2>1
<1> QED BY <1>6 DEF Count

\* A new fact closes a span when it leaves fewer begins than ends.
LEMMA OpenAppend ==
    ASSUME IsSeq(facts), NEW f, facts' = Append(facts, f), NEW n, n = Len(facts),
           NEW b \in 1..n
    PROVE  /\ OpenAt(b, n + 1)' <=> OpenAt(b, n) /\ MarkedRise(b + 1, n + 1)' >= 0
           /\ MarkedRise(b + 1, n) \in Int
           /\ f.op \in MarkedBeginOps => MarkedRise(b + 1, n + 1)' = MarkedRise(b + 1, n) + 1
           /\ f.op = "EMC" => MarkedRise(b + 1, n + 1)' = MarkedRise(b + 1, n) - 1
           /\ f.op \notin MarkedBeginOps \cup {"EMC"} =>
                 MarkedRise(b + 1, n + 1)' = MarkedRise(b + 1, n)
<1>1. n \in Nat /\ b + 1 \in 1..n + 1
    BY AppendFacts
<1> DEFINE begins(k) == Count(MarkedBeginOps, b + 1, k)
           ends(k) == Count({"EMC"}, b + 1, k)
<1>2. \A k \in 0..n : begins(k)' = begins(k) /\ ends(k)' = ends(k)
    <2>1. ASSUME NEW k \in 0..n PROVE begins(k)' = begins(k)
        BY <1>1, CountBefore
    <2>2. ASSUME NEW k \in 0..n PROVE ends(k)' = ends(k)
        BY <1>1, CountBefore
    <2> QED BY <2>1, <2>2
<1>3. /\ begins(n + 1)' = begins(n) + (IF f.op \in MarkedBeginOps THEN 1 ELSE 0)
      /\ ends(n + 1)' = ends(n) + (IF f.op = "EMC" THEN 1 ELSE 0)
    <2>1. begins(n + 1)' = begins(n) + (IF f.op \in MarkedBeginOps THEN 1 ELSE 0)
        BY <1>1, CountAppend
    <2>2. ends(n + 1)' = ends(n) + (IF f.op \in {"EMC"} THEN 1 ELSE 0)
        BY <1>1, CountAppend
    <2> QED BY <2>1, <2>2
<1>4. begins(n) \in Nat /\ ends(n) \in Nat
    BY <1>1, CountType
<1>6. /\ MarkedRise(b + 1, n + 1)' = begins(n + 1)' - ends(n + 1)'
      /\ MarkedRise(b + 1, n) = begins(n) - ends(n)
    BY DEF MarkedRise
<1>7. OpenAt(b, n + 1)' <=> OpenAt(b, n) /\ ends(n + 1)' <= begins(n + 1)'
    <2>1. \A k : k \in b + 1..n + 1 <=> k \in b + 1..n \/ k = n + 1
        BY <1>1
    <2>2. \A k \in b + 1..n : k \in 0..n
        BY <1>1
    <2> QED BY <1>2, <2>1, <2>2 DEF OpenAt
<1> HIDE DEF begins, ends
<1>8. begins(n + 1)' \in Nat /\ ends(n + 1)' \in Nat
    BY <1>3, <1>4
<1>9. /\ MarkedRise(b + 1, n + 1)' =
            MarkedRise(b + 1, n) + (IF f.op \in MarkedBeginOps THEN 1 ELSE 0)
                                 - (IF f.op = "EMC" THEN 1 ELSE 0)
      /\ MarkedRise(b + 1, n) \in Int
    BY <1>3, <1>4, <1>6
<1>10. MarkedRise(b + 1, n + 1)' >= 0 <=> ends(n + 1)' <= begins(n + 1)'
    BY <1>6, <1>8
<1> QED BY <1>7, <1>9, <1>10 DEF MarkedBeginOps

\* Whether a span is still open at an earlier fact stays as it was.
LEMMA OpenBefore ==
    ASSUME IsSeq(facts), NEW f, facts' = Append(facts, f), NEW n, n = Len(facts),
           NEW b \in 1..n, NEW j \in 0..n
    PROVE  OpenAt(b, j)' <=> OpenAt(b, j)
<1>1. n \in Nat /\ b + 1 \in 1..n + 1 /\ \A k \in b + 1..j : k \in 0..n
    BY AppendFacts
<1>2. ASSUME NEW k \in b + 1..j
      PROVE  /\ Count(MarkedBeginOps, b + 1, k)' = Count(MarkedBeginOps, b + 1, k)
             /\ Count({"EMC"}, b + 1, k)' = Count({"EMC"}, b + 1, k)
    BY <1>1, CountBefore
<1> QED BY <1>2 DEF OpenAt

\* What a span holds grows by the new fact if the span is still open there.
LEMMA HoldsAppend ==
    ASSUME IsSeq(facts), NEW f, facts' = Append(facts, f), NEW n, n = Len(facts),
           NEW families, NEW b \in 1..n
    PROVE  HoldsSome(families, b)' <=>
              HoldsSome(families, b) \/ (f.family \in families /\ OpenAt(b, n + 1)')
<1>1. /\ n \in Nat /\ Len(facts') = n + 1 /\ facts'[n + 1] = f
      /\ \A i \in 1..n : facts'[i] = facts[i]
    BY AppendFacts
<1>2. \A j : j \in b + 1..n + 1 <=> j \in b + 1..n \/ j = n + 1
    BY <1>1
<1>3. ASSUME NEW j \in b + 1..n
      PROVE  /\ OpenAt(b, j)' <=> OpenAt(b, j)
             /\ facts'[j] = facts[j]
    <2>1. j \in 0..n /\ j \in 1..n
        BY <1>1
    <2> QED BY <1>1, <2>1, OpenBefore
<1>4. HoldsSome(families, b)' <=>
        \E j \in b + 1..n + 1 : facts'[j].family \in families /\ OpenAt(b, j)'
    BY <1>1 DEF HoldsSome
<1>5. HoldsSome(families, b) <=>
        \E j \in b + 1..n : facts[j].family \in families /\ OpenAt(b, j)
    BY DEF HoldsSome
<1> QED BY <1>1, <1>2, <1>3, <1>4, <1>5

\* The new fact keeps the facts in order.
LEMMA OrderAppend ==
    ASSUME FactsInOrder, NEW f, facts' = Append(facts, f), f.at = pos,
           pos \in Nat, pos' \in Nat, pos < pos'
    PROVE  FactsInOrder' /\ \A n \in DOMAIN facts : facts'[n] = facts[n] /\ facts[n].at # pos
<1> DEFINE n == Len(facts)
<1>1. /\ n \in Nat /\ DOMAIN facts = 1..n /\ DOMAIN facts' = 1..n + 1 /\ IsSeq(facts')
      /\ facts'[n + 1] = f /\ \A i \in 1..n : facts'[i] = facts[i]
    BY AppendFacts DEF FactsInOrder
<1> HIDE DEF n
<1>2. \A i \in 1..n : facts[i].at \in Nat /\ facts[i].at < pos
    BY <1>1 DEF FactsInOrder
<1>3. \A i \in 1..n + 1 : i \in 1..n \/ i = n + 1
    BY <1>1
<1>4. \A i \in 1..n + 1 : facts'[i].at \in Nat /\ facts'[i].at < pos'
    BY <1>1, <1>2, <1>3
<1>5. ASSUME NEW i \in 1..n + 1, NEW j \in 1..n + 1, facts'[i].at = facts'[j].at
      PROVE  i = j
    <2>1. CASE i \in 1..n /\ j \in 1..n
        BY <1>1, <1>5, <2>1 DEF FactsInOrder
    <2>2. CASE i \in 1..n /\ j = n + 1
        BY <1>1, <1>2, <1>5, <2>2
    <2>3. CASE j \in 1..n /\ i = n + 1
        BY <1>1, <1>2, <1>5, <2>3
    <2> QED BY <1>3, <2>1, <2>2, <2>3
<1> QED BY <1>1, <1>2, <1>4, <1>5 DEF FactsInOrder

\* A span that is open so far has seen as many begins as ends at least.
LEMMA OpenRises ==
    ASSUME NEW b \in Nat, NEW n \in Nat, OpenAt(b, n)
    PROVE  MarkedRise(b + 1, n) >= 0
<1>1. CASE b + 1 <= n
    <2>1. n \in b + 1..n
        BY <1>1
    <2>2. Count(MarkedBeginOps, b + 1, n) \in Nat /\ Count({"EMC"}, b + 1, n) \in Nat
        BY CountType
    <2> QED BY <2>1, <2>2 DEF OpenAt, MarkedRise
<1>2. CASE n < b + 1
    <2>1. Count(MarkedBeginOps, b + 1, n) = 0 /\ Count({"EMC"}, b + 1, n) = 0
        BY <1>2, CountType
    <2> QED BY <2>1 DEF MarkedRise
<1> QED BY <1>1, <1>2

\* The facts with the new one, which alone is at the current position.
LEMMA NewFact ==
    ASSUME FactsInOrder, NEW f, facts' = Append(facts, f), pos \in Nat, NEW n, n = Len(facts)
    PROVE  /\ n \in Nat /\ DOMAIN facts = 1..n /\ DOMAIN facts' = 1..n + 1
           /\ Len(facts') = n + 1 /\ facts'[n + 1] = f
           /\ \A b \in 1..n : facts'[b] = facts[b] /\ facts[b].at # pos
<1>1. /\ n \in Nat /\ DOMAIN facts = 1..n /\ DOMAIN facts' = 1..n + 1
      /\ Len(facts') = n + 1 /\ facts'[n + 1] = f
      /\ \A b \in 1..n : facts'[b] = facts[b]
    BY AppendFacts DEF FactsInOrder
<1>2. \A b \in 1..n : facts[b].at \in Nat /\ facts[b].at < pos
    BY <1>1 DEF FactsInOrder
<1> QED BY <1>1, <1>2

\* An operator that neither begins nor ends a span keeps them exact: the spans on
\* the stack take its mark, no other span does.
LEMMA QuietSpans ==
    ASSUME FactsInOrder, SpansInv, IsSeq(spans), NEW f, facts' = Append(facts, f), f.at = pos,
           pos \in Nat, pos' \in Nat, pos < pos',
           f.op \notin MarkedBeginOps, f.op # "EMC", marked_stack' = marked_stack,
           marked_stack \in Seq(Nat),
           DOMAIN spans' = DOMAIN spans,
           \A i \in DOMAIN spans :
              /\ SpanShape(spans'[i]) /\ spans'[i].at = spans[i].at
              /\ spans'[i].has_text = TRUE <=>
                    spans[i].has_text = TRUE \/ (f.family = "textShow" /\ OnStack(i))
              /\ spans'[i].has_image = TRUE <=>
                    \/ spans[i].has_image = TRUE
                    \/ f.family \in {"xObject", "inlineImage"} /\ OnStack(i)
    PROVE  SpansInv'
<1>1. PICK n \in Nat : n = Len(facts)
    BY AppendFacts DEF FactsInOrder
<1>2. /\ DOMAIN facts = 1..n /\ DOMAIN facts' = 1..n + 1 /\ Len(facts') = n + 1
      /\ facts'[n + 1] = f /\ \A i \in 1..n : facts'[i] = facts[i]
    BY <1>1, AppendFacts DEF FactsInOrder
<1>3. ASSUME NEW i \in DOMAIN spans, NEW b \in 1..n + 1, facts'[b].at = spans[i].at
      PROVE  b \in 1..n /\ facts[b].at = spans[i].at
    <2>1. PICK c \in 1..n : facts[c].at = spans[i].at
        BY <1>2 DEF SpansInv
    <2>2. spans[i].at # pos
        BY <1>2, <2>1 DEF FactsInOrder
    <2>3. b # n + 1
        BY <1>2, <1>3, <2>2
    <2>4. b \in 1..n
        BY <2>3
    <2> QED BY <1>2, <1>3, <2>4
<1>4. ASSUME NEW i \in DOMAIN spans, NEW b \in 1..n, facts[b].at = spans[i].at
      PROVE  SpanFits(i, b)'
    <2>1. SpanFits(i, b)
        BY <1>2, <1>4 DEF SpansInv
    <2>2. MarkedRise(b + 1, n + 1)' = MarkedRise(b + 1, n) /\ MarkedRise(b + 1, n) \in Int
          /\ (OpenAt(b, n + 1)' <=> OpenAt(b, n) /\ MarkedRise(b + 1, n + 1)' >= 0)
        <3>1. /\ IsSeq(facts) /\ facts' = Append(facts, f) /\ n = Len(facts) /\ b \in 1..n
              /\ f.op \notin MarkedBeginOps \cup {"EMC"}
            BY <1>1 DEF FactsInOrder
        <3> QED BY ONLY <3>1, OpenAppend
    <2>3. OpenAt(b, n) => MarkedRise(b + 1, n) >= 0
        BY <1>1, OpenRises
    <2>4. OpenAt(b, n + 1)' <=> OpenAt(b, n)
        BY <2>2, <2>3
    <2>5. /\ HoldsSome({"textShow"}, b)' <=>
                HoldsSome({"textShow"}, b) \/ (f.family = "textShow" /\ OpenAt(b, n + 1)')
          /\ HoldsSome({"xObject", "inlineImage"}, b)' <=>
                \/ HoldsSome({"xObject", "inlineImage"}, b)
                \/ f.family \in {"xObject", "inlineImage"} /\ OpenAt(b, n + 1)'
        <3>1. HoldsSome({"textShow"}, b)' <=>
                HoldsSome({"textShow"}, b) \/ (f.family \in {"textShow"} /\ OpenAt(b, n + 1)')
            BY <1>1, HoldsAppend DEF FactsInOrder
        <3>2. HoldsSome({"xObject", "inlineImage"}, b)' <=>
                \/ HoldsSome({"xObject", "inlineImage"}, b)
                \/ f.family \in {"xObject", "inlineImage"} /\ OpenAt(b, n + 1)'
            BY <1>1, HoldsAppend DEF FactsInOrder
        <3> QED BY <3>1, <3>2
    <2>6. OnStack(i)' <=> OnStack(i)
        BY DEF OnStack
    <2> QED BY <1>1, <1>2, <2>1, <2>2, <2>4, <2>5, <2>6 DEF SpanFits
<1>5. \A i \in DOMAIN spans' : SpanShape(spans'[i])
    OBVIOUS
<1>6. ASSUME NEW i \in DOMAIN spans' PROVE \E b \in DOMAIN facts' : facts'[b].at = spans'[i].at
    <2>1. PICK b \in 1..n : facts[b].at = spans[i].at
        BY <1>2 DEF SpansInv
    <2>2. b \in DOMAIN facts' /\ facts'[b] = facts[b]
        BY ONLY <1>2, <2>1
    <2>3. spans'[i].at = spans[i].at
        OBVIOUS
    <2> QED BY ONLY <2>1, <2>2, <2>3
<1>7. ASSUME NEW i \in DOMAIN spans', NEW b \in DOMAIN facts', facts'[b].at = spans'[i].at
      PROVE  SpanFits(i, b)'
    BY <1>2, <1>3, <1>4, <1>7
<1> QED BY <1>5, <1>6, <1>7 DEF SpansInv

\* A fact whose operator shows nothing changes what no span holds.
LEMMA HoldsSame ==
    ASSUME IsSeq(facts), NEW f, facts' = Append(facts, f), NEW n, n = Len(facts),
           f.family = "markedContent", NEW b \in 1..n
    PROVE  /\ HoldsSome({"textShow"}, b)' <=> HoldsSome({"textShow"}, b)
           /\ HoldsSome({"xObject", "inlineImage"}, b)'
                <=> HoldsSome({"xObject", "inlineImage"}, b)
<1>1. HoldsSome({"textShow"}, b)' <=>
        HoldsSome({"textShow"}, b) \/ (f.family \in {"textShow"} /\ OpenAt(b, n + 1)')
    BY HoldsAppend
<1>2. HoldsSome({"xObject", "inlineImage"}, b)' <=>
        \/ HoldsSome({"xObject", "inlineImage"}, b)
        \/ f.family \in {"xObject", "inlineImage"} /\ OpenAt(b, n + 1)'
    BY HoldsAppend
<1> QED BY <1>1, <1>2

\* BMC and BDC: the new span is on the stack and holds nothing yet; the others
\* sink one level.
LEMMA BeginSpans ==
    ASSUME FactsInOrder, SpansInv, StacksAgree, IsSeq(spans), marked_stack \in Seq(Nat),
           NEW f, facts' = Append(facts, f), f.at = pos, f.op \in MarkedBeginOps,
           f.family = "markedContent", pos \in Nat, pos' \in Nat, pos < pos',
           NEW s, spans' = Append(spans, s), SpanShape(s), s.at = pos,
           s.has_text = FALSE, s.has_image = FALSE,
           NEW h, h = Len(spans), marked_stack' = Append(marked_stack, h + 1)
    PROVE  SpansInv'
<1>1. PICK n \in Nat : n = Len(facts)
    BY AppendFacts DEF FactsInOrder
<1>2. /\ DOMAIN facts = 1..n /\ DOMAIN facts' = 1..n + 1 /\ Len(facts') = n + 1
      /\ facts'[n + 1] = f /\ \A b \in 1..n : facts'[b] = facts[b] /\ facts[b].at # pos
    BY <1>1, NewFact
<1>3. /\ h \in Nat /\ DOMAIN spans = 1..h /\ DOMAIN spans' = 1..h + 1
      /\ spans'[h + 1] = s /\ \A i \in 1..h : spans'[i] = spans[i]
    BY AppendFacts
<1>4. PICK m \in Nat : m = Len(marked_stack)
    OBVIOUS
<1>5. /\ DOMAIN marked_stack = 1..m /\ DOMAIN marked_stack' = 1..m + 1
      /\ Len(marked_stack') = m + 1 /\ marked_stack'[m + 1] = h + 1
      /\ \A k \in 1..m : marked_stack'[k] = marked_stack[k] /\ marked_stack[k] \in 1..h
    <2>1. /\ DOMAIN marked_stack = 1..m /\ DOMAIN marked_stack' = 1..m + 1
          /\ Len(marked_stack') = m + 1 /\ marked_stack'[m + 1] = h + 1
          /\ \A k \in 1..m : marked_stack'[k] = marked_stack[k]
        <3>1. marked_stack \in Seq(Nat) /\ h + 1 \in Nat
              /\ marked_stack' = Append(marked_stack, h + 1)
            BY <1>3
        <3> QED BY ONLY <3>1, <1>4
    <2>2. \A k \in 1..m : marked_stack[k] \in 1..h
        BY <1>3, <2>1 DEF StacksAgree
    <2> QED BY <2>1, <2>2
<1>6. ASSUME NEW i \in 1..h, NEW b \in 1..n, facts[b].at = spans[i].at
      PROVE  SpanFits(i, b)'
    <2>1. SpanFits(i, b)
        BY <1>2, <1>3, <1>6 DEF SpansInv
    <2>2. IsSeq(facts) /\ facts' = Append(facts, f) /\ n = Len(facts) /\ b \in 1..n
        BY <1>1 DEF FactsInOrder
    <2>3. /\ MarkedRise(b + 1, n + 1)' = MarkedRise(b + 1, n) + 1
          /\ MarkedRise(b + 1, n) \in Int
          /\ OpenAt(b, n + 1)' <=> OpenAt(b, n) /\ MarkedRise(b + 1, n + 1)' >= 0
        <3>1. f.op \in MarkedBeginOps
            OBVIOUS
        <3> QED BY ONLY <2>2, <3>1, OpenAppend
    <2>4. OpenAt(b, n + 1)' <=> OpenAt(b, n)
        <3>1. OpenAt(b, n) => MarkedRise(b + 1, n) >= 0
            BY <1>1, OpenRises
        <3> QED BY <2>3, <3>1
    <2>5. /\ HoldsSome({"textShow"}, b)' <=> HoldsSome({"textShow"}, b)
          /\ HoldsSome({"xObject", "inlineImage"}, b)'
                <=> HoldsSome({"xObject", "inlineImage"}, b)
        <3>1. f.family = "markedContent"
            OBVIOUS
        <3> QED BY ONLY <2>2, <3>1, HoldsSame
    <2>6. OnStack(i)' <=> OnStack(i)
        BY <1>3, <1>5 DEF OnStack
    <2>7. ASSUME NEW k \in 1..m + 1, marked_stack'[k] = i
          PROVE  m + 1 - k = MarkedRise(b + 1, n + 1)'
        <3>1. k \in 1..m
            BY <1>3, <1>5, <2>7
        <3>2. m - k = MarkedRise(b + 1, n)
            BY <1>1, <1>4, <1>5, <2>1, <2>7, <3>1 DEF SpanFits
        <3> QED BY <2>3, <3>1, <3>2
    <2> QED BY <1>1, <1>2, <1>3, <1>5, <2>1, <2>4, <2>5, <2>6, <2>7 DEF SpanFits
<1>7. SpanFits(h + 1, n + 1)'
    <2>1. \A k \in n + 2..n + 1 : FALSE
        OBVIOUS
    <2>2. OpenAt(n + 1, n + 1)'
        BY <2>1 DEF OpenAt
    <2>3. ~HoldsSome({"textShow"}, n + 1)' /\ ~HoldsSome({"xObject", "inlineImage"}, n + 1)'
        BY <1>2, <2>1 DEF HoldsSome
    <2>4. OnStack(h + 1)'
        BY <1>5 DEF OnStack
    <2>5. MarkedRise(n + 2, n + 1)' = 0
        <3>1. n + 2 \in Int /\ n + 1 \in Int /\ n + 1 < n + 2
            OBVIOUS
        <3>2. \A ops : {j \in n + 2..n + 1 : facts'[j].op \in ops} = {}
            BY <2>1
        <3>3. Count(MarkedBeginOps, n + 2, n + 1)' = 0 /\ Count({"EMC"}, n + 2, n + 1)' = 0
            BY <3>2, FS_EmptySet DEF Count
        <3> QED BY <3>3 DEF MarkedRise
    <2>6. ASSUME NEW k \in 1..m + 1, marked_stack'[k] = h + 1 PROVE k = m + 1
        BY <1>3, <1>5, <2>6
    <2>7. (n + 1) + 1 = n + 2
        OBVIOUS
    <2>8. \A k \in DOMAIN marked_stack' : marked_stack'[k] = h + 1 =>
              Len(marked_stack') - k = MarkedRise(n + 2, n + 1)'
        BY <1>5, <2>5, <2>6
    <2>9. spans'[h + 1].has_text = FALSE /\ spans'[h + 1].has_image = FALSE
        BY <1>3
    <2> QED BY <1>2, <2>2, <2>3, <2>4, <2>7, <2>8, <2>9 DEF SpanFits
<1>8. \A i \in 1..h + 1 : i \in 1..h \/ i = h + 1
    BY <1>3
<1>9. \A b \in 1..n + 1 : b \in 1..n \/ b = n + 1
    OBVIOUS
<1>10. \A i \in DOMAIN spans' : SpanShape(spans'[i])
    BY <1>3, <1>8 DEF SpansInv
<1>11. \A i \in 1..h : \E b \in 1..n : facts[b].at = spans[i].at
    BY <1>2, <1>3 DEF SpansInv
<1>12. ASSUME NEW i \in DOMAIN spans' PROVE \E b \in DOMAIN facts' : facts'[b].at = spans'[i].at
    <2>1. CASE i = h + 1
        <3>1. n + 1 \in DOMAIN facts' /\ facts'[n + 1].at = pos /\ spans'[i].at = pos
            BY <1>2, <1>3, <2>1
        <3> QED BY <3>1
    <2>2. CASE i \in 1..h
        <3>1. PICK b \in 1..n : facts[b].at = spans[i].at
            BY <1>11, <2>2
        <3> QED BY <1>2, <1>3, <2>2, <3>1
    <2> QED BY <1>3, <1>8, <2>1, <2>2
<1>13. ASSUME NEW i \in DOMAIN spans', NEW b \in DOMAIN facts', facts'[b].at = spans'[i].at
       PROVE  SpanFits(i, b)'
    <2>1. CASE i \in 1..h /\ b \in 1..n
        BY <1>2, <1>3, <1>6, <1>13, <2>1
    <2>2. ASSUME i \in 1..h, b = n + 1 PROVE FALSE
        BY <1>2, <1>3, <1>11, <1>13, <2>2
    <2>3. ASSUME i = h + 1, b \in 1..n PROVE FALSE
        BY <1>2, <1>3, <1>13, <2>3
    <2>4. CASE i = h + 1 /\ b = n + 1
        BY <1>7, <2>4
    <2> QED BY <1>2, <1>3, <1>8, <1>9, <2>1, <2>2, <2>3, <2>4
<1> QED BY <1>10, <1>12, <1>13 DEF SpansInv

\* EMC: the span at the top, if there is one, ends here; the others rise.
LEMMA EndSpans ==
    ASSUME FactsInOrder, SpansInv, StacksAgree, marked_stack \in Seq(Nat),
           NEW f, facts' = Append(facts, f), f.at = pos, f.op = "EMC",
           f.family = "markedContent", pos \in Nat, pos' \in Nat, pos < pos', spans' = spans,
           marked_stack' = IF marked_stack = <<>> THEN <<>>
                           ELSE SubSeq(marked_stack, 1, Len(marked_stack) - 1)
    PROVE  SpansInv'
<1>1. PICK n \in Nat : n = Len(facts)
    BY AppendFacts DEF FactsInOrder
<1>2. /\ DOMAIN facts = 1..n /\ DOMAIN facts' = 1..n + 1 /\ Len(facts') = n + 1
      /\ facts'[n + 1] = f /\ \A b \in 1..n : facts'[b] = facts[b] /\ facts[b].at # pos
    BY <1>1, NewFact
<1>3. PICK m \in Nat : m = Len(marked_stack) /\ DOMAIN marked_stack = 1..m
    OBVIOUS
<1>4. /\ m = 0 => marked_stack' = <<>> /\ DOMAIN marked_stack' = {} /\ Len(marked_stack') = 0
      /\ m > 0 => /\ DOMAIN marked_stack' = 1..m - 1 /\ Len(marked_stack') = m - 1
                  /\ \A k \in 1..m - 1 : marked_stack'[k] = marked_stack[k]
    <2>1. CASE m = 0
        BY <1>3, <2>1
    <2>2. CASE m > 0
        <3>1. marked_stack # <<>> /\ m - 1 \in Nat
            BY <1>3, <2>2
        <3>2. marked_stack' = SubSeq(marked_stack, 1, m - 1)
            BY <1>3, <3>1
        <3> QED BY <1>3, <3>1, <3>2
    <2> QED BY <2>1, <2>2
<1>5. ASSUME NEW i \in DOMAIN spans, NEW b \in 1..n, facts[b].at = spans[i].at
      PROVE  SpanFits(i, b)'
    <2>1. SpanFits(i, b)
        BY <1>2, <1>5 DEF SpansInv
    <2>2. IsSeq(facts) /\ facts' = Append(facts, f) /\ n = Len(facts) /\ b \in 1..n
        BY <1>1 DEF FactsInOrder
    <2>3. /\ MarkedRise(b + 1, n + 1)' = MarkedRise(b + 1, n) - 1
          /\ MarkedRise(b + 1, n) \in Int
          /\ OpenAt(b, n + 1)' <=> OpenAt(b, n) /\ MarkedRise(b + 1, n + 1)' >= 0
        <3>1. f.op = "EMC"
            OBVIOUS
        <3> QED BY ONLY <2>2, <3>1, OpenAppend
    <2>4. /\ HoldsSome({"textShow"}, b)' <=> HoldsSome({"textShow"}, b)
          /\ HoldsSome({"xObject", "inlineImage"}, b)'
                <=> HoldsSome({"xObject", "inlineImage"}, b)
        <3>1. f.family = "markedContent"
            OBVIOUS
        <3> QED BY ONLY <2>2, <3>1, HoldsSame
    <2>5. \A k \in 1..m : marked_stack[k] = i => m - k = MarkedRise(b + 1, n)
        BY <1>1, <1>3, <2>1 DEF SpanFits
    <2>6. OnStack(i) <=> OpenAt(b, n)
        BY <1>1, <2>1 DEF SpanFits
    <2>7. ASSUME NEW k \in DOMAIN marked_stack', marked_stack'[k] = i
          PROVE  Len(marked_stack') - k = MarkedRise(b + 1, n + 1)'
        <3>1. m > 0 /\ k \in 1..m - 1 /\ k \in 1..m /\ marked_stack[k] = i
            BY <1>4, <2>7
        <3>2. m - k = MarkedRise(b + 1, n)
            BY <2>5, <3>1
        <3>3. /\ Len(marked_stack') = m - 1 /\ m \in Nat /\ k \in Nat
              /\ MarkedRise(b + 1, n + 1)' = MarkedRise(b + 1, n) - 1
            BY <1>4, <2>3, <3>1
        <3> QED BY ONLY <3>2, <3>3
    <2>8. OnStack(i)' <=> OpenAt(b, n + 1)'
        <3>1. ASSUME OnStack(i)' PROVE OpenAt(b, n + 1)'
            <4>1. PICK k \in DOMAIN marked_stack' : marked_stack'[k] = i
                BY <3>1 DEF OnStack
            <4>2. m > 0 /\ k \in 1..m - 1 /\ k \in 1..m /\ marked_stack[k] = i
                BY <1>4, <4>1
            <4>3. OnStack(i) /\ m - k = MarkedRise(b + 1, n) /\ m - k >= 1
                <5>1. OnStack(i)
                    BY <1>3, <4>2 DEF OnStack
                <5> QED BY <2>5, <4>2, <5>1
            <4> QED BY <2>3, <2>6, <4>3
        <3>2. ASSUME OpenAt(b, n + 1)' PROVE OnStack(i)'
            <4>1. OpenAt(b, n) /\ MarkedRise(b + 1, n) >= 1
                BY <2>3, <3>2
            <4>2. PICK k \in 1..m : marked_stack[k] = i
                BY <1>3, <2>6, <4>1 DEF OnStack
            <4>3. m - k >= 1 /\ m > 0 /\ k \in 1..m - 1
                BY <2>5, <4>1, <4>2
            <4>4. k \in DOMAIN marked_stack' /\ marked_stack'[k] = i
                BY <1>4, <4>2, <4>3
            <4> QED BY <4>4 DEF OnStack
        <3> QED BY <3>1, <3>2
    <2> QED BY <1>1, <1>2, <2>1, <2>4, <2>7, <2>8 DEF SpanFits
<1>6. \A i \in DOMAIN spans : \E b \in 1..n : facts[b].at = spans[i].at
    BY <1>2 DEF SpansInv
<1>7. ASSUME NEW i \in DOMAIN spans' PROVE \E b \in DOMAIN facts' : facts'[b].at = spans'[i].at
    <2>1. PICK b \in 1..n : facts[b].at = spans[i].at
        BY <1>6
    <2> QED BY <1>2, <2>1
<1>8. ASSUME NEW i \in DOMAIN spans', NEW b \in DOMAIN facts', facts'[b].at = spans'[i].at
      PROVE  SpanFits(i, b)'
    <2>1. b \in 1..n \/ b = n + 1
        BY <1>2
    <2>2. b # n + 1
        BY <1>2, <1>6, <1>8
    <2> QED BY <1>2, <1>5, <1>8, <2>1, <2>2
<1> QED BY <1>7, <1>8 DEF SpansInv

-----------------------------------------------------------------------------
(* The graphics state. *)

\* A rise is a number, and one that ended before the new fact stays as it was.
LEMMA RiseBefore ==
    ASSUME IsSeq(facts), NEW f, facts' = Append(facts, f), NEW n, n = Len(facts),
           NEW a \in 1..n + 1, NEW b \in 0..n
    PROVE  StateRise(a, b)' = StateRise(a, b) /\ StateRise(a, b) \in Int
<1>1. /\ Count({"q"}, a, b)' = Count({"q"}, a, b)
      /\ Count({"Q"}, a, b)' = Count({"Q"}, a, b)
    BY CountBefore
<1>2. Count({"q"}, a, b) \in Nat /\ Count({"Q"}, a, b) \in Nat
    BY CountType
<1> QED BY <1>1, <1>2 DEF StateRise

\* A rise that goes on over the new fact changes by what its operator does.
LEMMA RiseAppend ==
    ASSUME IsSeq(facts), NEW f, facts' = Append(facts, f), NEW n, n = Len(facts),
           NEW a \in 1..n + 1
    PROVE  /\ StateRise(a, n) \in Int
           /\ f.op = "q" => StateRise(a, n + 1)' = StateRise(a, n) + 1
           /\ f.op = "Q" => StateRise(a, n + 1)' = StateRise(a, n) - 1
           /\ f.op \notin {"q", "Q"} => StateRise(a, n + 1)' = StateRise(a, n)
<1>1. n \in Nat
    BY AppendFacts
<1>2. Count({"q"}, a, n + 1)' = Count({"q"}, a, n) + (IF f.op \in {"q"} THEN 1 ELSE 0)
    BY CountAppend
<1>3. Count({"Q"}, a, n + 1)' = Count({"Q"}, a, n) + (IF f.op \in {"Q"} THEN 1 ELSE 0)
    BY CountAppend
<1>4. Count({"q"}, a, n) \in Nat /\ Count({"Q"}, a, n) \in Nat
    BY <1>1, CountType
<1>5. /\ StateRise(a, n + 1)' = Count({"q"}, a, n + 1)' - Count({"Q"}, a, n + 1)'
      /\ StateRise(a, n) = Count({"q"}, a, n) - Count({"Q"}, a, n)
    BY DEF StateRise
<1> QED BY <1>2, <1>3, <1>4, <1>5

\* A stretch without facts does not rise.
LEMMA EmptyRise ==
    ASSUME NEW a \in Int, NEW b \in Int, b < a
    PROVE  StateRise(a, b) = 0
BY CountType DEF StateRise

\* The stretches that end at the new fact are the only new ones.
LEMMA TooDeepAppend ==
    ASSUME IsSeq(facts), NEW f, facts' = Append(facts, f), NEW n, n = Len(facts)
    PROVE  TooDeep' <=> TooDeep \/ \E a \in 1..n + 1 : StateRise(a, n + 1)' > MaxDepth
<1>1. n \in Nat /\ DOMAIN facts = 1..n /\ DOMAIN facts' = 1..n + 1 /\ Len(facts') = n + 1
    BY AppendFacts
<1>2. ASSUME NEW a \in 1..n + 1, NEW b \in 0..n
      PROVE  StateRise(a, b)' = StateRise(a, b)
    BY RiseBefore
<1>3. TooDeep' <=> \E a \in 1..n + 1 : \E b \in a..n + 1 : StateRise(a, b)' > MaxDepth
    BY <1>1 DEF TooDeep
<1>4. TooDeep <=> \E a \in 1..n : \E b \in a..n : StateRise(a, b) > MaxDepth
    BY <1>1 DEF TooDeep
<1>5. ASSUME NEW a \in 1..n + 1, NEW b \in a..n + 1
      PROVE  b = n + 1 \/ (a \in 1..n /\ b \in 0..n /\ b \in a..n)
    BY <1>1
<1>6. ASSUME NEW a \in 1..n, NEW b \in a..n
      PROVE  a \in 1..n + 1 /\ b \in a..n + 1 /\ b \in 0..n
    BY <1>1
<1>7. \A a \in 1..n + 1 : n + 1 \in a..n + 1
    BY <1>1
<1> QED BY <1>2, <1>3, <1>4, <1>5, <1>6, <1>7

\* q and Q keep the depth the largest rise, until a q at the cap warns.
LEMMA DepthStep ==
    ASSUME IsSeq(facts), DepthInv, graphics_depth \in Nat, graphics_depth <= MaxDepth,
           NEW f, facts' = Append(facts, f),
           \/ /\ f.op = "q" /\ graphics_depth >= MaxDepth
              /\ graphics_depth' = graphics_depth /\ "depth" \in warnings'
           \/ /\ f.op = "q" /\ graphics_depth < MaxDepth
              /\ graphics_depth' = graphics_depth + 1 /\ warnings' = warnings
           \/ /\ f.op = "Q" /\ warnings' = warnings
              /\ graphics_depth' = IF graphics_depth = 0 THEN 0 ELSE graphics_depth - 1
           \/ /\ f.op \notin {"q", "Q"} /\ warnings' = warnings
              /\ graphics_depth' = graphics_depth
    PROVE  DepthInv'
<1>1. PICK n \in Nat : n = Len(facts) /\ Len(facts') = n + 1
    BY AppendFacts
<1>2. MaxDepth \in Nat
    BY ContentLimits DEF ContentLimits
<1>3. TooDeep' <=> TooDeep \/ \E a \in 1..n + 1 : StateRise(a, n + 1)' > MaxDepth
    BY <1>1, TooDeepAppend
<1>4. ASSUME NEW a \in 1..n + 1
      PROVE  /\ StateRise(a, n) \in Int
             /\ f.op = "q" => StateRise(a, n + 1)' = StateRise(a, n) + 1
             /\ f.op = "Q" => StateRise(a, n + 1)' = StateRise(a, n) - 1
             /\ f.op \notin {"q", "Q"} => StateRise(a, n + 1)' = StateRise(a, n)
    BY <1>1, RiseAppend
<1>5. StateRise(n + 2, n + 1)' = 0
    <2>1. \A ops : {j \in n + 2..n + 1 : facts'[j].op \in ops} = {}
        OBVIOUS
    <2>2. Count({"q"}, n + 2, n + 1)' = 0 /\ Count({"Q"}, n + 2, n + 1)' = 0
        BY <2>1, FS_EmptySet DEF Count
    <2> QED BY <2>2 DEF StateRise
<1>6. \A a \in 1..n + 2 : a \in 1..n + 1 \/ a = n + 2
    OBVIOUS
<1>7. CASE "depth" \in warnings
    <2>1. TooDeep' /\ "depth" \in warnings'
        BY <1>3, <1>7 DEF DepthInv
    <2> QED BY <2>1 DEF DepthInv
<1>8. CASE "depth" \notin warnings
    <2>1. /\ ~TooDeep
          /\ \A a \in 1..n + 1 : StateRise(a, n) <= graphics_depth
          /\ \E a \in 1..n + 1 : StateRise(a, n) = graphics_depth
        BY <1>1, <1>8 DEF DepthInv
    <2>2. PICK top \in 1..n + 1 : StateRise(top, n) = graphics_depth
        BY <2>1
    <2>3. CASE f.op = "q" /\ graphics_depth >= MaxDepth /\ "depth" \in warnings'
        <3>1. StateRise(top, n + 1)' = graphics_depth + 1
            BY <1>4, <2>2, <2>3
        <3>2. StateRise(top, n + 1)' > MaxDepth
            BY <1>2, <2>3, <3>1
        <3> QED BY <1>3, <2>3, <3>2 DEF DepthInv
    <2>4. ASSUME warnings' = warnings, graphics_depth' \in 0..MaxDepth,
                 \A a \in 1..n + 2 : StateRise(a, n + 1)' <= graphics_depth',
                 \E a \in 1..n + 2 : StateRise(a, n + 1)' = graphics_depth'
          PROVE  DepthInv'
        <3>1. ASSUME NEW a \in 1..n + 1 PROVE ~(StateRise(a, n + 1)' > MaxDepth)
            <4>1. StateRise(a, n + 1)' \in Int /\ StateRise(a, n + 1)' <= graphics_depth'
                <5>1. StateRise(a, n + 1)' \in Int
                    <6>1. CASE f.op = "q"
                        BY <1>4, <6>1
                    <6>2. CASE f.op = "Q"
                        BY <1>4, <6>2
                    <6>3. CASE f.op \notin {"q", "Q"}
                        BY <1>4, <6>3
                    <6> QED BY <6>1, <6>2, <6>3
                <5> QED BY <2>4, <5>1
            <4> QED BY <1>2, <2>4, <4>1
        <3>2. ~TooDeep'
            BY <1>3, <2>1, <3>1
        <3>3. Len(facts') + 1 = n + 2
            BY <1>1
        <3> QED BY <1>1, <1>8, <2>4, <3>2, <3>3 DEF DepthInv
    <2>5. CASE f.op = "q" /\ graphics_depth < MaxDepth /\ graphics_depth' = graphics_depth + 1
               /\ warnings' = warnings
        <3>1. \A a \in 1..n + 1 : StateRise(a, n + 1)' <= graphics_depth'
            BY <1>4, <2>1, <2>5
        <3>2. StateRise(top, n + 1)' = graphics_depth' /\ top \in 1..n + 2
            BY <1>4, <2>2, <2>5
        <3>3. \A a \in 1..n + 2 : StateRise(a, n + 1)' <= graphics_depth'
            BY <1>5, <1>6, <2>5, <3>1
        <3> QED BY <1>2, <2>4, <2>5, <3>2, <3>3
    <2>6. CASE f.op = "Q" /\ warnings' = warnings
               /\ graphics_depth' = IF graphics_depth = 0 THEN 0 ELSE graphics_depth - 1
        <3>1. \A a \in 1..n + 1 : StateRise(a, n + 1)' <= graphics_depth'
            BY <1>4, <2>1, <2>6
        <3>2. \A a \in 1..n + 2 : StateRise(a, n + 1)' <= graphics_depth'
            BY <1>5, <1>6, <2>6, <3>1
        <3>3. \E a \in 1..n + 2 : StateRise(a, n + 1)' = graphics_depth'
            <4>1. CASE graphics_depth = 0
                <5>1. n + 2 \in 1..n + 2 /\ StateRise(n + 2, n + 1)' = graphics_depth'
                    BY <1>5, <2>6, <4>1
                <5> QED BY <5>1
            <4>2. CASE graphics_depth # 0
                <5>1. top \in 1..n + 2 /\ StateRise(top, n + 1)' = graphics_depth'
                    BY <1>4, <2>2, <2>6, <4>2
                <5> QED BY <5>1
            <4> QED BY <4>1, <4>2
        <3> QED BY <1>2, <2>4, <2>6, <3>2, <3>3
    <2>7. CASE f.op \notin {"q", "Q"} /\ warnings' = warnings
               /\ graphics_depth' = graphics_depth
        <3>1. \A a \in 1..n + 1 : StateRise(a, n + 1)' <= graphics_depth'
            BY <1>4, <2>1, <2>7
        <3>2. StateRise(top, n + 1)' = graphics_depth' /\ top \in 1..n + 2
            BY <1>4, <2>2, <2>7
        <3>3. \A a \in 1..n + 2 : StateRise(a, n + 1)' <= graphics_depth'
            BY <1>5, <1>6, <2>7, <3>1
        <3> QED BY <1>2, <2>4, <2>7, <3>2, <3>3
    <2> QED BY <2>3, <2>5, <2>6, <2>7
<1> QED BY <1>7, <1>8

-----------------------------------------------------------------------------
(* The steps of the reader. *)

\* A step that executes no operator.
LEMMA NoFact ==
    ASSUME MarkingInv, UNCHANGED <<facts, spans, marked_stack, graphics_depth>>,
           pos \in Nat, pos' \in Nat, pos <= pos',
           "depth" \in warnings' <=> "depth" \in warnings
    PROVE  MarkingInv'
<1>1. FactsInOrder'
    BY DEF MarkingInv, FactsInOrder
<1>2. ASSUME NEW i \in DOMAIN spans, NEW b \in DOMAIN facts, SpanFits(i, b)
      PROVE  SpanFits(i, b)'
    <2>1. ASSUME NEW ops, NEW x, NEW y PROVE Count(ops, x, y)' = Count(ops, x, y)
        BY DEF Count
    <2>2. ASSUME NEW j PROVE OpenAt(b, j)' <=> OpenAt(b, j)
        BY <2>1 DEF OpenAt
    <2>3. ASSUME NEW families PROVE HoldsSome(families, b)' <=> HoldsSome(families, b)
        BY <2>2 DEF HoldsSome
    <2>4. MarkedRise(b + 1, Len(facts))' = MarkedRise(b + 1, Len(facts))
        BY DEF MarkedRise, Count
    <2>5. OpenAt(b, Len(facts))' <=> OpenAt(b, Len(facts))
        BY <2>1 DEF OpenAt
    <2>6. OnStack(i)' <=> OnStack(i)
        BY DEF OnStack
    <2> QED BY <1>2, <2>3, <2>4, <2>5, <2>6 DEF SpanFits
<1>3. SpansInv'
    BY <1>2 DEF MarkingInv, SpansInv
<1>4. DepthInv'
    BY DEF MarkingInv, DepthInv, TooDeep, StateRise, Count
<1> QED BY <1>1, <1>3, <1>4 DEF MarkingInv

\* What Executed records.
LEMMA ExecutedFact ==
    ASSUME NEW family, Executed(family)
    PROVE  \E f : /\ facts' = Append(facts, f) /\ f.op = tok.val /\ f.at = pos
                  /\ f.family = family
BY DEF Executed

\* mark_active_spans sets the flag of the spans on the stack and nothing else.
LEMMA MarkedExact ==
    ASSUME \A i \in DOMAIN spans : SpanShape(spans[i]),
           NEW field \in {"has_text", "has_image"}, Marked(field)
    PROVE  /\ DOMAIN spans' = DOMAIN spans
           /\ \A i \in DOMAIN spans :
                 /\ SpanShape(spans'[i]) /\ spans'[i].at = spans[i].at
                 /\ spans'[i].has_text = TRUE <=>
                        spans[i].has_text = TRUE \/ (field = "has_text" /\ OnStack(i))
                 /\ spans'[i].has_image = TRUE <=>
                        spans[i].has_image = TRUE \/ (field = "has_image" /\ OnStack(i))
<1>1. /\ DOMAIN spans' = DOMAIN spans
      /\ \A i \in DOMAIN spans :
            spans'[i] = IF OnStack(i) THEN [spans[i] EXCEPT ![field] = TRUE] ELSE spans[i]
    BY DEF Marked, OnStack
<1>2. ASSUME NEW i \in DOMAIN spans, OnStack(i)
      PROVE  /\ SpanShape(spans'[i]) /\ spans'[i].at = spans[i].at
             /\ spans'[i].has_text = TRUE <=> spans[i].has_text = TRUE \/ field = "has_text"
             /\ spans'[i].has_image = TRUE <=> spans[i].has_image = TRUE \/ field = "has_image"
    <2>1. spans'[i] = [spans[i] EXCEPT ![field] = TRUE] /\ SpanShape(spans[i])
        BY <1>1, <1>2
    <2>2. CASE field = "has_text"
        BY <2>1, <2>2 DEF SpanShape, SpanFields
    <2>3. CASE field = "has_image"
        BY <2>1, <2>3 DEF SpanShape, SpanFields
    <2> QED BY <2>2, <2>3
<1> QED BY <1>1, <1>2

\* Operators that leave the stacks alone and mark the spans as their family says.
LEMMA QuietStep ==
    ASSUME StreamInv, MarkingInv, NEW f, facts' = Append(facts, f), f.at = pos,
           pos' \in Nat, pos < pos', f.op \notin MarkedBeginOps \cup {"EMC", "q", "Q"},
           UNCHANGED <<marked_stack, graphics_depth, warnings>>,
           \/ f.family = "textShow" /\ Marked("has_text")
           \/ f.family \in {"xObject", "inlineImage"} /\ Marked("has_image")
           \/ f.family \notin {"textShow", "xObject", "inlineImage"} /\ UNCHANGED spans
    PROVE  MarkingInv'
<1>1. /\ FactsInOrder /\ SpansInv /\ DepthInv /\ IsSeq(spans) /\ IsSeq(facts)
      /\ marked_stack \in Seq(Nat) /\ pos \in Nat
      /\ graphics_depth \in Nat /\ graphics_depth <= MaxDepth
      /\ \A i \in DOMAIN spans : SpanShape(spans[i])
    BY DEF StreamInv, ShapeInv, WithinLimits, MarkingInv, FactsInOrder, SpansInv
<1>2. FactsInOrder'
    BY <1>1, OrderAppend
<1>3. /\ DOMAIN spans' = DOMAIN spans
      /\ \A i \in DOMAIN spans :
            /\ SpanShape(spans'[i]) /\ spans'[i].at = spans[i].at
            /\ spans'[i].has_text = TRUE <=>
                    spans[i].has_text = TRUE \/ (f.family = "textShow" /\ OnStack(i))
            /\ spans'[i].has_image = TRUE <=>
                    \/ spans[i].has_image = TRUE
                    \/ f.family \in {"xObject", "inlineImage"} /\ OnStack(i)
    <2>1. CASE f.family = "textShow" /\ Marked("has_text")
        BY <1>1, <2>1, MarkedExact
    <2>2. CASE f.family \in {"xObject", "inlineImage"} /\ Marked("has_image")
        BY <1>1, <2>2, MarkedExact
    <2>3. CASE f.family \notin {"textShow", "xObject", "inlineImage"} /\ UNCHANGED spans
        BY <1>1, <2>3
    <2> QED BY <2>1, <2>2, <2>3
<1>4. SpansInv'
    BY <1>1, <1>3, QuietSpans
<1>5. DepthInv'
    BY <1>1, DepthStep
<1> QED BY <1>2, <1>4, <1>5 DEF MarkingInv

\* Every step of the reader keeps the summary exact.
LEMMA MarkingStep == StreamInv /\ MarkingInv /\ [Read]_stream_vars => MarkingInv'
<1> SUFFICES ASSUME StreamInv, MarkingInv, [Read]_stream_vars PROVE MarkingInv'
    OBVIOUS
<1>0. /\ FactsInOrder /\ SpansInv /\ DepthInv /\ IsSeq(spans) /\ IsSeq(facts)
      /\ StacksAgree /\ marked_stack \in Seq(Nat) /\ pos \in Nat /\ pos + 1 \in Nat
      /\ pos < pos + 1 /\ graphics_depth \in Nat /\ graphics_depth <= MaxDepth
    BY DEF StreamInv, ShapeInv, WithinLimits, MarkingInv, FactsInOrder
<1>1. CASE \/ TakeOperand \/ TokenFails \/ InlineImageFails \/ CapReached \/ EndOfStream
           \/ UNCHANGED stream_vars
    <2>1. /\ UNCHANGED <<facts, spans, marked_stack, graphics_depth>>
          /\ pos' = pos \/ pos' = pos + 1
          /\ "depth" \in warnings' <=> "depth" \in warnings
        BY <1>1 DEF TakeOperand, TokenFails, InlineImageFails, CapReached, EndOfStream,
            stream_vars
    <2> QED BY <1>0, <2>1, NoFact
<1>2. CASE PlainOperator
    <2>1. PICK f : /\ facts' = Append(facts, f) /\ f.op = tok.val /\ f.at = pos
                   /\ f.family = FamilyOf(tok.val)
        BY <1>2, ExecutedFact DEF PlainOperator
    <2>2. /\ tok.val \notin TextShowOps \cup MarkedBeginOps \cup {"EMC", "q", "Q", "Do", "BI"}
          /\ pos' = pos + 1
          /\ UNCHANGED <<marked_stack, graphics_depth, warnings, spans>>
        BY <1>2 DEF PlainOperator
    <2>3. FamilyOf(tok.val) \notin {"textShow", "xObject", "inlineImage"}
        BY <2>2 DEF FamilyOf
    <2> QED BY <1>0, <2>1, <2>2, <2>3, QuietStep
<1>3. CASE ShowText
    <2>1. PICK f : /\ facts' = Append(facts, f) /\ f.op = tok.val /\ f.at = pos
                   /\ f.family = "textShow"
        BY <1>3, ExecutedFact DEF ShowText
    <2>2. /\ tok.val \notin MarkedBeginOps \cup {"EMC", "q", "Q"} /\ Marked("has_text")
          /\ pos' = pos + 1 /\ UNCHANGED <<marked_stack, graphics_depth, warnings>>
        BY <1>3 DEF ShowText, TextShowOps, MarkedBeginOps
    <2> QED BY <1>0, <2>1, <2>2, QuietStep
<1>4. CASE InvokeXObject
    <2>1. \/ Executed("unknown") /\ UNCHANGED spans
          \/ Executed("xObject") /\ Marked("has_image")
        BY <1>4 DEF InvokeXObject
    <2>2. PICK f : /\ facts' = Append(facts, f) /\ f.op = tok.val /\ f.at = pos
                   /\ \/ f.family = "unknown" /\ UNCHANGED spans
                      \/ f.family = "xObject" /\ Marked("has_image")
        BY <2>1, ExecutedFact
    <2>3. /\ tok.val \notin MarkedBeginOps \cup {"EMC", "q", "Q"}
          /\ pos' = pos + 1 /\ UNCHANGED <<marked_stack, graphics_depth, warnings>>
        BY <1>4 DEF InvokeXObject, MarkedBeginOps
    <2> QED BY <1>0, <2>2, <2>3, QuietStep
<1>5. CASE InlineImage
    <2>1. PICK f : /\ facts' = Append(facts, f) /\ f.op = tok.val /\ f.at = pos
                   /\ f.family = "inlineImage"
        BY <1>5, ExecutedFact DEF InlineImage
    <2>2. /\ tok.val \notin MarkedBeginOps \cup {"EMC", "q", "Q"} /\ Marked("has_image")
          /\ UNCHANGED <<marked_stack, graphics_depth, warnings>>
        BY <1>5 DEF InlineImage, MarkedBeginOps
    <2>3. pos' \in Nat /\ pos < pos'
        <3>1. PICK i \in pos + 1..Len(content) : pos' = i + 1
            BY <1>5 DEF InlineImage, EndOfImage
        <3> QED BY <1>0, <3>1
    <2> QED BY <2>1, <2>2, <2>3, QuietStep
<1>6. CASE BeginMarkedContent
    <2>1. PICK f : /\ facts' = Append(facts, f) /\ f.op = tok.val /\ f.at = pos
                   /\ f.family = "markedContent"
        BY <1>6, ExecutedFact DEF BeginMarkedContent
    <2>2. /\ f.op \in MarkedBeginOps /\ pos' = pos + 1
          /\ UNCHANGED <<graphics_depth, warnings>>
          /\ marked_stack' = Append(marked_stack, Len(spans) + 1)
        BY <1>6, <2>1 DEF BeginMarkedContent
    <2>3. PICK s : /\ spans' = Append(spans, s) /\ SpanShape(s) /\ s.at = pos
                   /\ s.has_text = FALSE /\ s.has_image = FALSE
        <3> DEFINE new == [nesting_depth |-> marked_depth', mcid |-> inline_mcid(operands),
                           properties |-> properties_reference(operands),
                           properties_name |-> properties_name(operands),
                           has_text |-> FALSE, has_image |-> FALSE, at |-> pos]
        <3>1. spans' = Append(spans, new)
            BY <1>6 DEF BeginMarkedContent
        <3>2. /\ SpanShape(new) /\ new.at = pos
              /\ new.has_text = FALSE /\ new.has_image = FALSE
            BY DEF SpanShape, SpanFields
        <3> QED BY <3>1, <3>2
    <2>4. FactsInOrder'
        BY <1>0, <2>1, <2>2, OrderAppend
    <2>5. SpansInv'
        BY <1>0, <2>1, <2>2, <2>3, BeginSpans
    <2>6. DepthInv'
        <3>1. f.op \notin {"q", "Q"}
            BY <2>2 DEF MarkedBeginOps
        <3> QED BY <1>0, <2>1, <2>2, <3>1, DepthStep
    <2> QED BY <2>4, <2>5, <2>6 DEF MarkingInv
<1>7. CASE EndMarkedContent
    <2>1. PICK f : /\ facts' = Append(facts, f) /\ f.op = "EMC" /\ f.at = pos
                   /\ f.family = "markedContent"
        BY <1>7, ExecutedFact DEF EndMarkedContent
    <2>2. /\ pos' = pos + 1 /\ UNCHANGED <<graphics_depth, warnings, spans>>
          /\ marked_stack' = IF marked_stack = <<>> THEN <<>>
                             ELSE SubSeq(marked_stack, 1, Len(marked_stack) - 1)
        BY <1>7 DEF EndMarkedContent
    <2>3. FactsInOrder'
        BY <1>0, <2>1, <2>2, OrderAppend
    <2>4. SpansInv'
        BY <1>0, <2>1, <2>2, EndSpans
    <2>5. DepthInv'
        BY <1>0, <2>1, <2>2, DepthStep
    <2> QED BY <2>3, <2>4, <2>5 DEF MarkingInv
<1>8. CASE SaveState \/ RestoreState
    <2>1. PICK f : /\ facts' = Append(facts, f) /\ f.op = tok.val /\ f.at = pos
                   /\ f.family = "graphicsState"
        BY <1>8, ExecutedFact DEF SaveState, RestoreState
    <2>2. /\ f.op \in {"q", "Q"} /\ pos' = pos + 1 /\ UNCHANGED <<marked_stack, spans>>
        BY <1>8, <2>1 DEF SaveState, RestoreState
    <2>3. FactsInOrder'
        BY <1>0, <2>1, <2>2, OrderAppend
    <2>4. SpansInv'
        <3>1. \A i \in DOMAIN spans : SpanShape(spans[i])
            BY <1>0 DEF SpansInv
        <3>2. f.op \notin MarkedBeginOps /\ f.op # "EMC"
            BY <2>2 DEF MarkedBeginOps
        <3> QED BY <1>0, <2>1, <2>2, <3>1, <3>2, QuietSpans
    <2>5. DepthInv'
        <3>1. CASE SaveState
            <4>1. f.op = "q"
                BY <2>1, <3>1 DEF SaveState
            <4>2. CASE graphics_depth >= MaxDepth
                BY <1>0, <2>1, <3>1, <4>1, <4>2, DepthStep DEF SaveState
            <4>3. CASE ~(graphics_depth >= MaxDepth)
                <5>1. graphics_depth < MaxDepth
                    BY <1>0, <4>3, ContentLimits DEF ContentLimits
                <5> QED BY <1>0, <2>1, <3>1, <4>1, <4>3, <5>1, DepthStep DEF SaveState
            <4> QED BY <4>2, <4>3
        <3>2. CASE RestoreState
            BY <1>0, <2>1, <3>2, DepthStep DEF RestoreState
        <3> QED BY <1>8, <3>1, <3>2
    <2> QED BY <2>3, <2>4, <2>5 DEF MarkingInv
<1> QED BY <1>1, <1>2, <1>3, <1>4, <1>5, <1>6, <1>7, <1>8 DEF Read

\* A stream that is opened has told nothing yet.
LEMMA OpenMarking == ASSUME NEW c \in Contents, Open(c) PROVE MarkingInv
<1>1. /\ pos = 1 /\ graphics_depth = 0 /\ marked_stack = <<>> /\ facts = <<>> /\ spans = <<>>
      /\ warnings = {}
    BY DEF Open
<1>2. FactsInOrder /\ SpansInv
    BY <1>1, EmptyFacts DEF FactsInOrder, SpansInv
<1>3. DepthInv
    <2>1. ~TooDeep
        BY <1>1, EmptyFacts DEF TooDeep
    <2>2. Len(facts) = 0 /\ StateRise(1, Len(facts)) = 0
        BY <1>1, EmptyFacts, EmptyRise
    <2>3. \A a \in 1..Len(facts) + 1 : a = 1
        BY <2>2
    <2> QED BY <1>1, <2>1, <2>2, <2>3 DEF DepthInv
<1> QED BY <1>2, <1>3 DEF MarkingInv

\* The summary is exact for every stream and every limit: a span claims text or
\* an image exactly when one is shown between its begin and its end, and the cap
\* on the graphics state warns exactly when some stretch nests deeper than it.
THEOREM MarkingExactAlways == StreamSpec => []MarkingExact
<1>1. (\E c \in Contents : Open(c)) => StreamInv /\ MarkingInv
    BY OpenStream, OpenMarking
<1>2. StreamInv /\ MarkingInv /\ [Read]_stream_vars => (StreamInv /\ MarkingInv)'
    BY ReadStep, MarkingStep
<1>3. MarkingInv => MarkingExact
    <2> SUFFICES ASSUME MarkingInv PROVE SpansExact /\ DepthWarningExact
        BY DEF MarkingExact
    <2>1. DepthWarningExact
        BY DEF MarkingInv, DepthInv, TooDeep, StateRise, DepthWarningExact
    <2>2. ASSUME NEW i \in DOMAIN spans,
                 NEW b, b = CHOOSE n \in DOMAIN facts : facts[n].at = spans[i].at
          PROVE  /\ spans[i].has_text =
                        (\E j \in b + 1..Len(facts) :
                            facts[j].family \in {"textShow"} /\ OpenAt(b, j))
                 /\ spans[i].has_image =
                        (\E j \in b + 1..Len(facts) :
                            facts[j].family \in {"xObject", "inlineImage"} /\ OpenAt(b, j))
        <3>1. b \in DOMAIN facts /\ facts[b].at = spans[i].at
            BY <2>2 DEF MarkingInv, SpansInv
        <3>2. SpanFits(i, b) /\ spans[i].has_text \in BOOLEAN /\ spans[i].has_image \in BOOLEAN
            BY <3>1 DEF MarkingInv, SpansInv, SpanShape
        <3>3. /\ spans[i].has_text = TRUE <=> HoldsSome({"textShow"}, b)
              /\ spans[i].has_image = TRUE <=> HoldsSome({"xObject", "inlineImage"}, b)
            BY <3>2 DEF SpanFits
        <3>4. /\ spans[i].has_text = HoldsSome({"textShow"}, b)
              /\ spans[i].has_image = HoldsSome({"xObject", "inlineImage"}, b)
            <4>1. ASSUME NEW x \in BOOLEAN, NEW P \in BOOLEAN, x = TRUE <=> P PROVE x = P
                BY <4>1
            <4>2. HoldsSome({"textShow"}, b) \in BOOLEAN
                  /\ HoldsSome({"xObject", "inlineImage"}, b) \in BOOLEAN
                BY DEF HoldsSome
            <4> QED BY <3>2, <3>3, <4>1, <4>2, Zenon
        <3> QED BY <3>4 DEF HoldsSome
    <2>3. SpansExact
        BY <2>2 DEF SpansExact
    <2> QED BY <2>1, <2>3
<1> QED BY <1>1, <1>2, <1>3, PTL DEF StreamSpec
=============================================================================
