--------------------------- MODULE ContentStream ---------------------------
(***************************************************************************)
(* The summary of one decoded content stream (content.rs,                  *)
(* summarize_content_stream): tokens are read one at a time, operands are  *)
(* collected until an operator uses them, and q/Q and marked-content       *)
(* operators keep two stacks. The summary is what the rules and the        *)
(* accessibility tree later see of the stream.                             *)
(*                                                                         *)
(* A stream is a sequence of tokens [kind, val, len]: operands are names,  *)
(* integers, keywords, dictionaries (val is the MCID they hold or None)    *)
(* and other bytes; operators carry their name; "bad" is any byte sequence *)
(* the tokenizer rejects. Offsets are token positions.                     *)
(***************************************************************************)
EXTENDS Integers, Sequences, FiniteSets

CONSTANTS Contents,         \* the streams to read
          Names,            \* names that occur as operands
          None,             \* an absent value
          MaxOps,           \* limits.max_content_stream_ops
          MaxOperands,      \* limits.max_content_stream_operand_count
          MaxOperandBytes,  \* limits.max_content_stream_operand_bytes
          MaxDepth,         \* limits.max_graphics_state_depth
          MaxImage          \* limits.max_inline_image_bytes, in tokens

ASSUME ContentLimits ==
    {MaxOps, MaxOperands, MaxOperandBytes, MaxDepth, MaxImage} \subseteq Nat

Kinds == {"name", "int", "bytes", "dict", "keyword", "op", "bad"}

ValsOf(k) == CASE k = "name" -> Names
               [] k = "int" -> Int
               [] k = "dict" -> Int \cup {None}
               [] k \in {"keyword", "op"} -> STRING
               [] OTHER -> {None}

Token(k) == [kind : {k}, val : ValsOf(k), len : Nat]

ASSUME ContentTokens ==
    \A c \in Contents :
        /\ Len(c) \in Nat /\ DOMAIN c = 1..Len(c)
        /\ \A i \in DOMAIN c : c[i] \in Token(c[i].kind)

VARIABLES content,         \* the stream being read
          pos,             \* position of the next token
          operands,        \* operands since the last operator
          operand_bytes,   \* their length
          graphics_depth,  \* depth of the q/Q stack
          marked_depth,    \* depth of the marked-content stack
          marked_stack,    \* indices of the open spans
          operators_seen,  \* operators read
          facts,           \* one fact per operator
          spans,           \* marked-content spans, in the order they open
          uses,            \* resource uses
          warnings,        \* kinds of warnings given
          truncated,       \* the operator cap was reached
          status           \* "reading", "done" or "error"

stream_vars == <<content, pos, operands, operand_bytes, graphics_depth,
    marked_depth, marked_stack, operators_seen, facts, spans, uses, warnings,
    truncated, status>>

-----------------------------------------------------------------------------
(* Operators, by what classify_operator does with them. *)
TextObjectOps   == {"BT", "ET"}
TextStateOps    == {"Tc", "Tw", "Tz", "TL", "Tf", "Tr", "Ts"}
TextPositionOps == {"Td", "TD", "Tm", "T*"}
TextShowOps     == {"Tj", "TJ", "'", "\""}
MarkedPointOps  == {"MP", "DP"}
MarkedBeginOps  == {"BMC", "BDC"}
GraphicsOps     == {"q", "Q", "cm", "w", "J", "j", "M", "d", "ri", "i", "gs"}
ColorOps        == {"CS", "cs", "SC", "SCN", "sc", "scn", "G", "g", "RG", "rg",
                    "K", "k", "sh"}
PathOps         == {"m", "l", "c", "v", "y", "h", "re", "S", "s", "f", "F", "f*",
                    "B", "B*", "b", "b*", "n", "W", "W*"}
CompatibilityOps == {"BX", "EX"}

FamilyOf(op) ==
    CASE op \in TextObjectOps \cup TextStateOps \cup TextPositionOps -> "text"
      [] op \in TextShowOps -> "textShow"
      [] op \in MarkedBeginOps \cup MarkedPointOps \cup {"EMC"} -> "markedContent"
      [] op \in GraphicsOps -> "graphicsState"
      [] op \in ColorOps -> "color"
      [] op = "Do" -> "xObject"
      [] op = "BI" -> "inlineImage"
      [] op \in PathOps -> "path"
      [] op \in CompatibilityOps -> "compatibility"
      [] OTHER -> "unknown"

\* The resource dictionary an operator looks its first name up in.
ResourceFamilyOf(op) ==
    CASE op = "Tf" -> "Font"
      [] op = "gs" -> "ExtGState"
      [] op \in {"CS", "cs"} -> "ColorSpace"
      [] op = "sh" -> "Shading"
      [] op = "Do" -> "XObject"
      [] OTHER -> None

-----------------------------------------------------------------------------
(* What an operator makes of its operands. *)
Vals(ops, kind) == LET keep(t) == t.kind = kind
                   IN  [i \in DOMAIN SelectSeq(ops, keep) |-> SelectSeq(ops, keep)[i].val]

first_name_operand(ops) ==
    IF Vals(ops, "name") = <<>> THEN None ELSE Vals(ops, "name")[1]

properties_name(ops) ==
    IF Len(Vals(ops, "name")) < 2 THEN None ELSE Vals(ops, "name")[2]

inline_mcid(ops) ==
    LET found == {i \in DOMAIN ops : ops[i].kind = "dict" /\ ops[i].val # None}
    IN  IF found = {} THEN None
        ELSE ops[CHOOSE i \in found : \A j \in found : i <= j].val

\* The last three operands, when they are an indirect reference.
properties_reference(ops) ==
    LET n == Len(ops)
    IN  IF /\ n >= 3
           /\ ops[n].kind = "keyword" /\ ops[n].val = "R"
           /\ ops[n - 1].kind = "int"  /\ ops[n - 1].val >= 0
           /\ ops[n - 2].kind = "int"  /\ ops[n - 2].val > 0
        THEN ops[n - 2].val
        ELSE None

-----------------------------------------------------------------------------
Open(c) ==
    /\ content = c /\ pos = 1
    /\ operands = <<>> /\ operand_bytes = 0
    /\ graphics_depth = 0 /\ marked_depth = 0 /\ marked_stack = <<>>
    /\ operators_seen = 0
    /\ facts = <<>> /\ spans = <<>> /\ uses = <<>>
    /\ warnings = {} /\ truncated = FALSE
    /\ status = "reading"

\* Another stream is opened: Open(c) in the next state.
OpenNext(c) ==
    /\ content' = c /\ pos' = 1
    /\ operands' = <<>> /\ operand_bytes' = 0
    /\ graphics_depth' = 0 /\ marked_depth' = 0 /\ marked_stack' = <<>>
    /\ operators_seen' = 0
    /\ facts' = <<>> /\ spans' = <<>> /\ uses' = <<>>
    /\ warnings' = {} /\ truncated' = FALSE
    /\ status' = "reading"

More == status = "reading" /\ pos <= Len(content)
tok  == content[pos]

IsOperator == More /\ tok.kind = "op" /\ operators_seen < MaxOps

\* What next_token refuses: malformed bytes, or a dictionary that is too long.
Rejected(t) == t.kind = "bad" \/ (t.kind = "dict" /\ t.len > MaxOperandBytes)

\* An operand over either limit throws away all operands of its operator,
\* itself included, and the operator sees what comes after it.
TakeOperand ==
    /\ More /\ tok.kind # "op" /\ ~Rejected(tok)
    /\ IF \/ Len(operands) >= MaxOperands
          \/ operand_bytes + tok.len > MaxOperandBytes
       THEN /\ operands' = <<>> /\ operand_bytes' = 0
            /\ warnings' = warnings \cup {"operands"}
       ELSE /\ operands' = Append(operands, tok)
            /\ operand_bytes' = operand_bytes + tok.len
            /\ UNCHANGED warnings
    /\ pos' = pos + 1
    /\ UNCHANGED <<content, graphics_depth, marked_depth, marked_stack,
                   operators_seen, facts, spans, uses, truncated, status>>

\* The error leaves summarize_content_stream with no summary at all.
TokenFails ==
    /\ More /\ Rejected(tok)
    /\ status' = "error"
    /\ UNCHANGED <<content, pos, operands, operand_bytes, graphics_depth,
                   marked_depth, marked_stack, operators_seen, facts, spans, uses,
                   warnings, truncated>>

\* Shared by all operators: one fact, one more seen, operands used up.
Executed(family) ==
    /\ facts' = Append(facts, [family |-> family, op |-> tok.val, at |-> pos,
                               operands |-> Len(operands), bytes |-> operand_bytes])
    /\ operators_seen' = operators_seen + 1
    /\ operands' = <<>> /\ operand_bytes' = 0
    /\ UNCHANGED <<content, truncated, status>>

\* Mutant of Marked: only the innermost open span is marked.
MarkedMutant(field) ==
    spans' = IF marked_stack = <<>> THEN spans
             ELSE [spans EXCEPT ![marked_stack[Len(marked_stack)]][field] = TRUE]

\* mark_active_spans
Marked(field) ==
    spans' = [i \in DOMAIN spans |->
                 IF \E k \in DOMAIN marked_stack : marked_stack[k] = i
                 THEN [spans[i] EXCEPT ![field] = TRUE]
                 ELSE spans[i]]

Use(name) ==
    uses' = IF name = None THEN uses
            ELSE Append(uses, [family |-> ResourceFamilyOf(tok.val), name |-> name,
                               operator |-> tok.val, at |-> pos])

\* Operators that leave nothing but their fact, and perhaps a resource use.
PlainOperator ==
    /\ IsOperator
    /\ tok.val \notin TextShowOps \cup MarkedBeginOps \cup {"EMC", "q", "Q", "Do", "BI"}
    /\ Executed(FamilyOf(tok.val))
    /\ Use(IF ResourceFamilyOf(tok.val) = None THEN None
           ELSE first_name_operand(operands))
    /\ pos' = pos + 1
    /\ UNCHANGED <<graphics_depth, marked_depth, marked_stack, spans, warnings>>

ShowText ==
    /\ IsOperator /\ tok.val \in TextShowOps
    /\ Executed("textShow") /\ Marked("has_text")
    /\ pos' = pos + 1
    /\ UNCHANGED <<graphics_depth, marked_depth, marked_stack, uses, warnings>>

\* Do without a name is an unknown operator.
InvokeXObject ==
    /\ IsOperator /\ tok.val = "Do"
    /\ LET name == first_name_operand(operands)
       IN  /\ Use(name)
           /\ IF name = None
              THEN Executed("unknown") /\ UNCHANGED spans
              ELSE Executed("xObject") /\ Marked("has_image")
    /\ pos' = pos + 1
    /\ UNCHANGED <<graphics_depth, marked_depth, marked_stack, warnings>>

\* BMC and BDC; "at" is the offset of the operator.
BeginMarkedContent ==
    /\ IsOperator /\ tok.val \in MarkedBeginOps
    /\ Executed("markedContent")
    /\ marked_depth' = marked_depth + 1
    /\ spans' = Append(spans,
           [nesting_depth |-> marked_depth', mcid |-> inline_mcid(operands),
            properties |-> properties_reference(operands),
            properties_name |-> properties_name(operands),
            has_text |-> FALSE, has_image |-> FALSE, at |-> pos])
    /\ marked_stack' = Append(marked_stack, Len(spans) + 1)
    /\ pos' = pos + 1
    /\ UNCHANGED <<graphics_depth, uses, warnings>>

\* Mutant of EndMarkedContent: the depth is not lowered with the stack.
EndMarkedContentMutant ==
    /\ IsOperator /\ tok.val = "EMC"
    /\ Executed("markedContent")
    /\ marked_stack' = IF marked_stack = <<>> THEN <<>>
                       ELSE SubSeq(marked_stack, 1, Len(marked_stack) - 1)
    /\ pos' = pos + 1
    /\ UNCHANGED <<marked_depth, graphics_depth, spans, uses, warnings>>

EndMarkedContent ==
    /\ IsOperator /\ tok.val = "EMC"
    /\ Executed("markedContent")
    /\ marked_depth' = IF marked_depth = 0 THEN 0 ELSE marked_depth - 1
    /\ marked_stack' = IF marked_stack = <<>> THEN <<>>
                       ELSE SubSeq(marked_stack, 1, Len(marked_stack) - 1)
    /\ pos' = pos + 1
    /\ UNCHANGED <<graphics_depth, spans, uses, warnings>>

SaveState ==
    /\ IsOperator /\ tok.val = "q"
    /\ Executed("graphicsState")
    /\ IF graphics_depth >= MaxDepth
       THEN warnings' = warnings \cup {"depth"} /\ UNCHANGED graphics_depth
       ELSE graphics_depth' = graphics_depth + 1 /\ UNCHANGED warnings
    /\ pos' = pos + 1
    /\ UNCHANGED <<marked_depth, marked_stack, spans, uses>>

RestoreState ==
    /\ IsOperator /\ tok.val = "Q"
    /\ Executed("graphicsState")
    /\ graphics_depth' = IF graphics_depth = 0 THEN 0 ELSE graphics_depth - 1
    /\ pos' = pos + 1
    /\ UNCHANGED <<marked_depth, marked_stack, spans, uses, warnings>>

\* ID is the next operator of that name that the tokenizer reaches; the data
\* after it is skipped as bytes up to the first EI.
EndOfImage ==
    LET Reached(i) == \A j \in pos + 1..i : ~Rejected(content[j])
        IsOp(i, op) == content[i].kind = "op" /\ content[i].val = op
        ids == {i \in pos + 1..Len(content) : IsOp(i, "ID") /\ Reached(i)}
        eis == {i \in pos + 1..Len(content) :
                   IsOp(i, "EI") /\ \E d \in ids : d < i}
    IN  {i \in eis : /\ \A j \in eis : i <= j
                     /\ \A d \in ids : (\A k \in ids : d <= k) => i - d - 1 <= MaxImage}

\* BI reads keys and values up to ID and skips the data up to EI.
InlineImage ==
    /\ IsOperator /\ tok.val = "BI"
    /\ \E i \in EndOfImage : pos' = i + 1
    /\ Executed("inlineImage") /\ Marked("has_image")
    /\ UNCHANGED <<graphics_depth, marked_depth, marked_stack, uses, warnings>>

\* No ID, no EI, too many bytes between them, or a rejected token before ID.
InlineImageFails ==
    /\ IsOperator /\ tok.val = "BI" /\ EndOfImage = {}
    /\ status' = "error"
    /\ operators_seen' = operators_seen + 1
    /\ UNCHANGED <<content, pos, operands, operand_bytes, graphics_depth,
                   marked_depth, marked_stack, facts, spans, uses, warnings, truncated>>

CapReached ==
    /\ More /\ tok.kind = "op" /\ operators_seen >= MaxOps
    /\ truncated' = TRUE
    /\ status' = "done"
    /\ warnings' = warnings \cup {"operators"}
                   \cup (IF operands = <<>> THEN {} ELSE {"dangling"})
    /\ UNCHANGED <<content, pos, operands, operand_bytes, graphics_depth,
                   marked_depth, marked_stack, operators_seen, facts, spans, uses>>

EndOfStream ==
    /\ status = "reading" /\ pos > Len(content)
    /\ status' = "done"
    /\ warnings' = warnings \cup (IF operands = <<>> THEN {} ELSE {"dangling"})
    /\ UNCHANGED <<content, pos, operands, operand_bytes, graphics_depth,
                   marked_depth, marked_stack, operators_seen, facts, spans, uses,
                   truncated>>

Read ==
    \/ TakeOperand \/ TokenFails \/ PlainOperator \/ ShowText \/ InvokeXObject
    \/ BeginMarkedContent \/ EndMarkedContent \/ SaveState \/ RestoreState
    \/ InlineImage \/ InlineImageFails \/ CapReached \/ EndOfStream

\* summarize_content_stream on its own, for any one stream.
StreamSpec == (\E c \in Contents : Open(c)) /\ [][Read]_stream_vars

-----------------------------------------------------------------------------
(* Properties. *)

\* The part of the state the prover uses: every field has its type.
StreamTypeOK ==
    /\ pos \in 1..Len(content) + 1
    /\ \A i \in DOMAIN operands : operands[i] \in Token(operands[i].kind)
    /\ operand_bytes \in Nat
    /\ graphics_depth \in 0..MaxDepth
    /\ marked_depth \in Nat /\ marked_stack \in Seq(Nat)
    /\ operators_seen \in 0..MaxOps
    /\ DOMAIN spans = 1..Len(spans)
    /\ \A i \in DOMAIN spans : spans[i].nesting_depth \in Nat
    /\ warnings \subseteq {"operands", "depth", "operators", "dangling"}
    /\ truncated \in BOOLEAN
    /\ status \in {"reading", "done", "error"}

\* The counter nesting_depth comes from and the stack that decides which spans
\* are active are kept apart in the code; they always agree, EMC without BMC
\* included: the k-th open span is nested k deep.
StacksAgree ==
    /\ marked_depth = Len(marked_stack)
    /\ \A k \in DOMAIN marked_stack :
          /\ marked_stack[k] \in DOMAIN spans
          /\ spans[marked_stack[k]].nesting_depth = k
          /\ \A j \in 1..k - 1 : marked_stack[j] < marked_stack[k]

\* What summarize_content_stream and validate_operand_collection cap stays
\* within its cap, whatever the stream says and however far it is read.
WithinLimits ==
    /\ operators_seen <= MaxOps /\ graphics_depth <= MaxDepth
    /\ Len(operands) <= MaxOperands /\ operand_bytes <= MaxOperandBytes

\* Facts between a and b whose operator is in ops.
Count(ops, a, b) == Cardinality({i \in a..b : facts[i].op \in ops})

\* Whether the span whose BMC or BDC is fact b still holds fact j.
OpenAt(b, j) == \A k \in b + 1..j :
                   Count({"EMC"}, b + 1, k) <= Count(MarkedBeginOps, b + 1, k)

\* A span claims text or an image exactly when an operator that shows one lies
\* between its begin and its matching end, however the ends are balanced; the
\* accessibility chunks are built from these two flags.
SpansExact ==
    \A i \in DOMAIN spans :
        LET b == CHOOSE n \in DOMAIN facts : facts[n].at = spans[i].at
            Holds(families) == \E j \in b + 1..Len(facts) :
                                  facts[j].family \in families /\ OpenAt(b, j)
        IN  /\ spans[i].has_text = Holds({"textShow"})
            /\ spans[i].has_image = Holds({"xObject", "inlineImage"})

\* The q/Q cap warns exactly when some stretch of the stream nests deeper than
\* the cap, although a q over the cap is not counted.
DepthWarningExact ==
    ("depth" \in warnings) <=>
        \E a \in DOMAIN facts : \E b \in a..Len(facts) :
            Count({"q"}, a, b) - Count({"Q"}, a, b) > MaxDepth

\* What is told of a stream - its spans and its warning of the depth - is
\* what the stream does.
MarkingExact == SpansExact /\ DepthWarningExact

=============================================================================
