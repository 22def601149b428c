------------------------- MODULE ProfileImportProofs -------------------------
(***************************************************************************)
(* What the import of a profile collects is what the document says, for    *)
(* every document, every catalogue of types and every limit.               *)
(*                                                                         *)
(* The importer keeps one open rule and one text target, not a stack. That *)
(* this is enough is the invariant: a rule is open exactly inside a rule   *)
(* element and is the draft of the document, and a text has a target       *)
(* exactly inside its own element.                                         *)
(***************************************************************************)
EXTENDS ProfileImport, TLAPS

Texts == Seq(Pieces) \cup {NoText}
Rules ==
  [object : ObjectTypes \cup {Missing}, id : Ids \cup {Missing},
   description : Texts, test : Texts, message : Texts]
Finished == {finish(r) : r \in Rules}

DocInv ==
  /\ at \in Elements \cup {Outside}
  /\ leaf \in Seq(Pieces) /\ draft \in Rules
  /\ written \in Seq(Rules) /\ rules \in Seq(Finished)

OpenInv ==
  /\ current.open \in BOOLEAN /\ current.rule \in Rules
  /\ current = [rule |-> current.rule, open |-> current.open]
  /\ current.open <=> at \in RuleElements
  /\ current.open => current.rule = draft

TargetInv ==
  /\ at \in TextParts => target = at /\ buffer = leaf
  /\ at = "name" => target = "name"
  /\ at \notin TextParts \cup {"name"} => target = "none"

ImportInv == DocInv /\ (outcome # "failed" => OpenInv /\ TargetInv /\ RulesAsWritten)

-----------------------------------------------------------------------------
(* The shape of a document. *)

\* An element and the one around it: both are parts of a rule, but for the
\* rule itself; and no element stands in a text.
LEMMA ParentFacts ==
  ASSUME NEW x \in Elements
  PROVE  /\ ParentOf[x] \in Elements \cup {Outside}
         /\ ParentOf[x] \notin TextParts \cup {"name"}
         /\ x # "rule" => (ParentOf[x] \in RuleElements <=> x \in RuleElements)
         /\ x = "rule" => ParentOf[x] \notin RuleElements
         /\ x \in TextParts => x \in RuleElements /\ x # "rule"
         /\ x = "name" => x \notin RuleElements
  BY DEF Elements, ParentOf, Outside, TextParts, RuleElements

LEMMA NoRuleInRules == NoRule \in Rules
  BY DEF NoRule, Rules, Texts

\* A text put into a rule leaves a rule.
LEMMA TextInRule ==
  ASSUME NEW r \in Rules, NEW part \in TextParts, NEW text \in Seq(Pieces)
  PROVE  [r EXCEPT ![part] = text] \in Rules
<1>1. CASE part = "description" BY <1>1 DEF Rules, Texts
<1>2. CASE part = "test" BY <1>2 DEF Rules, Texts
<1>3. CASE part = "message" BY <1>3 DEF Rules, Texts
<1> QED BY <1>1, <1>2, <1>3 DEF TextParts

-----------------------------------------------------------------------------
(* The steps. *)

LEMMA InitImport == Init => ImportInv
<1> SUFFICES ASSUME Init PROVE ImportInv
  OBVIOUS
<1>1. DocInv
  BY NoRuleInRules DEF Init, DocInv
<1>2. OpenInv /\ TargetInv
  BY NoRuleInRules DEF Init, OpenInv, TargetInv, Nothing, Outside, RuleElements, TextParts
<1>3. RulesAsWritten
  BY DEF Init, RulesAsWritten
<1> QED
  BY <1>1, <1>2, <1>3 DEF ImportInv

\* A start tag opens a rule or stands in one, and points the text into it.
LEMMA StartImport ==
  ASSUME ImportInv, NEW x \in Elements, NEW a \in Attributes(x), Start(x, a)
  PROVE  ImportInv'
<1> USE DEF ImportInv
<1>1. at = ParentOf[x] /\ at' = x /\ leaf' = <<>> /\ written' = written /\ outcome = "reading"
  BY DEF Start, DocStart
<1>2. draft' \in Rules
  <2>1. CASE x = "rule"
    <3>1. a \in ObjectTypes \cup {Missing} BY <2>1 DEF Attributes
    <3>2. draft' = [NoRule EXCEPT !.object = a] BY <2>1 DEF Start, DocStart
    <3> QED BY <3>1, <3>2, NoRuleInRules DEF Rules
  <2>2. CASE x = "id"
    <3>1. a \in Ids \cup {Missing} BY <2>2 DEF Attributes
    <3>2. draft' = [draft EXCEPT !.id = a] BY <2>2 DEF Start, DocStart
    <3> QED BY <3>1, <3>2 DEF Rules, DocInv
  <2>3. CASE x \notin {"rule", "id"}
    BY <2>3 DEF Start, DocStart, DocInv
  <2> QED BY <2>1, <2>2, <2>3
<1>3. rules' = rules
  BY DEF Start, Fail
<1>4. DocInv'
  BY <1>1, <1>2, <1>3 DEF DocInv
<1> SUFFICES ASSUME outcome' # "failed" PROVE OpenInv' /\ TargetInv' /\ RulesAsWritten'
  BY <1>4
<1>5. ~Refused(x, a)
  BY DEF Start, Fail
<1>6. OpenInv /\ TargetInv /\ RulesAsWritten
  BY <1>1
<1>7. target = "none"
  BY <1>1, <1>6, ParentFacts DEF TargetInv
<1>8. OpenInv'
  <2>1. CASE x = "rule"
    <3>1. current' = [rule |-> draft', open |-> TRUE]
      BY <1>5, <2>1 DEF Start, DocStart, from_rule_start
    <3> QED BY <1>1, <1>2, <2>1, <3>1 DEF OpenInv, RuleElements
  <2>2. CASE x = "id"
    <3>1. current.open BY <1>1, <1>6, <2>2, ParentFacts DEF OpenInv, RuleElements
    <3>2. current' = [current EXCEPT !.rule.id = a] BY <1>5, <2>2, <3>1 DEF Start
    <3>3. draft' = [draft EXCEPT !.id = a] BY <2>2 DEF Start, DocStart
    <3>4. current'.open = current.open /\ current'.rule = draft'
      BY <1>6, <3>1, <3>2, <3>3 DEF OpenInv
    <3>5. current' = [rule |-> current'.rule, open |-> current'.open]
      BY <1>6, <3>2 DEF OpenInv
    <3> QED BY <1>1, <1>2, <1>6, <2>2, <3>1, <3>4, <3>5 DEF OpenInv, RuleElements
  <2>3. CASE x \notin {"rule", "id"}
    <3>1. current' = current /\ draft' = draft BY <1>5, <2>3 DEF Start, DocStart
    <3> QED BY <1>1, <1>6, <2>3, <3>1, ParentFacts DEF OpenInv
  <2> QED BY <2>1, <2>2, <2>3
<1>9. TargetInv'
  <2>1. target' = TargetOf(x) /\ buffer' = IF Clears(x) THEN <<>> ELSE buffer
    BY <1>5 DEF Start
  <2>2. CASE x \in TextParts
    <3>1. current.open BY <1>1, <1>6, <2>2, ParentFacts DEF OpenInv
    <3> QED BY <1>1, <2>1, <2>2, <3>1, ParentFacts DEF TargetInv, TargetOf, Clears, TextParts
  <2>3. CASE x = "name"
    <3>1. ~current.open BY <1>1, <1>6, <2>3, ParentFacts DEF OpenInv
    <3> QED BY <1>1, <2>1, <2>3, <3>1 DEF TargetInv, TargetOf, TextParts
  <2>4. CASE x \notin TextParts \cup {"name"}
    BY <1>1, <1>7, <2>1, <2>4 DEF TargetInv, TargetOf
  <2> QED BY <2>2, <2>3, <2>4
<1> QED
  BY <1>1, <1>3, <1>6, <1>8, <1>9 DEF RulesAsWritten

\* An identity in an empty tag goes into the open rule.
LEMMA EmptyIdImport ==
  ASSUME ImportInv, NEW a \in Attributes("id"), EmptyId(a)
  PROVE  ImportInv'
<1> USE DEF ImportInv
<1>1. /\ at = "rule" /\ outcome = "reading" /\ draft' = [draft EXCEPT !.id = a]
      /\ UNCHANGED <<at, leaf, written, rules>>
  BY DEF EmptyId, Fail
<1>2. draft' \in Rules
  BY <1>1 DEF DocInv, Rules, Attributes
<1>3. DocInv'
  BY <1>1, <1>2 DEF DocInv
<1> SUFFICES ASSUME outcome' # "failed" PROVE OpenInv' /\ TargetInv' /\ RulesAsWritten'
  BY <1>3
<1>4. OpenInv /\ TargetInv /\ RulesAsWritten /\ current.open
  BY <1>1 DEF OpenInv, RuleElements
<1>5. current' = [current EXCEPT !.rule.id = a] /\ UNCHANGED <<target, buffer>>
  BY <1>4 DEF EmptyId, Fail
<1>6. current'.open = current.open /\ current'.rule = draft'
  BY <1>1, <1>4, <1>5 DEF OpenInv
<1>7. current' = [rule |-> current'.rule, open |-> current'.open]
  BY <1>4, <1>5 DEF OpenInv
<1> QED
  BY <1>1, <1>2, <1>4, <1>5, <1>6, <1>7 DEF OpenInv, TargetInv, RulesAsWritten, TextParts

\* A piece of text goes to the document and to the buffer alike.
LEMMA CharactersImport ==
  ASSUME ImportInv, NEW piece \in Pieces, Characters(piece)
  PROVE  ImportInv'
<1> USE DEF ImportInv
<1>1. /\ outcome = "reading" /\ leaf' = Append(leaf, piece)
      /\ UNCHANGED <<at, draft, written, rules, current, target>>
  BY DEF Characters, Fail, import_vars
<1>2. DocInv'
  BY <1>1 DEF DocInv
<1> SUFFICES ASSUME outcome' # "failed" PROVE OpenInv' /\ TargetInv' /\ RulesAsWritten'
  BY <1>2
<1>3. ASSUME at \in TextParts PROVE buffer' = leaf'
  <2>1. target # "none" /\ buffer = leaf BY <1>1, <1>3 DEF TargetInv, TextParts
  <2> QED BY <1>1, <2>1 DEF Characters, Fail
<1> QED
  BY <1>1, <1>3 DEF OpenInv, TargetInv, RulesAsWritten

\* A text that ends goes into the rule it stands in.
LEMMA EndTextImport ==
  ASSUME ImportInv, EndText
  PROVE  ImportInv'
<1> USE DEF ImportInv
<1>1. /\ outcome = "reading" /\ outcome' = outcome /\ at \in TextParts \cup {"name", "summary"}
      /\ at' = ParentOf[at] /\ leaf' = <<>> /\ target' = "none"
      /\ draft' = IF at \in TextParts THEN [draft EXCEPT ![at] = leaf] ELSE draft
      /\ UNCHANGED <<written, rules>>
  BY DEF EndText, DocEnd, TextParts
<1>2. at \in Elements /\ at # "rule"
  BY <1>1 DEF TextParts, Elements, ParentOf
<1>3. draft' \in Rules
  BY <1>1, TextInRule DEF DocInv
<1>4. DocInv'
  BY <1>1, <1>2, <1>3, ParentFacts DEF DocInv
<1>5. TargetInv'
  BY <1>1, <1>2, ParentFacts DEF TargetInv
<1>6. OpenInv'
  <2>1. CASE at \in TextParts
    <3>1. current.open /\ target = at /\ buffer = leaf
      BY <1>1, <1>2, <2>1, ParentFacts DEF OpenInv, TargetInv
    <3>2. current' = [current EXCEPT !.rule[at] = leaf]
      BY <2>1, <3>1 DEF EndText
    <3>3. current'.open = current.open /\ current'.rule = [current.rule EXCEPT ![at] = leaf]
      BY <1>1, <3>2 DEF OpenInv
    <3>4. current' = [rule |-> current'.rule, open |-> current'.open]
      BY <1>1, <3>2 DEF OpenInv
    <3>5. current'.rule = draft'
      BY <1>1, <2>1, <3>1, <3>3 DEF OpenInv
    <3>6. at' \in RuleElements
      BY <1>1, <1>2, <2>1, ParentFacts
    <3> QED BY <1>3, <3>1, <3>3, <3>4, <3>5, <3>6 DEF OpenInv
  <2>2. CASE at \notin TextParts
    <3>1. target \notin TextParts BY <1>1, <2>2 DEF TargetInv, TextParts
    <3>2. current' = current /\ draft' = draft BY <1>1, <2>2, <3>1 DEF EndText
    <3> QED BY <1>1, <1>2, <1>3, <3>2, ParentFacts DEF OpenInv
  <2> QED BY <2>1, <2>2
<1> QED
  BY <1>1, <1>4, <1>5, <1>6 DEF RulesAsWritten

\* A rule that ends is finished as it stands in the document.
LEMMA EndRuleImport ==
  ASSUME ImportInv, EndRule
  PROVE  ImportInv'
<1> USE DEF ImportInv
<1>1. /\ outcome = "reading" /\ at = "rule" /\ at' = ParentOf["rule"] /\ leaf' = <<>>
      /\ draft' = NoRule /\ written' = Append(written, draft)
  BY DEF EndRule, DocEnd, TextParts
<1>2. OpenInv /\ TargetInv /\ RulesAsWritten /\ current.open /\ current.rule = draft
  BY <1>1 DEF OpenInv, RuleElements
<1>3. at' = "rules"
  BY <1>1 DEF ParentOf
<1>4. rules' \in Seq(Finished)
  <2>1. finish(current.rule) \in Finished BY <1>2 DEF Finished, OpenInv
  <2>2. rules' = rules \/ rules' = Append(rules, finish(current.rule))
    BY DEF EndRule, Fail
  <2> QED BY <2>1, <2>2 DEF DocInv
<1>5. DocInv'
  BY <1>1, <1>3, <1>4, NoRuleInRules DEF DocInv, Elements, ParentOf
<1> SUFFICES ASSUME outcome' # "failed" PROVE OpenInv' /\ TargetInv' /\ RulesAsWritten'
  BY <1>5
<1>6. rules' = Append(rules, finish(draft)) /\ current' = Nothing /\ target' = target
  BY <1>2 DEF EndRule, Fail
<1>7. OpenInv' /\ TargetInv'
  BY <1>1, <1>2, <1>3, <1>6, NoRuleInRules
  DEF OpenInv, TargetInv, Nothing, RuleElements, TextParts
<1>8. RulesAsWritten'
  <2>1. Len(rules) = Len(written) /\ \A i \in 1 .. Len(rules) : rules[i] = finish(written[i])
    BY <1>1, <1>2 DEF RulesAsWritten
  <2>2. rules \in Seq(Finished) /\ written \in Seq(Rules)
    BY DEF DocInv
  <2>3. Len(rules') = Len(rules) + 1 /\ Len(written') = Len(written) + 1
    BY <1>1, <1>6, <2>2
  <2>4. ASSUME NEW i \in 1 .. Len(rules') PROVE rules'[i] = finish(written'[i])
    <3>1. CASE i \in 1 .. Len(rules)
      BY <1>1, <1>6, <2>1, <2>2, <3>1
    <3>2. CASE i = Len(rules) + 1
      BY <1>1, <1>6, <2>1, <2>2, <3>2
    <3> QED BY <2>2, <2>3, <3>1, <3>2
  <2> QED BY <2>1, <2>3, <2>4 DEF RulesAsWritten
<1> QED
  BY <1>7, <1>8

\* The other end tags leave the importer as it is.
LEMMA EndOtherImport ==
  ASSUME ImportInv, EndOther
  PROVE  ImportInv'
<1> USE DEF ImportInv
<1>1. /\ at \in Elements /\ at \notin TextParts \cup {"name", "rule"}
      /\ at' = ParentOf[at] /\ leaf' = <<>> /\ UNCHANGED <<draft, written>>
      /\ UNCHANGED import_vars
  BY DEF EndOther, DocEnd, DocInv
<1>2. DocInv'
  BY <1>1, ParentFacts DEF DocInv, import_vars
<1> QED
  BY <1>1, <1>2, ParentFacts DEF OpenInv, TargetInv, RulesAsWritten, import_vars

\* Errors, the end of the file and stuttering collect nothing.
LEMMA QuietImport ==
  ASSUME ImportInv, Malformed \/ Finish \/ UNCHANGED vars
  PROVE  ImportInv'
<1>1. /\ UNCHANGED <<at, leaf, draft, written, current, target, buffer, rules>>
      /\ outcome' # "failed" => outcome # "failed"
  BY DEF Malformed, Finish, Fail, vars, doc_vars
<1> QED
  BY <1>1 DEF ImportInv, DocInv, OpenInv, TargetInv, RulesAsWritten

-----------------------------------------------------------------------------
(* The theorems. *)

LEMMA Invariant == Spec => []ImportInv
<1>1. ImportInv /\ [Next]_vars => ImportInv'
  <2> SUFFICES ASSUME ImportInv, [Next]_vars PROVE ImportInv'
    OBVIOUS
  <2>1. CASE \E x \in Elements : \E a \in Attributes(x) : Start(x, a)
    BY <2>1, StartImport
  <2>2. CASE \E a \in Attributes("id") : EmptyId(a)
    BY <2>2, EmptyIdImport
  <2>3. CASE \E piece \in Pieces : Characters(piece)
    BY <2>3, CharactersImport
  <2>4. CASE EndText
    BY <2>4, EndTextImport
  <2>5. CASE EndRule
    BY <2>5, EndRuleImport
  <2>6. CASE EndOther
    BY <2>6, EndOtherImport
  <2>7. CASE Malformed \/ Finish \/ UNCHANGED vars
    BY <2>7, QuietImport
  <2> QED
    BY <2>1, <2>2, <2>3, <2>4, <2>5, <2>6, <2>7 DEF Next
<1> QED
  BY InitImport, <1>1, PTL DEF Spec

\* The rules collected so far are those the document has closed so far, each
\* with its own parts, for every document and every limit: no text is lost
\* between the pieces it comes in, none ends up in another element or rule.
THEOREM RulesAsWrittenAlways == Spec => []RulesAsWritten
<1>1. ImportInv => RulesAsWritten
  BY DEF ImportInv, RulesAsWritten
<1> QED
  BY Invariant, <1>1, PTL

\* While the import goes on, a rule is open exactly inside a rule element,
\* and text has a target exactly inside the element it is for.
THEOREM OneOpenRuleIsEnough ==
  Spec => [](outcome = "reading" => /\ current.open <=> at \in RuleElements
                                    /\ at \in TextParts => target = at /\ buffer = leaf)
<1>1. ImportInv => (outcome = "reading" => /\ current.open <=> at \in RuleElements
                                           /\ at \in TextParts => target = at /\ buffer = leaf)
  BY DEF ImportInv, OpenInv, TargetInv
<1> QED
  BY Invariant, <1>1, PTL

-----------------------------------------------------------------------------
(* What is imported can be named. *)

\* Strings; the provers do not know that these two are.
Spellings == STRING \cup {"none", "iso32005"}

\* A flavour that ValidationFlavour::new can have made of an attribute.
Named(f) ==
  /\ f = Flavour(f.family, f.part, f.conformance)
  /\ IsPart(f.part)
  /\ f.conformance \in Seq(Spellings) /\ f.conformance # <<>>
  /\ f.family = "wtpdf" => f.part = <<"1">>

NamedInv ==
  /\ flavour = NoFlavour \/ Named(flavour)
  /\ outcome = "imported" => flavour # NoFlavour /\ display_flavour(flavour) # NoName

\* What parse_verapdf_flavour makes is a flavour with a part and a level.
LEMMA ParsedIsNamed ==
  ASSUME NEW parts \in Seq(Seq(STRING))
  PROVE  parse_verapdf_flavour(parts) = NoFlavour \/ Named(parse_verapdf_flavour(parts))
<1>0. parts \in Seq(Seq(Spellings))
  BY DEF Spellings
<1> DEFINE Readable == Len(parts) >= 2 /\ IsPart(parts[2])
<1>1. CASE ~Readable
  BY <1>1 DEF parse_verapdf_flavour
<1>2. NoLevel \in Seq(Spellings) /\ NoLevel # <<>> /\ <<"iso32005">> \in Seq(Spellings)
  <2>1. "none" \in Spellings /\ "iso32005" \in Spellings
    BY DEF Spellings
  <2> QED BY <2>1 DEF NoLevel
<1>3. IsPart(<<"1">>)
  <2>1. "1" \in Digit BY DEF Digit
  <2> QED BY <2>1 DEF IsPart
<1>4. CASE Readable /\ parts[1] = <<"PDFA">>
  <2> DEFINE level == IF Len(parts) > 2 THEN parts[3] ELSE NoLevel
  <2>1. parse_verapdf_flavour(parts) = NewFlavour("pdfa", parts[2], level)
    BY <1>4 DEF parse_verapdf_flavour
  <2>2. level \in Seq(Spellings)
    BY <1>2, <1>0, <1>4
  <2>3. CASE level = <<>> BY <2>1, <2>3 DEF NewFlavour
  <2>4. CASE level # <<>>
    <3> HIDE DEF level
    <3> QED BY <1>4, <2>1, <2>2, <2>4 DEF NewFlavour, Flavour, Named
  <2> QED BY <2>3, <2>4
<1>5. CASE Readable /\ parts[1] = <<"PDFUA">>
  <2> DEFINE level == IF parts[2] = <<"2">> THEN <<"iso32005">> ELSE NoLevel
  <2>1. parse_verapdf_flavour(parts) = Flavour("pdfua", parts[2], level)
    BY <1>5 DEF parse_verapdf_flavour
  <2>2. level \in Seq(Spellings) /\ level # <<>>
    BY <1>2
  <2> HIDE DEF level
  <2> QED BY <1>5, <2>1, <2>2 DEF Flavour, Named
<1>6. CASE Readable /\ parts[1] = <<"WTPDF">>
  <2> DEFINE Known == Len(parts) = 4 /\ parts[2] = <<"1">> /\ parts[3] = <<"0">>
  <2>1. CASE ~Known BY <1>6, <2>1 DEF parse_verapdf_flavour
  <2>2. CASE Known
    <3>1. parse_verapdf_flavour(parts) = NewFlavour("wtpdf", <<"1">>, parts[4])
      BY <1>6, <2>2 DEF parse_verapdf_flavour
    <3>2. parts[4] \in Seq(Spellings)
      <4>1. Len(parts) = 4 BY <2>2
      <4>2. 4 \in 1 .. Len(parts) BY <4>1
      <4> QED BY <1>0, <4>2
    <3> QED BY <1>3, <3>1, <3>2 DEF NewFlavour, Flavour, Named
  <2> QED BY <2>1, <2>2
<1>7. CASE Readable /\ parts[1] \notin {<<"PDFA">>, <<"PDFUA">>, <<"WTPDF">>}
  BY <1>7 DEF parse_verapdf_flavour
<1> QED
  BY <1>1, <1>4, <1>5, <1>6, <1>7

\* The digits a text begins with are counted right: a part is as long as they
\* are, where no digit follows it.
LEMMA PartIsTheDigits ==
  ASSUME NEW part \in Seq(Digit), NEW level \in Seq(Spellings),
         level # <<>> => Head(level) \notin Digit
  PROVE  LeadingDigits(part \o level) = Len(part)
<1> DEFINE text == part \o level
           Counted(n) == /\ \A i \in 1 .. n : text[i] \in Digit
                         /\ n < Len(text) => text[n + 1] \notin Digit
<1>1. /\ Len(text) = Len(part) + Len(level)
      /\ \A i \in 1 .. Len(part) : text[i] = part[i]
      /\ level # <<>> => text[Len(part) + 1] = Head(level)
  <2>1. part \in Seq(Digit \cup Spellings) /\ level \in Seq(Digit \cup Spellings)
    OBVIOUS
  <2> QED BY <2>1
<1>2. Len(part) \in 0 .. Len(text) /\ Counted(Len(part))
  BY <1>1
<1>3. ASSUME NEW n \in 0 .. Len(text), Counted(n) PROVE n = Len(part)
  <2>1. CASE n < Len(part)
    <3>1. text[n + 1] \in Digit BY <1>1, <2>1
    <3> QED BY <1>1, <1>3, <2>1, <3>1
  <2>2. CASE n > Len(part)
    <3>1. level # <<>> BY <1>1, <2>2
    <3>2. text[Len(part) + 1] \notin Digit BY <1>1, <3>1
    <3> QED BY <1>3, <2>2, <3>2
  <2> QED BY <2>1, <2>2
<1>4. LeadingDigits(text) = CHOOSE n \in 0 .. Len(text) : Counted(n)
  BY Zenon DEF LeadingDigits
<1> HIDE DEF Counted, text
<1>5. LeadingDigits(text) = Len(part)
  BY <1>2, <1>3, <1>4
<1> QED
  BY <1>5 DEF text

\* The name of a flavour leads back to it.
LEMMA NameReadBack ==
  ASSUME NEW f, Named(f), display_flavour(f) # NoName, ~DigitLevel(f)
  PROVE  parse_display_flavour(display_flavour(f)) = f
<1>1. CASE f.family = "pdfa"
  <2> DEFINE level == IF f.conformance = NoLevel THEN <<>> ELSE f.conformance
             text == f.part \o level
  <2>1. display_flavour(f) = <<"pdfa-", text>>
    BY <1>1 DEF display_flavour
  <2>2. parse_display_flavour(<<"pdfa-", text>>) = parse_display_pdfa_flavour(text)
    BY DEF parse_display_flavour
  <2>3. f.part \in Seq(Digit) /\ level \in Seq(Spellings) /\ (level # <<>> => Head(level) \notin Digit)
    <3>1. f.part \in Seq(Digit) /\ f.conformance \in Seq(Spellings)
      BY DEF Named, IsPart
    <3>2. Head(f.conformance) \notin Digit
      BY <1>1 DEF DigitLevel
    <3>3. <<>> \in Seq(Spellings)
      OBVIOUS
    <3> QED BY <3>1, <3>2, <3>3
  <2> HIDE DEF level
  <2>4. LeadingDigits(text) = Len(f.part)
    BY <2>3, PartIsTheDigits
  <2>5. SubSeq(text, 1, Len(f.part)) = f.part /\ SubSeq(text, Len(f.part) + 1, Len(text)) = level
    <3>1. f.part \in Seq(Digit \cup Spellings) /\ level \in Seq(Digit \cup Spellings)
      BY <2>3
    <3> HIDE DEF text
    <3>2. text \in Seq(Digit \cup Spellings) /\ Len(text) = Len(f.part) + Len(level)
      BY <3>1 DEF text
    <3>3. \A i \in 1 .. Len(f.part) : text[i] = f.part[i]
      BY <3>1 DEF text
    <3>4. \A i \in 1 .. Len(level) : text[Len(f.part) + i] = level[i]
      BY <3>1 DEF text
    <3>5. SubSeq(text, 1, Len(f.part)) = f.part
      BY <3>1, <3>2, <3>3
    <3>6. SubSeq(text, Len(f.part) + 1, Len(text)) = level
      <4> DEFINE rest == SubSeq(text, Len(f.part) + 1, Len(text))
      <4>1. rest \in Seq(Digit \cup Spellings) /\ Len(rest) = Len(level)
        BY <3>1, <3>2
      <4>2. \A i \in 1 .. Len(level) : rest[i] = text[Len(f.part) + i]
        BY <3>1, <3>2
      <4> HIDE DEF rest
      <4>3. rest = level
        BY <3>1, <3>4, <4>1, <4>2
      <4> QED BY <4>3 DEF rest
    <3> QED BY <3>5, <3>6
  <2>6. parse_display_pdfa_flavour(text) =
          Flavour("pdfa", f.part, IF level = <<>> THEN NoLevel ELSE level)
    BY <2>4, <2>5 DEF parse_display_pdfa_flavour, Named
  <2>7. (IF level = <<>> THEN NoLevel ELSE level) = f.conformance
    BY DEF level, Named
  <2> QED BY <1>1, <2>1, <2>2, <2>6, <2>7 DEF Named
<1>2. CASE f.family = "pdfua"
  <2>1. CASE f.part = <<"1">> /\ f.conformance = NoLevel
    <3>1. display_flavour(f) = <<"pdfua-", <<"1">> >>
      BY <1>2, <2>1 DEF display_flavour
    <3>2. parse_display_flavour(<<"pdfua-", <<"1">> >>) = Flavour("pdfua", <<"1">>, NoLevel)
      BY DEF parse_display_flavour
    <3> QED BY <1>2, <2>1, <3>1, <3>2 DEF Named
  <2>2. CASE f.part = <<"2">> /\ f.conformance = <<"iso32005">>
    <3>1. display_flavour(f) = <<"pdfua-", <<"2", "-", "iso32005">> >>
      BY <1>2, <2>2 DEF display_flavour, NoLevel
    <3>2. parse_display_flavour(<<"pdfua-", <<"2", "-", "iso32005">> >>) =
            Flavour("pdfua", <<"2">>, <<"iso32005">>)
      BY DEF parse_display_flavour
    <3> QED BY <1>2, <2>2, <3>1, <3>2 DEF Named
  <2> QED BY <1>2, <2>1, <2>2 DEF display_flavour
<1>3. CASE f.family = "wtpdf"
  <2>1. f.conformance \in {<<"reuse">>, <<"accessibility">>}
    BY <1>3 DEF display_flavour
  <2>2. display_flavour(f) = <<"wtpdf-1-0-", f.conformance>>
    BY <1>3, <2>1 DEF display_flavour
  <2>3. parse_display_flavour(<<"wtpdf-1-0-", f.conformance>>)
          = Flavour("wtpdf", <<"1">>, f.conformance)
    BY <2>1 DEF parse_display_flavour
  <2> QED BY <1>3, <2>2, <2>3 DEF Named
<1> QED
  BY <1>1, <1>2, <1>3 DEF display_flavour

\* Only the start tag of the profile gives a flavour, and only the end of the
\* file looks at its name.
LEMMA NextNamed == NamedInv /\ [Next]_vars => NamedInv'
<1> SUFFICES ASSUME NamedInv, [Next]_vars PROVE NamedInv'
  OBVIOUS
<1>1. ASSUME NEW x \in Elements, NEW a \in Attributes(x), Start(x, a) PROVE NamedInv'
  <2>1. outcome' \in {"reading", "failed"}
    BY <1>1 DEF Start, Fail
  <2>2. CASE flavour' = flavour \/ flavour' = NoFlavour
    BY <2>1, <2>2 DEF NamedInv
  <2>3. CASE ~(flavour' = flavour \/ flavour' = NoFlavour)
    <3>1. x = "profile" /\ a # <<>> /\ flavour' = parse_verapdf_flavour(a)
      BY <1>1, <2>3 DEF Start, Fail
    <3>2. a \in Seq(Seq(STRING))
      BY <3>1, ImportFlavours DEF Attributes
    <3> QED BY <2>1, <3>1, <3>2, ParsedIsNamed DEF NamedInv
  <2> QED BY <2>2, <2>3
<1>2. ASSUME Finish PROVE NamedInv'
  BY <1>2 DEF Finish, Fail, NamedInv
<1>3. ASSUME \/ \E a \in Attributes("id") : EmptyId(a)
             \/ \E piece \in Pieces : Characters(piece)
             \/ EndText \/ EndRule \/ EndOther \/ Malformed
      PROVE  NamedInv'
  <2>1. flavour' = flavour /\ outcome = "reading" /\ outcome' \in {"reading", "failed"}
    BY <1>3 DEF EmptyId, Characters, EndText, EndRule, EndOther, Malformed, Fail, import_vars
  <2> QED BY <2>1 DEF NamedInv
<1>4. CASE UNCHANGED vars
  BY <1>4 DEF vars, NamedInv
<1> QED
  BY <1>1, <1>2, <1>3, <1>4 DEF Next

\* A profile that was imported has a flavour, and the text it is shown by,
\* prefix, part and level in one string, is read back as that flavour, for
\* every attribute whose level does not begin with a digit.
THEOREM NameLeadsBackAlways == Spec => []NameLeadsBack
<1>1. Init => NamedInv
  BY DEF Init, NamedInv
<1>2. NamedInv => NameLeadsBack
  BY NameReadBack DEF NamedInv, NameLeadsBack
<1> QED
  BY <1>1, <1>2, NextNamed, PTL DEF Spec

=============================================================================
