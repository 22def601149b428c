---------------------------- MODULE ProfileImport ----------------------------
(***************************************************************************)
(* The import of a veraPDF validation profile: one pass over the events of *)
(* an XML document (import_verapdf_profile_xml_impl), which collects the   *)
(* rules one at a time in an XmlRuleBuilder.                               *)
(*                                                                         *)
(* The document is written while it is read: the variables at, leaf, draft *)
(* and written say what stands in it, the others are the importer's.       *)
(* The document is nested as veraPDF nests it; it may break off anywhere,  *)
(* parts of a rule may be missing, repeated or in any order, and a text    *)
(* may come in pieces (around comments, CDATA sections and references).    *)
(***************************************************************************)
EXTENDS Integers, Sequences, SequencesExt

CONSTANTS
    XmlFlavours,   \* flavour attributes, split at "_", each piece spelled out
    ObjectTypes,   \* object attributes
    MappedTypes,   \* those map_verapdf_object_type knows
    Ids,           \* rule identities
    Pieces,        \* pieces of text
    Parsable,      \* the texts parse_imported_expr accepts
    MaxDepth,      \* MAX_PROFILE_XML_DEPTH
    MaxElements,   \* MAX_PROFILE_XML_ELEMENTS
    MaxRules,      \* MAX_PROFILE_RULES
    MaxText        \* MAX_PROFILE_STRING_BYTES, in pieces

ASSUME ImportBounds ==
  MaxDepth \in Nat /\ MaxElements \in Nat /\ MaxRules \in Nat /\ MaxText \in Nat

\* The number of a part is written without leading zeros.
ASSUME ImportFlavours ==
  /\ XmlFlavours \subseteq Seq(Seq(STRING))
  /\ \A parts \in XmlFlavours : Len(parts) > 1 /\ Len(parts[2]) > 1 => Head(parts[2]) # "0"

VARIABLES
    at,        \* the document: the innermost open element
    leaf,      \*   its text so far
    draft,     \*   the parts of the open rule
    written,   \*   the rules closed so far
    flavour, current, target, buffer, rules, elements,
    outcome    \* "reading", "imported" or "failed"

doc_vars == <<at, leaf, draft, written>>
import_vars == <<flavour, current, target, buffer, rules, elements, outcome>>
vars == <<at, leaf, draft, written, flavour, current, target, buffer, rules, elements, outcome>>

Missing == "missing"
NoText == <<"missing">>

-----------------------------------------------------------------------------
(* Flavours. *)

Flavour(family, part, conformance) ==
  [family |-> family, part |-> part, conformance |-> conformance]
NoFlavour == Flavour(Missing, <<>>, <<>>)

\* A part is a number, given by its decimal digits; a level is spelled out, with
\* a word where nothing looks into it.
Digit == {"0", "1", "2", "3", "4", "5", "6", "7", "8", "9"}
IsPart(text) == text \in Seq(Digit) /\ text \notin {<<>>, <<"0">>}
NoLevel == <<"none">>

\* ValidationFlavour::new: an Identifier is not empty.
NewFlavour(family, part, conformance) ==
  IF conformance = <<>> THEN NoFlavour ELSE Flavour(family, part, conformance)

\* parse_verapdf_flavour, of the parts of "PDFA_2_u", "PDFUA_1" or
\* "WTPDF_1_0_reuse".
parse_verapdf_flavour(parts) ==
  IF Len(parts) < 2 \/ ~IsPart(parts[2]) THEN NoFlavour ELSE
  CASE parts[1] = <<"PDFA">> ->
         NewFlavour("pdfa", parts[2], IF Len(parts) > 2 THEN parts[3] ELSE NoLevel)
    [] parts[1] = <<"PDFUA">> ->
         Flavour("pdfua", parts[2], IF parts[2] = <<"2">> THEN <<"iso32005">> ELSE NoLevel)
    [] parts[1] = <<"WTPDF">> /\ Len(parts) = 4 /\ parts[2] = <<"1">> /\ parts[3] = <<"0">> ->
         NewFlavour("wtpdf", <<"1">>, parts[4])
    [] OTHER -> NoFlavour

NoName == <<Missing, <<>> >>

\* Mutant of display_flavour: every part of PDF/UA is shown with its level.
display_flavourMutant(f) ==
  CASE f.family = "pdfa" -> <<"pdfa-", f.part \o (IF f.conformance = NoLevel THEN <<>> ELSE f.conformance)>>
    [] f.family = "pdfua" -> <<"pdfua-", f.part \o <<"-">> \o f.conformance>>
    [] f.family = "wtpdf" -> <<"wtpdf-1-0-", f.conformance>>

\* The catalogue's spelling: the prefix that tells the family, and the text
\* behind it, which for PDF/A is the part with the level right after it.
display_flavour(f) ==
  CASE f.family = "pdfa" ->
         <<"pdfa-", f.part \o (IF f.conformance = NoLevel THEN <<>> ELSE f.conformance)>>
    [] f.family = "pdfua" /\ f.part = <<"1">> /\ f.conformance = NoLevel -> <<"pdfua-", <<"1">> >>
    [] f.family = "pdfua" /\ f.part = <<"2">> /\ f.conformance = <<"iso32005">> ->
         <<"pdfua-", <<"2", "-", "iso32005">> >>
    [] f.family = "wtpdf" /\ f.conformance \in {<<"reuse">>, <<"accessibility">>} ->
         <<"wtpdf-1-0-", f.conformance>>
    [] OTHER -> NoName

\* How many digits a text begins with.
LeadingDigits(text) ==
  CHOOSE n \in 0 .. Len(text) : /\ \A i \in 1 .. n : text[i] \in Digit
                                /\ n < Len(text) => text[n + 1] \notin Digit

parse_display_pdfa_flavour(text) ==
  LET split_at == LeadingDigits(text)
      part == SubSeq(text, 1, split_at)
      conformance == SubSeq(text, split_at + 1, Len(text))
  IN IF ~IsPart(part) THEN NoFlavour
     ELSE Flavour("pdfa", part, IF conformance = <<>> THEN NoLevel ELSE conformance)

parse_display_flavour(name) ==
  CASE name[1] = "pdfa-" -> parse_display_pdfa_flavour(name[2])
    [] name = <<"pdfua-", <<"1">> >> -> Flavour("pdfua", <<"1">>, NoLevel)
    [] name = <<"pdfua-", <<"2", "-", "iso32005">> >> -> Flavour("pdfua", <<"2">>, <<"iso32005">>)
    [] name[1] = "wtpdf-1-0-" /\ name[2] \in {<<"reuse">>, <<"accessibility">>} ->
         Flavour("wtpdf", <<"1">>, name[2])
    [] OTHER -> NoFlavour

-----------------------------------------------------------------------------
(* XmlRuleBuilder. *)

NoRule == [object |-> Missing, id |-> Missing, description |-> NoText, test |-> NoText,
           message |-> NoText]
Nothing == [rule |-> NoRule, open |-> FALSE]
from_rule_start(object) == [rule |-> [NoRule EXCEPT !.object = object], open |-> TRUE]

Default == <<"Imported veraPDF rule">>
Unsupported == <<"unsupported">>

\* finish: the defaults, and the test kept only where it can be evaluated.
finish(r) ==
  LET description == IF r.description # NoText THEN r.description ELSE Default
  IN [id |-> r.id,
      object |-> IF r.object \in MappedTypes THEN r.object ELSE "document",
      description |-> description,
      message |-> IF r.message # NoText THEN r.message ELSE description,
      test |-> IF r.object \in MappedTypes /\ r.test \in Parsable THEN r.test ELSE Unsupported]

Unfinished(r) == r.id = Missing \/ r.test = NoText

-----------------------------------------------------------------------------
(* The document. *)

\* Where each element stands; the description of the whole profile is called
\* summary here, and Outside is not an element.
Outside == "outside"
ParentOf ==
  [profile |-> Outside, details |-> "profile", rules |-> "profile", name |-> "details",
   summary |-> "details", rule |-> "rules", id |-> "rule", description |-> "rule",
   test |-> "rule", error |-> "rule", references |-> "rule", message |-> "error",
   reference |-> "references"]
Elements == DOMAIN ParentOf

RuleElements == {"rule", "id", "description", "test", "error", "references", "message", "reference"}
DepthOf(x) ==
  CASE x = "profile" -> 1
    [] x \in {"details", "rules"} -> 2
    [] x \in {"name", "summary", "rule"} -> 3
    [] x \in {"message", "reference"} -> 5
    [] OTHER -> 4

\* What the attributes of an element say: one of these, or that a required
\* one is missing.
Attributes(x) ==
  CASE x = "profile" -> XmlFlavours \cup {<<>>}
    [] x = "rule"    -> ObjectTypes \cup {Missing}
    [] x = "id"      -> Ids \cup {Missing}
    [] OTHER -> {"none"}

TextParts == {"description", "test", "message"}

DocStart(x, a) ==
  /\ at' = x /\ leaf' = <<>>
  /\ draft' = CASE x = "rule" -> [NoRule EXCEPT !.object = a]
                [] x = "id"   -> [draft EXCEPT !.id = a]
                [] OTHER      -> draft
  /\ UNCHANGED written

DocEnd ==
  /\ at' = ParentOf[at] /\ leaf' = <<>>
  /\ draft' = CASE at \in TextParts -> [draft EXCEPT ![at] = leaf]
                [] at = "rule" -> NoRule
                [] OTHER -> draft
  /\ written' = IF at = "rule" THEN Append(written, draft) ELSE written

-----------------------------------------------------------------------------
(* The importer. *)

Init ==
  /\ at = Outside /\ leaf = <<>> /\ draft = NoRule /\ written = <<>>
  /\ flavour = NoFlavour /\ current = Nothing /\ target = "none" /\ buffer = <<>>
  /\ rules = <<>> /\ elements = 0 /\ outcome = "reading"

Fail ==
  /\ outcome' = "failed"
  /\ UNCHANGED <<flavour, current, target, buffer, rules, elements>>

\* Where the text after a start tag goes; the summary's tag is a description
\* outside of any rule.
TargetOf(x) ==
  CASE x = "name" /\ ~current.open      -> "name"
    [] x \in TextParts /\ current.open  -> x
    [] OTHER -> target

\* Whether a start tag empties the text buffer.
Clears(x) == (x = "name" /\ ~current.open) \/ (x \in TextParts /\ current.open)

\* The limits and the required attributes a start tag is refused for.
Refused(x, a) ==
  \/ DepthOf(x) > MaxDepth
  \/ elements + 1 > MaxElements
  \/ x = "rule" /\ (Len(rules) >= MaxRules \/ a = Missing)
  \/ x = "profile" /\ a # <<>> /\ parse_verapdf_flavour(a) = NoFlavour
  \/ x = "id" /\ current.open /\ a = Missing

\* Event::Start.
Start(x, a) ==
  /\ outcome = "reading" /\ at = ParentOf[x] /\ (x = "profile" => elements = 0)
  /\ DocStart(x, a)
  /\ IF Refused(x, a) THEN Fail
     ELSE /\ elements' = elements + 1
          /\ flavour' = IF x # "profile" THEN flavour
                        ELSE IF a = <<>> THEN NoFlavour ELSE parse_verapdf_flavour(a)
          /\ current' = CASE x = "rule" -> from_rule_start(a)
                          [] x = "id" /\ current.open -> [current EXCEPT !.rule.id = a]
                          [] OTHER -> current
          /\ target' = TargetOf(x)
          /\ buffer' = IF Clears(x) THEN <<>> ELSE buffer
          /\ UNCHANGED <<rules, outcome>>

\* Event::Empty: an id is taken, anything else is skipped.
EmptyId(a) ==
  /\ outcome = "reading" /\ at = "rule"
  /\ draft' = [draft EXCEPT !.id = a] /\ UNCHANGED <<at, leaf, written>>
  /\ IF elements + 1 > MaxElements \/ (current.open /\ a = Missing) THEN Fail
     ELSE /\ elements' = elements + 1
          /\ current' = IF current.open THEN [current EXCEPT !.rule.id = a] ELSE current
          /\ UNCHANGED <<flavour, target, buffer, rules, outcome>>

\* Mutant of Characters: a piece of text replaces the piece before it.
CharactersMutant(piece) ==
  /\ outcome = "reading" /\ at \in TextParts \cup {"name", "summary", "error"} /\ Len(leaf) <= MaxText
  /\ leaf' = Append(leaf, piece) /\ UNCHANGED <<at, draft, written>>
  /\ CASE target = "none" -> UNCHANGED import_vars
       [] target # "none" /\ Len(buffer) + 1 > MaxText -> Fail
       [] OTHER -> buffer' = <<piece>>
                   /\ UNCHANGED <<flavour, current, target, rules, elements, outcome>>

\* Event::Text, Event::CData and Event::GeneralRef.
Characters(piece) ==
  /\ outcome = "reading" /\ at \in TextParts \cup {"name", "summary", "error"} /\ Len(leaf) <= MaxText
  /\ leaf' = Append(leaf, piece) /\ UNCHANGED <<at, draft, written>>
  /\ CASE target = "none" -> UNCHANGED import_vars
       [] target # "none" /\ Len(buffer) + 1 > MaxText -> Fail
       [] OTHER -> buffer' = Append(buffer, piece)
                   /\ UNCHANGED <<flavour, current, target, rules, elements, outcome>>

\* Event::End of a text element: the text goes where the start tag said.
EndText ==
  /\ outcome = "reading" /\ at \in TextParts \cup {"name", "summary"}
  /\ DocEnd
  /\ current' = IF target \in TextParts /\ current.open
                THEN [current EXCEPT !.rule[target] = buffer] ELSE current
  /\ target' = "none" /\ buffer' = <<>>
  /\ UNCHANGED <<flavour, rules, elements, outcome>>

\* Event::End of a rule: the builder is taken and finished.
EndRule ==
  /\ outcome = "reading" /\ at = "rule"
  /\ DocEnd
  /\ IF ~current.open \/ Unfinished(current.rule) THEN Fail
     ELSE /\ rules' = Append(rules, finish(current.rule)) /\ current' = Nothing
          /\ UNCHANGED <<flavour, target, buffer, elements, outcome>>

EndOther ==
  /\ outcome = "reading" /\ at \notin TextParts \cup {"name", "summary", "rule", Outside}
  /\ DocEnd
  /\ UNCHANGED import_vars

\* An XML error, an element or an attribute nobody knows, too many
\* attributes, an entity that is not predefined.
Malformed ==
  /\ outcome = "reading" /\ UNCHANGED doc_vars /\ Fail

\* Event::Eof: the profile is named after its flavour. Nothing looks at the
\* elements still open.
Finish ==
  /\ outcome = "reading"
  /\ IF flavour = NoFlavour \/ display_flavour(flavour) = NoName THEN Fail
     ELSE outcome' = "imported" /\ UNCHANGED <<flavour, current, target, buffer, rules, elements>>
  /\ UNCHANGED doc_vars

Next ==
  \/ \E x \in Elements : \E a \in Attributes(x) : Start(x, a)
  \/ \E a \in Attributes("id") : EmptyId(a)
  \/ \E piece \in Pieces : Characters(piece)
  \/ EndText \/ EndRule \/ EndOther \/ Malformed \/ Finish

Spec == Init /\ [][Next]_vars

-----------------------------------------------------------------------------
(* Properties. *)

TypeOK ==
  /\ at \in Elements \cup {Outside} /\ outcome \in {"reading", "imported", "failed"}
  /\ target \in TextParts \cup {"name", "none"} /\ current.open \in BOOLEAN
  /\ elements \in 0 .. MaxElements /\ Len(rules) <= MaxRules /\ Len(buffer) <= MaxText

\* RulesAsWritten: the rules collected are the rules of the document, in its
\* order and each with its own parts: no text of one element or rule ends up
\* in another one, a text in pieces is whole, and a rule that is not
\* supported is kept.
RulesAsWritten ==
  outcome # "failed" =>
    /\ Len(rules) = Len(written)
    /\ \A i \in 1 .. Len(rules) : rules[i] = finish(written[i])

\* A level that begins with a digit: "PDFA_1_1", part 1 and level 1, is shown as
\* "pdfa-11", which is part 11.
DigitLevel(f) == f.family = "pdfa" /\ Head(f.conformance) \in Digit

\* NameLeadsBack: an imported profile has a flavour, and the name it goes by in
\* the catalogue and in reports (display_flavour, profile.rs:2272) leads back to
\* that flavour and to no other, but for a DigitLevel.
NameLeadsBack ==
  outcome = "imported" =>
    /\ flavour # NoFlavour
    /\ DigitLevel(flavour) \/ parse_display_flavour(display_flavour(flavour)) = flavour

\* EveryNameLeadsBack: the same of every level.
EveryNameLeadsBack ==
  outcome = "imported" => parse_display_flavour(display_flavour(flavour)) = flavour

\* NothingCutOff: a profile is imported from a whole document only: "malformed
\* profile XML returns `Result`" (specs/12-profile-rule-ir-design.md:55).
NothingCutOff == outcome = "imported" => at = Outside

=============================================================================
