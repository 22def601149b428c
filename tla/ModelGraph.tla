------------------------------ MODULE ModelGraph ------------------------------
(***************************************************************************)
(* How one profile rule meets the objects of a document: import binds the  *)
(* rule to the registry (profile.rs), ModelGraph::for_rules decides which  *)
(* families are worth building, the walk emits objects link by link, and   *)
(* the evaluator follows the rule's property path from each object whose   *)
(* type or supertype the rule names.                                       *)
(*                                                                         *)
(* The document is the richest one there is: it holds at least one object  *)
(* of every kind the code can emit, linked in every way it can be.  A kind *)
(* stands for all the objects of one wrapper and one type that are reached *)
(* the same way: what a form XObject draws is apart from what a page       *)
(* draws.  The other rules of the profile matter by the families they      *)
(* select, and only by them.  One round of the walk expands every kind     *)
(* reached so far, so the walk is as deterministic as the question; the    *)
(* order of the real stack, its budget and its stops are Traversal's.      *)
(***************************************************************************)
EXTENDS ModelSchema, Naturals, SequencesExt, FiniteSetsExt

CONSTANTS
  RuleTypes,      \* the object types rules are written for
  OtherFamilies,  \* the sets of families the other rules of the profile select
  MaxLinks        \* the longest chain of links in a property path

VARIABLES
  rule,           \* the rule: its object type, its links and its last property
  others,         \* the families the other rules of the profile select
  reached         \* the kinds of objects the walk has emitted

graph_vars == <<rule, others, reached>>

-----------------------------------------------------------------------------
(* Object kinds. *)

AccessibilityTypes ==
  {"accessibilityDocument", "structureElement", "textChunk", "imageChunk",
   "accessibilityAnnotation", "artifact", "table", "list", "heading", "link"}

\* holder is the family the objects of the kind are reached under, when it is not
\* the document, its pages or its tables.
Native(type) == [model |-> type, type |-> type, holder |-> "document"]
Accessible(type) == [model |-> "Accessibility", type |-> type, holder |-> "document"]
Generic(family) == [model |-> "Generic", type |-> family, holder |-> "document"]
Held(family, by) == [model |-> "Generic", type |-> family, holder |-> by]
KnownOperator == Native("operator")
UnknownOperator == [KnownOperator EXCEPT !.model = "undefinedOperator"]

\* The stream of a form XObject, which is content of its own.
FormContent == [Native("contentStream") EXCEPT !.holder = "xObject"]

SuperTypes(k) ==
  CASE k.model = "document" -> {}
    [] k = Accessible("accessibilityDocument") -> {"structureTreeRoot"}
    [] k.model = "undefinedOperator" -> {"undefinedOperator", "object"}
    [] k.model = "inlineImage" -> {"operator"}
    [] k.model \in {"contentStream", "metadata"} -> {"stream", "object"}
    [] OTHER -> {"object"}

\* RuleIndex::rules_for: the rules written for the object's type or a supertype.
Matches(type, k) == k.type = type \/ type \in SuperTypes(k)

\* Mutant of CarriedLinks: operators and accessibility objects built without links.
CarriedLinksMutant(k) ==
  IF k.model = "Generic" THEN DOMAIN family_links(k.type)
  ELSE IF k.type \in {"document", "catalog", "page", "annotation", "contentStream"}
       THEN DOMAIN LinksOf(k.type)
       ELSE {}

\* The links an object carries: a generic object its family's, the others what
\* their constructor gives them.
CarriedLinks(k) ==
  IF k.model = "Generic" THEN DOMAIN family_links(k.type)
  ELSE IF k.type \in {"document", "catalog", "page", "annotation", "contentStream",
                      "operator", "accessibilityDocument", "structureElement"}
       THEN DOMAIN LinksOf(k.type)
       ELSE {}

-----------------------------------------------------------------------------
(* Names an object answers. *)

\* The wrappers whose unknown names are looked up again in the object itself.
FallsBack(k) ==
  /\ "object" \in SuperTypes(k)
  /\ k.model \notin {"document", "operator", "undefinedOperator", "markedContent",
                     "inlineImage", "resourceUse", "Accessibility"}

AccessibilityNames(type) ==
  CASE type = "accessibilityDocument" -> accessibility_document_property
    [] type = "structureElement" ->
         structure_element_property \cup structure_element_relationship_property
           \cup structure_element_pdfua_property
    [] type = "textChunk"  -> text_chunk_property
    [] type = "imageChunk" -> image_chunk_property
    [] type = "accessibilityAnnotation" -> annotation_property
    [] type = "artifact"   -> artifact_property
    [] type = "table"      -> table_property
    [] type = "list"       -> list_property
    [] type = "heading"    -> heading_property
    [] type = "link"       -> link_property

OwnNames(k) ==
  CASE k.model = "Generic" ->
         (GenericComputed(k.type) \cup family_direct_properties(k.type)) \ Refused(k.type)
    [] k.model = "Accessibility" -> AccessibilityNames(k.type)
    [] k.model = "document" ->
         root_property \cup catalog_property \cup info_property \cup metadata_property
    [] k.model = "catalog"  -> CatalogComputed \cup CATALOG_DIRECT_PROPERTIES
    [] k.model = "metadata" ->
         xmp_packet_property \cup xmp_extension_prefix_property
           \cup xmp_extension_value_property \cup xmp_document_metadata_property
           \cup MetadataComputed \cup METADATA_DIRECT_PROPERTIES
    [] k.model = "page" ->
         PageComputed \cup PAGE_DIRECT_PROPERTIES \cup PAGE_INHERITED_PROPERTIES
    [] k.model = "font" ->
         font_decision_property \cup font_cid_decision_property
           \cup font_glyph_decision_property \cup FontComputed \cup FONT_DIRECT_PROPERTIES
    [] k.model = "annotation"   -> AnnotationComputed \cup ANNOTATION_DIRECT_PROPERTIES
    [] k.model = "outputIntent" -> OutputIntentComputed \cup OUTPUT_INTENT_DIRECT_PROPERTIES
    [] k.model = "contentStream" -> ContentStreamComputed \cup STREAM_DIRECT_PROPERTIES
    [] k.model \in {"operator", "undefinedOperator"} -> OperatorComputed
    [] k.model = "markedContent" -> MarkedContentComputed
    [] k.model = "inlineImage"   -> InlineImageComputed
    [] k.model = "resourceUse"   -> ResourceUseComputed
    [] k.model = "stream"        -> StreamComputed

\* Some arm of the object's property functions answers the name, whatever the
\* object holds.
Answers(k, name) ==
  \/ name \in OwnNames(k) \ RefusedOfSome(k.type)
  \/ name \in object_property_from_cos /\ FallsBack(k)

-----------------------------------------------------------------------------
(* Import: apply_model_schema_checks on the rule. *)

WithoutLast(path) == SubSeq(path, 1, Len(path) - 1)

\* The family a chain of links ends at in the registry.
LinkEnd(type, links) == FoldLeft(link_target, type, links)

\* The reason a rule is turned into an unsupported one, or "bound".
unsupported_reason(type, links, property) ==
  IF type \notin Families THEN "missingObjectType"
  ELSE IF LinkEnd(type, links) = Unknown THEN "missingLink"
  ELSE IF ~has_family_property(LinkEnd(type, links), property) THEN "missingProperty"
  ELSE "bound"

Bound == unsupported_reason(rule.type, rule.links, rule.property) = "bound"

-----------------------------------------------------------------------------
(* Selection: the families ModelGraph::for_rules finds worth building. *)

\* The rule's type and every family its links pass through, as far as the
\* registry knows them.
SelectedFor(type, links) ==
  {type} \cup ({LinkEnd(type, SubSeq(links, 1, i)) : i \in 1 .. Len(links)} \ {Unknown})

\* Every supported rule of the profile selects, for all of them.
Selected == others \cup (IF Bound THEN SelectedFor(rule.type, rule.links) ELSE {})

materializes_generic_roots(M) ==
  M \ (AccessibilityTypes
        \cup {"document", "catalog", "metadata", "page", "font", "annotation", "outputIntent",
              "contentStream", "operator", "markedContent", "inlineImage", "resourceUse",
              "stream", "object"}) # {}

\* Mutant of materializes_accessibility: the supertype is forgotten.
materializes_accessibilityMutant(M) == M \cap AccessibilityTypes # {}

materializes_accessibility(M) == M \cap (AccessibilityTypes \cup {"structureTreeRoot"}) # {}

-----------------------------------------------------------------------------
(* Emission: the kinds an object of one kind links to in the walk. *)

CatalogGenerics ==
  {"acroForm", "structureTreeRoot", "optionalContentProperties", "names", "outline",
   "permissions", "destination"}

PageGenerics ==
  {"resource", "xObject", "image", "postScriptXObject", "colorSpace", "extGState", "pattern",
   "shading"}

\* classify_dictionary, without the families the indirect pass leaves out.
IndirectGenerics ==
  {"image", "formXObject", "postScriptXObject", "formField", "pageTree", "action",
   "structureTreeRoot", "structureElement", "signature", "embeddedFontFile",
   "optionalContentProperties", "xObject", "fileSpec", "acroForm", "security", "cMap",
   "shading", "function", "pattern", "iccProfile"}

DocumentEmits(M) ==
  {Native("catalog")}
    \cup {Accessible(t) : t \in {u \in {"accessibilityDocument"} : materializes_accessibility(M)}}
    \cup {Native(t) : t \in M \cap {"stream"}}
    \cup {Generic(f) : f \in {g \in M \cap (CatalogGenerics \cup PageGenerics \cup IndirectGenerics) :
                                materializes_generic_roots(M)}}

CatalogEmits(M) ==
  {Native("metadata"), Native("outputIntent"), Native("page")}
    \cup {Generic(f) : f \in M \cap CatalogGenerics}

PageEmits ==
  {Native("contentStream"), Native("annotation"), Native("font"), Held("action", "page")}

AnnotationEmits == {Held(f, "annotation") : f \in {"formField", "action", "fileSpec"}}

\* Drawn content stays with the stream it is drawn in.
ContentStreamEmits(k, M) ==
  {[d EXCEPT !.holder = k.holder] :
     d \in {c \in {KnownOperator, UnknownOperator, Native("markedContent"),
                   Native("inlineImage"), Native("resourceUse")} : c.type \in M}}

FormFieldEmits == {Held(g, "formField") : g \in {"formField", "action", "fileSpec"}}
ActionEmits == {Held(g, "action") : g \in {"action", "fileSpec", "destination"}}
OutlineEmits == {Held(g, "outline") : g \in {"outline", "action", "destination"}}
NamesEmits == {Held(g, "names") : g \in {"destination", "fileSpec"}}
XObjectEmits(M) == {FormContent : t \in M \cap {"contentStream"}}

GenericEmits(f, M) ==
  CASE f = "acroForm"  -> {Held("formField", f)}
    [] f = "formField" -> FormFieldEmits
    [] f = "action"    -> ActionEmits
    [] f = "outline"   -> OutlineEmits
    [] f = "names"     -> NamesEmits
    [] f = "destination" -> {Held("action", f)}
    [] f \in {"xObject", "formXObject"} -> XObjectEmits(M)
    [] OTHER -> {}

AccessibilityEmits(type) ==
  CASE type = "accessibilityDocument" ->
         {Accessible(t) : t \in AccessibilityTypes \ {"accessibilityDocument"}}
    [] type = "structureElement" -> {Accessible("structureElement")}
    [] OTHER -> {}

linked_objects(k, M) ==
  CASE k.model = "document"      -> DocumentEmits(M)
    [] k.model = "catalog"       -> CatalogEmits(M)
    [] k.model = "page"          -> PageEmits
    [] k.model = "annotation"    -> AnnotationEmits
    [] k.model = "contentStream" -> ContentStreamEmits(k, M)
    [] k.model = "Accessibility" -> AccessibilityEmits(k.type)
    [] k.model = "Generic"       -> GenericEmits(k.type, M)
    [] OTHER -> {}

-----------------------------------------------------------------------------
(* Evaluation: DefaultRuleEvaluator::property from one object. *)

Stuck == Native("stuck")

\* One link from a set of objects: an object whose type has no such link in
\* the registry, or that does not carry it, stops the evaluation; otherwise
\* the linked objects of the target family are the next candidates.
Follow(M, candidates, link) ==
  IF \E c \in candidates : link_target(c.type, link) = Unknown \/ link \notin CarriedLinks(c)
  THEN {Stuck}
  ELSE UNION {{d \in linked_objects(c, M) : d.type = link_target(c.type, link)} : c \in candidates}

\* The objects a path ends at.
PathEnds(k, links, M) ==
  FoldLeft(LAMBDA candidates, link : IF Stuck \in candidates THEN candidates
                                     ELSE Follow(M, candidates, link),
           {k}, links)

\* What evaluating the rule's path on the object gives.
Outcome(k) ==
  LET ends == PathEnds(k, rule.links, Selected)
  IN IF Stuck \in ends THEN "unsupported link"
     ELSE IF ends = {} THEN "null"
     ELSE IF \E d \in ends : ~Answers(d, rule.property) THEN "unknown property"
     ELSE "value"

-----------------------------------------------------------------------------
(* The walk. *)

RulePaths(type) ==
  {<<>>} \cup
  (IF MaxLinks = 0 THEN {} ELSE {<<l>> : l \in DOMAIN LinksOf(type) \cup {"parts"}}) \cup
  (IF MaxLinks < 2 THEN {}
   ELSE {<<l, m>> : <<l, m>> \in
           UNION {{n} \X DOMAIN LinksOf(LinksOf(type)[n]) : n \in DOMAIN LinksOf(type)}})

Init ==
  /\ others \in OtherFamilies
  /\ \E type \in RuleTypes :
       \E links \in RulePaths(type) :
         LET end == LinkEnd(type, links) IN
         \E property \in (IF end \in Families THEN PropertiesOf[end] ELSE {}) \cup {"noSuchName"} :
           /\ rule = [type |-> type, links |-> links, property |-> property]
           /\ reached = {Native("document")}

NextRound(kinds, M) == kinds \cup UNION {linked_objects(k, M) : k \in kinds}

Round ==
  /\ NextRound(reached, Selected) # reached
  /\ reached' = NextRound(reached, Selected)
  /\ UNCHANGED <<rule, others>>

Done ==
  /\ NextRound(reached, Selected) = reached
  /\ UNCHANGED graph_vars

Next == Round \/ Done

Spec == Init /\ [][Next]_graph_vars /\ WF_graph_vars(Round)


-----------------------------------------------------------------------------
(* Properties. *)

\* The kinds the document shows when every family is worth building.
FullWalk == FoldSet(LAMBDA i, kinds : NextRound(kinds, Families), {Native("document")}, 1 .. 8)

Judged == {k \in reached : Matches(rule.type, k)}

Finished == NextRound(reached, Selected) = reached

\* Type invariant: the rule has at most MaxLinks links and the walk emits nothing
\* the walk over the whole registry does not.
TypeOK ==
  /\ rule.type \in STRING /\ rule.property \in STRING
  /\ others \subseteq Families
  /\ Len(rule.links) \in 0 .. MaxLinks
  /\ Native("document") \in reached
  /\ reached \subseteq FullWalk


\* A rule finds, with the families its profile selects, every object it would
\* find had the whole registry been selected: every one, or those Of picks.
FindsEvery(Of(_)) ==
  Finished /\ Bound => \A k \in FullWalk : Matches(rule.type, k) /\ Of(k) => k \in reached

\* Objects whose building is left to another rule: those reached only through an
\* object of a family the rule does not name (the fields, actions, destinations
\* and file specifications held somewhere, everything a form XObject draws); the
\* dictionaries of structure elements, which the accessibility objects stand for;
\* what a rule for object or for undefinedOperator would match by supertype; and
\* the inline images, which are operators built on the order of inlineImage only.
LeftToOthers(k) ==
  \/ k.holder # "document"
  \/ k = Generic("structureElement")
  \/ rule.type \in {"object", "undefinedOperator"}
  \/ rule.type = "operator" /\ k.model = "inlineImage"

\* Building only the families the profile needs hides no object from a rule:
\* for_rules, materializes_generic_roots and materializes_accessibility
\* together never prune an object the rule applies to, but for LeftToOthers.
SelectionSafe == FindsEvery(LAMBDA k : ~LeftToOthers(k))

\* The same of every object: what specs/13-validation-engine-design.md:47 says
\* of traversal, "linked objects are materialized when traversal reaches the
\* link", leaves no room for an object that exists only when another rule is
\* in the profile.
SelectionInvisible == FindsEvery(LAMBDA k : TRUE)

\* Families the registry publishes and no linked_objects ever emits.
NeverEmitted == {"fontDescriptor", "fontProgram", "undefinedOperator"}

\* An accepted rule meets at least one object in the richest document: the
\* registry, the selection and the emission agree that its family exists.
RulesMeetObjects == Finished /\ Bound /\ rule.type \notin NeverEmitted => Judged # {}

\* No object is hidden from an accepted rule, and there is one for it.
SelectionHidesNothing == SelectionSafe /\ RulesMeetObjects

\* Objects of another make than the family the rule was bound to, which it meets
\* when other rules have them built: the inline images among the operators
\* (validation.rs:5830, without links and without the names of operators), the
\* dictionaries of structure elements (without the links of the accessibility
\* objects), and the objects that are object by supertype only.
OtherMake(k) ==
  \/ rule.type = "operator" /\ k.model = "inlineImage"
  \/ k = Generic("structureElement")
  \/ rule.type = "object" /\ k.model \in {"operator", "undefinedOperator", "markedContent",
                                          "resourceUse", "Accessibility"}

\* A path the import bound never stops at a link the object at hand does not
\* have, whatever else the profile has built, unless the object is of
\* OtherMake or the path leaves a structure tree root: the registry gives that
\* family the links of the accessibility document, the generic object has none.
AcceptedLinksFollowed ==
  \/ ~Bound
  \/ \E i \in 0 .. Len(rule.links) - 1 :
       LinkEnd(rule.type, SubSeq(rule.links, 1, i)) = "structureTreeRoot"
  \/ \A k \in Judged : OtherMake(k) \/ Outcome(k) # "unsupported link"

\* Published names no property function of the family's objects has an arm for.
Unanswered(f) ==
  CASE f = "embeddedFontFile" ->
         {"lengthMatches", "declaredLength", "discoveredLength", "streamKeywordCRLFCompliant",
          "endstreamKeywordEOLCompliant"}
    [] f = "postScriptXObject" -> {"hasCorrectAlt"}
    [] f = "formField" -> {"Lang", "RV"}
    [] f = "structureTreeRoot" ->
         {"kidsStandardTypes", "hasContentItems", "firstChildStandardTypeNamespaceURL",
          "isTagged", "roleMapPresent", "classMapPresent", "classMapEntries",
          "parentTreeEntries", "idTreeEntries", "truncated"}
    [] f = "stream" -> STREAM_PROPERTIES \ {"Type", "Subtype", "F"}
    [] OTHER -> {}

\* A name the code refuses on purpose, because it does not compute it yet: of
\* every object, or of those whose data would ask for the computation.
RefusedName ==
  LET end == LinkEnd(rule.type, rule.links)
  IN rule.property \in Refused(end) \cup RefusedOfSome(end)

NamesAnswered(Of(_)) ==
  Bound => RefusedName \/ \A k \in Judged : Of(k) => Outcome(k) # "unknown property"

\* An accepted rule's last property has an arm in the property functions of
\* every object its path ends at, whatever else the profile has built: the
\* registry tables and the property functions, two lists kept by hand, agree
\* outside Unanswered, the names refused on purpose and the objects of OtherMake.
AcceptedNamesAnswered ==
  \/ rule.property \in Unanswered(LinkEnd(rule.type, rule.links))
  \/ NamesAnswered(LAMBDA k : ~OtherMake(k))

\* The same of every family.  specs/22-resource-font-color-semantics-design.md
\* has the families publish their properties so that an unsupported rule is
\* classified by its missing property "rather than by opaque evaluation
\* failure".
RegisteredAnswered == NamesAnswered(LAMBDA k : TRUE)

\* Links the registry publishes and no object is ever emitted for.
DeadLinks ==
  {<<"page", "resources">>, <<"operator", "resource">>, <<"operator", "markedContentProperties">>,
   <<"structureElement", "textChunks">>, <<"structureElement", "imageChunks">>,
   <<"structureElement", "annotations">>}

LinkSteps ==
  {<<LinkEnd(rule.type, SubSeq(rule.links, 1, i - 1)), rule.links[i]>> : i \in 1 .. Len(rule.links)}

LinksLead == Finished /\ Bound => \A k \in Judged : Outcome(k) # "null"

\* In the richest document every link of an accepted path leads to an object,
\* with the families the path itself selects: a path is never Null for want of
\* selection, outside the links nothing is emitted for.
AcceptedLinksLead == LinkSteps \cap DeadLinks # {} \/ LinksLead

\* The path of an accepted rule can be walked to its end.
AcceptedLinksWork == AcceptedLinksFollowed /\ AcceptedLinksLead

\* The same of every link.  CHANGELOG.md:113 says that the "registry link
\* schemas no longer advertise unimplemented traversal".
LinksEmitted == LinksLead

\* A name the registry does not declare as a plain key of the dictionary is
\* never answered by looking that very name up in the dictionary, which would
\* make it Null in every document.
DerivedNamesComputed ==
  Bound /\ rule.links = <<>> =>
    \A k \in Judged :
      (/\ k.model = "Generic" /\ k.type = rule.type
       /\ rule.property \notin GenericComputed(k.type)
       /\ rule.property \in family_direct_properties(k.type))
      => \/ rule.property \in direct_properties_for_family(k.type) \cup DIRECT_PROPERTY_NAMES
         \/ k.type \in {"iccProfile", "structureElement"}

\* The name at the end of an accepted path is answered, and by a computation
\* where it is not a key.
AcceptedNamesWork == AcceptedNamesAnswered /\ DerivedNamesComputed

=============================================================================
