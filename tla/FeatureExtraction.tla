--------------------------- MODULE FeatureExtraction ---------------------------
(***************************************************************************)
(* ValidationSession::extract_features and the policy evaluated over what  *)
(* it extracted.  The walk is the one of validate_profile, except that     *)
(* reaching max_objects does not fail: the report is cut short, marked     *)
(* `truncated`, and the policy is evaluated over what there is.            *)
(*                                                                         *)
(* One policy rule is modelled; the rules of a PolicySet do not influence  *)
(* each other.  Each object has at most one property, the rule's field.    *)
(***************************************************************************)
EXTENDS Integers, Sequences, FiniteSets

CONSTANTS
    Objects, Root,      \* model objects, ModelObjectRef::Document
    Keys, KeyOf,        \* [Objects -> Keys]: identity_key()
    LinkLists,          \* the link lists an object may have
    Families, FamilyOf, \* ModelRegistry families; [Objects -> Families]
    ValueChoices,       \* the property values an object may have
    NoProperty,         \* object.property says UnknownProperty
    Selections,         \* FeatureSelection values the caller may pass
    RuleChoices,        \* the policies: sets of at most one rule
    MaxObjects          \* limits.max_objects

\* FeatureValue, by what the policy tells apart; "other" stands for Null, keys,
\* lists and numbers that are not finite.
FeatureValues == [type : {"number", "string", "redacted", "other"}, value : Int]

Operators == {"Exists", "Absent", "Equals", "NotEquals", "Min", "Max"}

\* PolicyRule as validate_policy_schema lets it through: Min and Max compare
\* with a number.
PolicyRules ==
    {r \in [family : Families, operator : Operators, value : FeatureValues] :
        /\ r.value.type \in {"number", "string"}
        /\ r.operator \in {"Min", "Max"} => r.value.type = "number"}

ASSUME FeatureAssumption ==
    /\ Root \in Objects /\ IsFiniteSet(Objects)
    /\ KeyOf \in [Objects -> Keys]
    /\ LinkLists \subseteq Seq(Objects)
    /\ FamilyOf \in [Objects -> Families]
    /\ ValueChoices \subseteq {v \in FeatureValues : v.type # "redacted"} \cup {NoProperty}
    /\ NoProperty \notin FeatureValues \cup Objects
    /\ Selections \subseteq [mode : {"None", "All", "Families"}, families : SUBSET Families]
    /\ \A p \in RuleChoices : p \subseteq PolicyRules /\ \A r, q \in p : r = q
    /\ MaxObjects \in Nat

VARIABLES
    links,              \* [Objects -> LinkLists], the document
    property,           \* [Objects -> ValueChoices], the document
    safe,               \* the field is in SAFE_FEATURE_STRING_PROPERTIES
    selection, policy,  \* the options
    pc,                 \* "walk", "policy", "done" or "error"
    stack, visited,
    current,            \* the object being processed, NoProperty between two
    objects,            \* FeatureReport.objects: Seq of [object, family, value]
    truncated,
    passed              \* the rule's result, TRUE without a policy

docVars == <<links, property, safe, selection, policy>>
vars == <<docVars, pc, stack, visited, current, objects, truncated, passed>>

-------------------------------------------------------------------------------
\* Mutant of feature_selection_for_tasks: the policy's families are left out.
SelectionAsGiven == selection

\* A policy always gets the families of its own rules.
feature_selection_for_tasks ==
    IF policy = {} THEN selection
    ELSE IF selection.mode = "Families"
         THEN [selection EXCEPT !.families = @ \cup {r.family : r \in policy}]
         ELSE [mode |-> "All", families |-> {}]

selected_feature_families ==
    LET s == feature_selection_for_tasks
    IN  IF s.mode = "Families" THEN s.families ELSE Families

needs_features == selection.mode # "None" \/ policy # {}

\* Strings of fields that are not listed as safe are replaced by their length.
safe_feature_value(v) ==
    IF v.type = "string" /\ ~safe THEN [type |-> "redacted", value |-> 0] ELSE v

feature_object(o) ==
    [object |-> o, family |-> FamilyOf[o],
     value |-> IF property[o] = NoProperty THEN NoProperty
               ELSE safe_feature_value(property[o])]

Init ==
    /\ links \in [Objects -> LinkLists]
    /\ property \in [Objects -> ValueChoices]
    /\ safe \in BOOLEAN /\ selection \in Selections /\ policy \in RuleChoices
    /\ pc = IF needs_features THEN "walk" ELSE "done"
    /\ stack = <<Root>> /\ visited = {} /\ current = NoProperty
    /\ objects = <<>> /\ truncated = FALSE /\ passed = TRUE

Top == stack[Len(stack)]
Popped == SubSeq(stack, 1, Len(stack) - 1)
Popping == pc = "walk" /\ current = NoProperty /\ stack # <<>>

SkipSeen ==
    /\ Popping /\ KeyOf[Top] \in visited
    /\ stack' = Popped
    /\ UNCHANGED <<docVars, pc, visited, current, objects, truncated, passed>>

\* The object is marked as seen and, if its family is selected, extracted.
Extract ==
    /\ Popping /\ KeyOf[Top] \notin visited
    /\ stack' = Popped /\ current' = Top
    /\ visited' = visited \cup {KeyOf[Top]}
    /\ objects' = IF FamilyOf[Top] \in selected_feature_families
                  THEN Append(objects, feature_object(Top)) ELSE objects
    /\ UNCHANGED <<docVars, pc, truncated, passed>>

\* object.property or linked_objects failed with another error.
ExtractFails ==
    /\ pc = "walk" /\ (stack # <<>> \/ current # NoProperty)
    /\ pc' = "error"
    /\ UNCHANGED <<docVars, stack, visited, current, objects, truncated, passed>>

Budget == MaxObjects - (Cardinality(visited) + Len(stack))

OverBudget ==
    \/ Cardinality(visited) > MaxObjects
    \/ Budget < 0
    \/ Len(links[current]) > Budget

FollowLinks ==
    /\ pc = "walk" /\ current # NoProperty /\ ~OverBudget
    /\ stack' = stack \o links[current]
    /\ current' = NoProperty
    /\ UNCHANGED <<docVars, pc, visited, objects, truncated, passed>>

\* Mutant of Truncate: the cut is not marked.
TruncateSilently ==
    /\ pc = "walk" /\ current # NoProperty /\ OverBudget
    /\ pc' = "policy"
    /\ UNCHANGED <<docVars, stack, visited, current, objects, truncated, passed>>

\* An object limit ends the walk, not the extraction.
Truncate ==
    /\ pc = "walk" /\ current # NoProperty /\ OverBudget
    /\ truncated' = TRUE
    /\ pc' = "policy"
    /\ UNCHANGED <<docVars, stack, visited, current, objects, passed>>

WalkEnds ==
    /\ pc = "walk" /\ current = NoProperty /\ stack = <<>>
    /\ pc' = "policy"
    /\ UNCHANGED <<docVars, stack, visited, current, objects, truncated, passed>>

-------------------------------------------------------------------------------
policy_value_matches(actual, expected) ==
    actual.type = expected.type /\ actual.value = expected.value

\* Whether rule r passes on a set of property values.
Passes(r, values) ==
    LET numbers == {v \in values : v.type = "number"}
    IN  CASE r.operator = "Exists"    -> values # {}
          [] r.operator = "Absent"    -> values = {}
          [] r.operator = "Equals"    -> \E v \in values : policy_value_matches(v, r.value)
          [] r.operator = "NotEquals" -> \A v \in values : ~policy_value_matches(v, r.value)
          [] r.operator = "Min"       -> \E v \in numbers : v.value >= r.value.value
          [] r.operator = "Max"       -> \E v \in numbers : v.value <= r.value.value

\* Mutant of evaluate_policy_rule: Exists is satisfied by an object of the family.
ExistsByFamily(r) ==
    LET matches == {i \in DOMAIN objects : objects[i].family = r.family}
    IN  \/ r.operator = "Exists" /\ matches # {}
        \/ Passes(r, {objects[i].value : i \in {j \in matches : objects[j].value # NoProperty}})

\* The values the rule's field has in the extracted objects of its family.
evaluate_policy_rule(r) ==
    LET matches == {i \in DOMAIN objects : objects[i].family = r.family}
    IN  Passes(r, {objects[i].value : i \in {j \in matches : objects[j].value # NoProperty}})

evaluate_policy ==
    /\ pc = "policy"
    /\ passed' = (\A r \in policy : evaluate_policy_rule(r))
    /\ pc' = "done"
    /\ UNCHANGED <<docVars, stack, visited, current, objects, truncated>>

Returned == pc \in {"done", "error"} /\ UNCHANGED vars

Progress ==
    \/ SkipSeen \/ Extract \/ ExtractFails \/ FollowLinks \/ Truncate
    \/ WalkEnds \/ evaluate_policy

Next == Progress \/ Returned

Spec == Init /\ [][Next]_vars

-------------------------------------------------------------------------------
\* Types of the walk, of the report and of the policy's result.
TypeOK ==
    /\ links \in [Objects -> LinkLists] /\ property \in [Objects -> ValueChoices]
    /\ safe \in BOOLEAN /\ selection \in Selections /\ policy \in RuleChoices
    /\ pc \in {"walk", "policy", "done", "error"}
    /\ stack \in Seq(Objects) /\ visited \subseteq Keys
    /\ current \in Objects \cup {NoProperty}
    /\ objects \in Seq([object : Objects, family : Families,
                        value : FeatureValues \cup {NoProperty}])
    /\ truncated \in BOOLEAN /\ passed \in BOOLEAN

KeysDistinct == \A a, b \in Objects : KeyOf[a] = KeyOf[b] => a = b

\* The least set that holds the document object and is closed under links.
Reachable ==
    {o \in Objects : \A S \in SUBSET Objects :
        (Root \in S /\ \A p \in S : \A i \in DOMAIN links[p] : links[p][i] \in S) => o \in S}

\* What the rule would say of the whole document and the values as they are.
DocumentPasses(r) ==
    Passes(r, {property[o] : o \in {p \in Reachable :
                    FamilyOf[p] = r.family /\ property[p] # NoProperty}})

\* A report that is not marked truncated has every reachable object of the
\* selected families, once, whatever cycles and shared links there are.
FeaturesComplete ==
    pc = "done" /\ needs_features /\ ~truncated /\ KeysDistinct =>
        /\ {objects[i].object : i \in DOMAIN objects}
              = {o \in Reachable : FamilyOf[o] \in selected_feature_families}
        /\ \A i, j \in DOMAIN objects : objects[i].object = objects[j].object => i = j

\* On a report that is not truncated the policy's result is the truth about the
\* document, however narrow the caller's selection of families is, provided
\* redaction does not hide what the rule compares.
PolicyExact ==
    pc = "done" /\ ~truncated /\ KeysDistinct =>
        \A r \in policy : (safe \/ r.value.type # "string") =>
            (passed <=> DocumentPasses(r))

\* On a truncated report a pass of the operators that look for a witness is
\* still the truth: the witness is in the document.  (Absent and NotEquals say
\* nothing then: their pass may be due to the objects that were cut off.)
WitnessSound ==
    pc = "done" /\ passed =>
        \A r \in policy : r.operator \in {"Exists", "Equals", "Min", "Max"} => DocumentPasses(r)

===============================================================================
