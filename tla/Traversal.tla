------------------------------- MODULE Traversal -------------------------------
(***************************************************************************)
(* ValidationSession::validate_profile and the ProfileState it fills: the  *)
(* explicit work stack over the model objects of one document, the set of  *)
(* identity keys already seen, the max_objects budget, the immediate and   *)
(* the deferred rules, the counters and the bounded assertion detail.      *)
(*                                                                         *)
(* `links` is the document: the objects each object's linked_objects call  *)
(* would return.  It is picked once and never changes.  The outcome of a   *)
(* rule is left open: an evaluation passes, fails, ends with a             *)
(* PdfvError::Profile ("unsupported") or with any other error ("fatal").   *)
(***************************************************************************)
EXTENDS Integers, Sequences, FiniteSets

CONSTANTS
    Objects,              \* model objects (ModelObjectRef values)
    Root,                 \* ModelObjectRef::Document
    Keys,                 \* identity keys
    KeyOf,                \* [Objects -> Keys]: identity_key()
    LinkLists,            \* the link lists an object may have
    Types,                \* object type names
    TypesOf,              \* [Objects -> Seq(Types)]: own type, then supertypes
    Rules,                \* rule entries of the profile
    RuleIds, IdOf,        \* [Rules -> RuleIds]: rule.id; nothing makes it unique
    Profile,              \* Seq(Rules): profile.rules in file order
    RuleType,             \* [Rules -> Types]: rule.object_type
    DeferredRules,        \* rules with rule.deferred
    StaticUnsupported,    \* rules whose test is RuleExpr::Unsupported
    MaxObjects,           \* limits.max_objects
    MaxFailed,            \* max_failed_assertions_per_rule
    RecordPassed,         \* record_passed_assertions
    CounterLimit          \* largest counter value (u64::MAX in the code)

ASSUME GraphAssumption ==
    /\ Root \in Objects
    /\ IsFiniteSet(Objects)
    /\ KeyOf \in [Objects -> Keys]
    /\ LinkLists \subseteq Seq(Objects)

ASSUME RuleAssumption ==
    /\ TypesOf \in [Objects -> Seq(Types)]
    /\ Profile \in Seq(Rules)
    /\ \A i, j \in DOMAIN Profile : Profile[i] = Profile[j] => i = j
    /\ \A o \in Objects : \A i, j \in DOMAIN TypesOf[o] :
            TypesOf[o][i] = TypesOf[o][j] => i = j
    /\ RuleType \in [Rules -> Types]
    /\ IdOf \in [Rules -> RuleIds]
    /\ DeferredRules \subseteq Rules
    /\ StaticUnsupported \subseteq Rules

\* ValidationOptions keeps max_failed_assertions_per_rule non-zero.
ASSUME LimitAssumption ==
    /\ MaxObjects \in Nat
    /\ MaxFailed \in Nat \ {0}
    /\ RecordPassed \in BOOLEAN
    /\ CounterLimit \in Nat \ {0}

VARIABLES
    links,                \* [Objects -> LinkLists]
    pc,                   \* where validate_profile is, or how it returned
    stack,                \* Seq(Objects), top at the end
    visited,              \* SUBSET Keys
    current,              \* the object popped last
    todo,                 \* rule slots of current still to run
    deferred,             \* Seq(Objects \X Rules)
    checks_executed,
    rules_executed,
    failed_rules,
    failed_assertions,    \* Seq of [ordinal, rule, object]
    passed_assertions,    \* Seq of [ordinal, rule, object]
    unsupported_rules,    \* set of <<rule, object>>, <<rule, "static">>
    retained,             \* [RuleIds -> Nat]: retained_failures_by_rule
    next_ordinal,
    opened,               \* history: the objects that were not skipped
    verdicts              \* history: set of <<object, rule, outcome>>

walkVars == <<stack, visited, current, opened>>
counterVars == <<checks_executed, rules_executed>>
detailVars == <<failed_rules, failed_assertions, passed_assertions,
                retained, next_ordinal>>
vars == <<links, pc, walkVars, todo, deferred, counterVars, detailVars,
          unsupported_rules, verdicts>>

Outcomes == {"passed", "failed", "unsupported"}

Stopped == {"done", "limit_exceeded", "overflow", "fatal"}

-------------------------------------------------------------------------------
(* RuleIndex::rules_for: a slot <<i, j>> is rule j of the profile found     *)
(* under the i-th of the object's types; rules run in lexicographic order.  *)

RuleSlots(o) ==
    {s \in (DOMAIN TypesOf[o]) \X (DOMAIN Profile) :
        RuleType[Profile[s[2]]] = TypesOf[o][s[1]]}

\* The rule loop skips statically unsupported rules.
ExecutableSlots(o) == {s \in RuleSlots(o) : Profile[s[2]] \notin StaticUnsupported}

Before(s, t) == s[1] < t[1] \/ (s[1] = t[1] /\ s[2] < t[2])

IsNextSlot(s) == s \in todo /\ \A t \in todo \ {s} : Before(s, t)

Applicable ==
    {p \in Objects \X Rules :
        \E s \in ExecutableSlots(p[1]) : Profile[s[2]] = p[2]}

-------------------------------------------------------------------------------
StaticEntries ==
    {<<r, "static">> : r \in {Profile[i] : i \in DOMAIN Profile} \cap StaticUnsupported}

\* register_static_unsupported_rules runs before the first object is popped.
Init ==
    /\ links \in [Objects -> LinkLists]
    /\ pc = "pop"
    /\ stack = <<Root>>
    /\ visited = {}
    /\ current = Root
    /\ todo = {}
    /\ deferred = <<>>
    /\ checks_executed = 0
    /\ rules_executed = 0
    /\ failed_rules = 0
    /\ failed_assertions = <<>>
    /\ passed_assertions = <<>>
    /\ unsupported_rules = StaticEntries
    /\ retained = [id \in RuleIds |-> 0]
    /\ next_ordinal = 1
    /\ opened = {}
    /\ verdicts = {}

Top == stack[Len(stack)]

\* Mutant of PopSeen: an object seen before is put off, not dropped.
PopSeenLater ==
    /\ pc = "pop" /\ stack # <<>>
    /\ KeyOf[Top] \in visited
    /\ stack' = <<Top>> \o SubSeq(stack, 1, Len(stack) - 1)
    /\ UNCHANGED <<links, pc, visited, current, opened, todo, deferred,
                   counterVars, detailVars, unsupported_rules, verdicts>>

\* A popped object whose key was seen before is dropped: its rules and its
\* links are not looked at again.
PopSeen ==
    /\ pc = "pop" /\ stack # <<>>
    /\ KeyOf[Top] \in visited
    /\ stack' = SubSeq(stack, 1, Len(stack) - 1)
    /\ UNCHANGED <<links, pc, visited, current, opened, todo, deferred,
                   counterVars, detailVars, unsupported_rules, verdicts>>

PopNew ==
    /\ pc = "pop" /\ stack # <<>>
    /\ KeyOf[Top] \notin visited
    /\ stack' = SubSeq(stack, 1, Len(stack) - 1)
    /\ visited' = visited \cup {KeyOf[Top]}
    /\ current' = Top
    /\ opened' = opened \cup {Top}
    /\ todo' = ExecutableSlots(Top)
    /\ pc' = "rules"
    /\ UNCHANGED <<links, deferred, counterVars, detailVars,
                   unsupported_rules, verdicts>>

-------------------------------------------------------------------------------
(* ProfileState::apply_rule                                                 *)

\* checked_add on the two check counters; they move together.
CountersFull == rules_executed = CounterLimit

CountCheck ==
    /\ rules_executed' = rules_executed + 1
    /\ checks_executed' = checks_executed + 1

AssertionOf(o, r) == [ordinal |-> next_ordinal, rule |-> r, object |-> o]

\* assertion() would step next_ordinal past the largest counter value.
OrdinalFull == next_ordinal = CounterLimit

RecordPass(o, r) ==
    /\ IF RecordPassed
       THEN /\ passed_assertions' = Append(passed_assertions, AssertionOf(o, r))
            /\ next_ordinal' = next_ordinal + 1
       ELSE UNCHANGED <<passed_assertions, next_ordinal>>
    /\ UNCHANGED <<failed_rules, failed_assertions, retained, unsupported_rules>>

\* Mutant of RecordFailure: a failure past the cap is not counted either.
RecordFailureUpToCap(o, r) ==
    /\ IF retained[IdOf[r]] < MaxFailed
       THEN /\ failed_rules' = failed_rules + 1
            /\ failed_assertions' = Append(failed_assertions, AssertionOf(o, r))
            /\ next_ordinal' = next_ordinal + 1
            /\ retained' = [retained EXCEPT ![IdOf[r]] = @ + 1]
       ELSE UNCHANGED <<failed_rules, failed_assertions, next_ordinal, retained>>
    /\ UNCHANGED <<passed_assertions, unsupported_rules>>

\* Every failure is counted, the first MaxFailed of a rule are kept in detail.
RecordFailure(o, r) ==
    /\ failed_rules' = failed_rules + 1
    /\ IF retained[IdOf[r]] < MaxFailed
       THEN /\ failed_assertions' = Append(failed_assertions, AssertionOf(o, r))
            /\ next_ordinal' = next_ordinal + 1
            /\ retained' = [retained EXCEPT ![IdOf[r]] = @ + 1]
       ELSE UNCHANGED <<failed_assertions, next_ordinal, retained>>
    /\ UNCHANGED <<passed_assertions, unsupported_rules>>

\* Mutant of RecordUnsupported: a rule that cannot be evaluated is skipped.
SkipUnsupported(o, r) == UNCHANGED <<detailVars, unsupported_rules>>

\* A PdfvError::Profile turns into an unsupported-rule entry, not an error.
RecordUnsupported(o, r) ==
    /\ unsupported_rules' = unsupported_rules \cup {<<r, o>>}
    /\ UNCHANGED detailVars

NeedsOrdinal(r, outcome) ==
    \/ outcome = "passed" /\ RecordPassed
    \/ outcome = "failed" /\ retained[IdOf[r]] < MaxFailed

\* apply_rule returning Ok.
ApplyRule(o, r, outcome) ==
    /\ ~CountersFull
    /\ NeedsOrdinal(r, outcome) => ~OrdinalFull
    /\ CountCheck
    /\ \/ outcome = "passed" /\ RecordPass(o, r)
       \/ outcome = "failed" /\ RecordFailure(o, r)
       \/ outcome = "unsupported" /\ RecordUnsupported(o, r)
    /\ verdicts' = verdicts \cup {<<o, r, outcome>>}

\* apply_rule returning Err: a counter is full, or evaluate failed with an
\* error that is not a profile error.  validate_profile gives up at once, so
\* the partly updated counters are dropped with the rest of the state.
ApplyRuleFails(r) ==
    /\ \/ CountersFull /\ pc' = "overflow"
       \/ /\ ~CountersFull /\ OrdinalFull
          /\ \E outcome \in Outcomes : NeedsOrdinal(r, outcome)
          /\ pc' = "overflow"
       \/ ~CountersFull /\ pc' = "fatal"
    /\ UNCHANGED <<links, walkVars, todo, deferred, counterVars, detailVars,
                   unsupported_rules, verdicts>>

-------------------------------------------------------------------------------
DeferRule(s) ==
    /\ pc = "rules" /\ IsNextSlot(s)
    /\ Profile[s[2]] \in DeferredRules
    /\ deferred' = Append(deferred, <<current, Profile[s[2]]>>)
    /\ todo' = todo \ {s}
    /\ UNCHANGED <<links, pc, walkVars, counterVars, detailVars,
                   unsupported_rules, verdicts>>

CheckNow(s, outcome) ==
    /\ pc = "rules" /\ IsNextSlot(s)
    /\ Profile[s[2]] \notin DeferredRules
    /\ ApplyRule(current, Profile[s[2]], outcome)
    /\ todo' = todo \ {s}
    /\ UNCHANGED <<links, pc, walkVars, deferred>>

CheckNowFails(s) ==
    /\ pc = "rules" /\ IsNextSlot(s)
    /\ Profile[s[2]] \notin DeferredRules
    /\ ApplyRuleFails(Profile[s[2]])

\* remaining_object_budget: what is left once the visited and the pending
\* objects are taken off; negative when checked_sub fails.
Budget == MaxObjects - (Cardinality(visited) + Len(stack))

OverBudget ==
    \/ Cardinality(visited) > MaxObjects
    \/ Budget < 0
    \/ Len(links[current]) > Budget

\* linked_objects, each object going through push_linked, then the pushes.
FollowLinks ==
    /\ pc = "rules" /\ todo = {}
    /\ ~OverBudget
    /\ stack' = stack \o links[current]
    /\ pc' = "pop"
    /\ UNCHANGED <<links, visited, current, opened, todo, deferred,
                   counterVars, detailVars, unsupported_rules, verdicts>>

FollowLinksFails ==
    /\ pc = "rules" /\ todo = {}
    /\ pc' = IF OverBudget THEN "limit_exceeded" ELSE "fatal"
    /\ UNCHANGED <<links, walkVars, todo, deferred, counterVars, detailVars,
                   unsupported_rules, verdicts>>

\* Mutant of Drain: the deferred rules are forgotten.
DrainToReport ==
    /\ pc = "pop" /\ stack = <<>>
    /\ pc' = "done"
    /\ UNCHANGED <<links, walkVars, todo, deferred, counterVars, detailVars,
                   unsupported_rules, verdicts>>

Drain ==
    /\ pc = "pop" /\ stack = <<>>
    /\ pc' = "deferred"
    /\ UNCHANGED <<links, walkVars, todo, deferred, counterVars, detailVars,
                   unsupported_rules, verdicts>>

CheckDeferred(outcome) ==
    /\ pc = "deferred" /\ deferred # <<>>
    /\ ApplyRule(Head(deferred)[1], Head(deferred)[2], outcome)
    /\ deferred' = Tail(deferred)
    /\ UNCHANGED <<links, pc, walkVars, todo>>

CheckDeferredFails ==
    /\ pc = "deferred" /\ deferred # <<>>
    /\ ApplyRuleFails(Head(deferred)[2])

Finish ==
    /\ pc = "deferred" /\ deferred = <<>>
    /\ pc' = "done"
    /\ UNCHANGED <<links, walkVars, todo, deferred, counterVars, detailVars,
                   unsupported_rules, verdicts>>

\* validate_profile has returned.
Returned == pc \in Stopped /\ UNCHANGED vars

Walk == PopSeen \/ PopNew \/ FollowLinks \/ FollowLinksFails \/ Drain

RunRules ==
    \E s \in todo :
        \/ DeferRule(s)
        \/ \E outcome \in Outcomes : CheckNow(s, outcome)
        \/ CheckNowFails(s)

RunDeferred ==
    \/ \E outcome \in Outcomes : CheckDeferred(outcome)
    \/ CheckDeferredFails
    \/ Finish

Progress == Walk \/ RunRules \/ RunDeferred

Next == Progress \/ Returned

Spec == Init /\ [][Next]_vars

\* The session is a plain sequential loop: it is never left waiting.
FairSpec == Spec /\ WF_vars(Progress)

\* ProfileReport::is_compliant, as finish() computes it.
is_compliant == failed_rules = 0 /\ unsupported_rules = {}

-------------------------------------------------------------------------------
\* The checks made so far, their outcomes left out.
Made == {<<v[1], v[2]>> : v \in verdicts}

Assertion == [ordinal : Nat \ {0}, rule : Rules, object : Objects]

\* Types of the session's state and of the counters and assertion lists that
\* validate_profile fills.
TypeOK ==
    /\ links \in [Objects -> LinkLists]
    /\ pc \in {"pop", "rules", "deferred"} \cup Stopped
    /\ stack \in Seq(Objects)
    /\ visited \subseteq Keys
    /\ current \in Objects
    /\ todo \subseteq ExecutableSlots(current)
    /\ deferred \in Seq(Objects \X Rules)
    /\ checks_executed \in Nat /\ rules_executed \in Nat /\ failed_rules \in Nat
    /\ failed_assertions \in Seq(Assertion) /\ passed_assertions \in Seq(Assertion)
    /\ unsupported_rules \subseteq Rules \X (Objects \cup {"static"})
    /\ retained \in [RuleIds -> Nat]
    /\ next_ordinal \in Nat \ {0}
    /\ opened \subseteq Objects
    /\ verdicts \subseteq Objects \X Rules \X Outcomes

\* The objects that hold a place in memory (seen keys and pending stack
\* entries, duplicates included) never exceed max_objects, whatever the
\* shape of the graph: remaining_object_budget hands linked_objects only what
\* is left.  The document object itself is pushed without asking the budget.
WithinBudget ==
    Cardinality(visited) + Len(stack) <= (IF MaxObjects = 0 THEN 1 ELSE MaxObjects)

\* Skipping an object because its key was seen never loses part of the
\* document: in every state each link of an opened object other than the one
\* being processed leads to a key that was seen or to a pending object.
NothingLost ==
    \A o \in opened : (pc = "rules" /\ o = current)
        \/ pc \in Stopped \ {"done"}
        \/ \A i \in DOMAIN links[o] :
              \/ KeyOf[links[o][i]] \in visited
              \/ \E j \in DOMAIN stack : stack[j] = links[o][i]

Failures(id) == {v \in verdicts : v[3] = "failed" /\ IdOf[v[2]] = id}

Details(id) == {i \in DOMAIN failed_assertions : IdOf[failed_assertions[i].rule] = id}

\* The assertion detail is capped per rule id, the counters never are: every
\* failure is counted, and each failing rule id keeps its first
\* max_failed_assertions_per_rule failures, so none is hidden altogether.
NoFailureHidden ==
    /\ failed_rules = Cardinality({v \in verdicts : v[3] = "failed"})
    /\ checks_executed = Cardinality(Made)
    /\ \A id \in RuleIds :
          LET n == Cardinality(Failures(id))
          IN  Cardinality(Details(id)) = IF n < MaxFailed THEN n ELSE MaxFailed

\* Ordinals number the retained assertions, passed and failed together,
\* without a gap and without a repetition.
OrdinalsContiguous ==
    LET ordinals(s) == {s[i].ordinal : i \in DOMAIN s}
    IN  /\ ordinals(failed_assertions) \cup ordinals(passed_assertions) = 1 .. (next_ordinal - 1)
        /\ Len(failed_assertions) + Len(passed_assertions) = next_ordinal - 1

\* The report leaves out no failure it does not say it leaves out, and its
\* assertions can be told apart by their ordinals.
AssertionsComplete == NoFailureHidden /\ OrdinalsContiguous

\* Once a deferred rule has run no immediate rule runs and no object is
\* opened: deferred rules see the document after the whole walk.
DeferredLast ==
    [][(\E v \in verdicts : v[2] \in DeferredRules)
        => /\ opened' = opened
           /\ \A v \in verdicts' \ verdicts : v[2] \in DeferredRules]_vars

\* The object checked after one with links is the first of these links, as the
\* traversal algorithm of the design document has it ("push linked objects in
\* reverse order"), so that assertions come out in document order.
DocumentOrder ==
    [][pc = "rules" /\ pc' = "pop" /\ links[current] # <<>>
        => stack'[Len(stack')] = links[current][1]]_vars

\* The walk ends on every graph, cyclic ones included.
Terminates == <>(pc \in Stopped)

\* Identity keys tell the model objects of the document apart.
KeysDistinct == \A a, b \in Objects : KeyOf[a] = KeyOf[b] => a = b

\* The session implements the abstract profile check: each applicable rule is
\* evaluated once on each reachable object, deferred rules last.  It needs
\* KeysDistinct.
Abstract == INSTANCE ProfileCheck WITH
    phase <- IF pc = "done" THEN "done"
             ELSE IF pc \in Stopped THEN "error" ELSE "checking"

Refinement == Abstract!AbsSpec

\* What the checks of rule p[2] on object p[1] came to.
OutcomesOf(p) == {v[3] : v \in {w \in verdicts : <<w[1], w[2]>> = p}}

\* The report's verdict is the truth about the document: a finished run calls
\* the document compliant exactly when no rule of the profile is statically
\* unsupported and every rule that applies to an object reachable from the
\* document object, at once or deferred, passed on it; a check never made, or
\* one that could not be evaluated, does not count as passed.  It needs
\* KeysDistinct.
VerdictSound ==
    pc = "done" =>
        (is_compliant <=>
            /\ \A i \in DOMAIN Profile : Profile[i] \notin StaticUnsupported
            /\ \A p \in Abstract!Due : OutcomesOf(p) = {"passed"})
===============================================================================
