---------------------------- MODULE TraversalProofs ----------------------------
(***************************************************************************)
(* Proofs about validate_profile for every document graph, every profile   *)
(* and every limit.                                                        *)
(***************************************************************************)
EXTENDS Traversal, TLAPS, FiniteSetTheorems, SequenceTheorems

(* The top of a non-empty stack is an object, and dropping it leaves a      *)
(* shorter stack of the objects below it.                                   *)
LEMMA PopFact ==
    ASSUME TypeOK, stack # <<>>
    PROVE  /\ Top \in Objects
           /\ Len(stack) \in Nat \ {0}
           /\ SubSeq(stack, 1, Len(stack) - 1) \in Seq(Objects)
           /\ Len(SubSeq(stack, 1, Len(stack) - 1)) = Len(stack) - 1
           /\ \A i \in 1 .. (Len(stack) - 1) :
                SubSeq(stack, 1, Len(stack) - 1)[i] = stack[i]
<1> DEFINE n == Len(stack) - 1
           t == SubSeq(stack, 1, n)
<1>1. stack \in Seq(Objects)
    BY DEF TypeOK
<1>2. Len(stack) \in Nat \ {0} /\ stack[Len(stack)] \in Objects
    BY <1>1
<1>3. n \in Nat /\ n \in Int /\ 1 \in Int /\ \A i \in 1 .. n : stack[i] \in Objects
    BY <1>1, <1>2
<1>4. /\ t \in Seq(Objects)
      /\ Len(t) = IF 1 <= n THEN n - 1 + 1 ELSE 0
      /\ \A i \in 1 .. n - 1 + 1 : t[i] = stack[1 + i - 1]
    <2> HIDE DEF n
    <2> QED BY <1>3, SubSeqProperties
<1>5. Len(t) = n /\ \A i \in 1 .. n : t[i] = stack[i]
    <2> HIDE DEF n, t
    <2>1. n - 1 + 1 = n /\ \A i \in 1 .. n : 1 + i - 1 = i
        BY <1>3
    <2>2. Len(t) = n
        BY <1>3, <1>4
    <2> QED BY <1>3, <1>4, <2>1, <2>2
<1> QED BY <1>2, <1>4, <1>5 DEF Top

(* A successful apply_rule keeps the counters, the assertion lists and the  *)
(* history well typed.                                                      *)
LEMMA ApplyRuleType ==
    ASSUME TypeOK, NEW o \in Objects, NEW r \in Rules, NEW outcome \in Outcomes,
           ApplyRule(o, r, outcome)
    PROVE  /\ checks_executed' \in Nat /\ rules_executed' \in Nat /\ failed_rules' \in Nat
           /\ failed_assertions' \in Seq(Assertion) /\ passed_assertions' \in Seq(Assertion)
           /\ unsupported_rules' \subseteq Rules \X (Objects \cup {"static"})
           /\ retained' \in [RuleIds -> Nat]
           /\ next_ordinal' \in Nat \ {0}
           /\ verdicts' \subseteq Objects \X Rules \X Outcomes
<1>0. AssertionOf(o, r) \in Assertion
    BY DEF TypeOK, AssertionOf, Assertion
<1>1. IdOf[r] \in RuleIds
    BY RuleAssumption
<1>a. /\ Append(failed_assertions, AssertionOf(o, r)) \in Seq(Assertion)
      /\ Append(passed_assertions, AssertionOf(o, r)) \in Seq(Assertion)
      /\ next_ordinal + 1 \in Nat \ {0}
      /\ failed_rules + 1 \in Nat
      /\ [retained EXCEPT ![IdOf[r]] = @ + 1] \in [RuleIds -> Nat]
    BY <1>0, <1>1 DEF TypeOK
<1>2. /\ checks_executed' \in Nat /\ rules_executed' \in Nat
      /\ verdicts' \subseteq Objects \X Rules \X Outcomes
    BY DEF TypeOK, ApplyRule, CountCheck
<1>3. CASE outcome = "passed"
    <2>1. RecordPass(o, r)
        BY <1>3 DEF ApplyRule
    <2> QED BY <1>a, <1>2, <2>1 DEF TypeOK, RecordPass
<1>4. CASE outcome = "failed"
    <2>1. RecordFailure(o, r)
        BY <1>4 DEF ApplyRule
    <2> QED BY <1>a, <1>2, <2>1 DEF TypeOK, RecordFailure
<1>5. CASE outcome = "unsupported"
    <2>1. RecordUnsupported(o, r)
        BY <1>5 DEF ApplyRule
    <2> QED BY <1>2, <2>1 DEF TypeOK, RecordUnsupported, detailVars
<1> QED BY <1>3, <1>4, <1>5 DEF Outcomes

(* A rule slot names a rule of the profile. *)
LEMMA SlotRule ==
    ASSUME TypeOK, NEW s \in todo
    PROVE  /\ Profile[s[2]] \in Rules
           /\ s \in ExecutableSlots(current)
BY RuleAssumption DEF TypeOK, ExecutableSlots, RuleSlots

\* Every step of validate_profile keeps the types.
LEMMA TypeStep == TypeOK /\ [Next]_vars => TypeOK'
<1> SUFFICES ASSUME TypeOK, [Next]_vars PROVE TypeOK'
    OBVIOUS
<1>1. CASE PopSeen
    BY <1>1, PopFact DEF PopSeen, TypeOK, counterVars, detailVars
<1>2. CASE PopNew
    <2>1. KeyOf[Top] \in Keys
        BY <1>2, PopFact, GraphAssumption DEF PopNew
    <2> QED BY <1>2, <2>1, PopFact DEF PopNew, TypeOK, counterVars, detailVars
<1>3. CASE FollowLinks
    <2>1. links[current] \in Seq(Objects)
        BY GraphAssumption DEF TypeOK
    <2> QED BY <1>3, <2>1 DEF FollowLinks, TypeOK, counterVars, detailVars
<1>4. CASE FollowLinksFails
    BY <1>4 DEF FollowLinksFails, TypeOK, Stopped, walkVars, counterVars, detailVars
<1>5. CASE Drain
    BY <1>5 DEF Drain, TypeOK, walkVars, counterVars, detailVars
<1>6. ASSUME NEW s \in todo, DeferRule(s) PROVE TypeOK'
    <2>1. <<current, Profile[s[2]]>> \in Objects \X Rules
        BY SlotRule DEF TypeOK
    <2>2. deferred' \in Seq(Objects \X Rules)
        BY <1>6, <2>1 DEF DeferRule, TypeOK
    <2> QED BY <1>6, <2>2 DEF DeferRule, TypeOK, walkVars, counterVars, detailVars
<1>7. ASSUME NEW s \in todo, NEW outcome \in Outcomes, CheckNow(s, outcome)
      PROVE  TypeOK'
    <2>1. current \in Objects /\ Profile[s[2]] \in Rules
        BY SlotRule DEF TypeOK
    <2>2. ApplyRule(current, Profile[s[2]], outcome)
        BY <1>7 DEF CheckNow
    <2> QED BY <1>7, <2>1, <2>2, ApplyRuleType DEF CheckNow, TypeOK, walkVars
<1>8. ASSUME NEW r, ApplyRuleFails(r) PROVE TypeOK'
    BY <1>8 DEF ApplyRuleFails, TypeOK, Stopped, walkVars, counterVars, detailVars
<1>9. ASSUME NEW outcome \in Outcomes, CheckDeferred(outcome) PROVE TypeOK'
    <2>1. /\ Head(deferred)[1] \in Objects /\ Head(deferred)[2] \in Rules
          /\ Tail(deferred) \in Seq(Objects \X Rules)
        BY <1>9 DEF CheckDeferred, TypeOK
    <2>2. ApplyRule(Head(deferred)[1], Head(deferred)[2], outcome)
        BY <1>9 DEF CheckDeferred
    <2> QED BY <1>9, <2>1, <2>2, ApplyRuleType DEF CheckDeferred, TypeOK, walkVars
<1>10. CASE Finish
    BY <1>10 DEF Finish, TypeOK, Stopped, walkVars, counterVars, detailVars
<1>11. CASE UNCHANGED vars
    BY <1>11 DEF vars, TypeOK, walkVars, counterVars, detailVars
<1> QED BY <1>1, <1>2, <1>3, <1>4, <1>5, <1>6, <1>7, <1>8, <1>9, <1>10, <1>11
    DEF Next, Progress, Walk, RunRules, RunDeferred, Returned, CheckNowFails, CheckDeferredFails

(* Type correctness of validate_profile's state.                            *)
THEOREM TypeCorrect == Spec => []TypeOK
<1>1. Init => TypeOK
    BY GraphAssumption, RuleAssumption
    DEF Init, TypeOK, Assertion, ExecutableSlots, RuleSlots, StaticEntries
<1> QED BY <1>1, TypeStep, PTL DEF Spec

-------------------------------------------------------------------------------
(* The budget.                                                              *)

(* WithinBudget needs the seen keys to be a finite set: the walk adds them  *)
(* one at a time.                                                           *)
BudgetInv == IsFiniteSet(visited) /\ WithinBudget

\* Only FollowLinks lets the stack grow, and it asks the budget.
LEMMA BudgetStep == TypeOK /\ BudgetInv /\ [Next]_vars => BudgetInv'
<1> SUFFICES ASSUME TypeOK, BudgetInv, [Next]_vars PROVE BudgetInv'
    OBVIOUS
<1> DEFINE limit == IF MaxObjects = 0 THEN 1 ELSE MaxObjects
<1>0. /\ limit \in Nat /\ MaxObjects <= limit
      /\ Cardinality(visited) \in Nat /\ Len(stack) \in Nat
    BY LimitAssumption, FS_CardinalityType DEF BudgetInv, TypeOK
<1>1. CASE PopSeen
    <2>1. visited' = visited /\ Len(stack') = Len(stack) - 1
        BY <1>1, PopFact DEF PopSeen
    <2> QED BY <1>0, <2>1 DEF BudgetInv, WithinBudget
<1>2. CASE PopNew
    <2>1. Len(stack') = Len(stack) - 1
        BY <1>2, PopFact DEF PopNew
    <2>2. IsFiniteSet(visited') /\ Cardinality(visited') = Cardinality(visited) + 1
        BY <1>2, FS_AddElement DEF PopNew, BudgetInv
    <2> QED BY <1>0, <2>1, <2>2 DEF BudgetInv, WithinBudget
<1>3. CASE FollowLinks
    <2>1. links[current] \in Seq(Objects)
        BY GraphAssumption DEF TypeOK
    <2>2. Len(links[current]) \in Nat /\ Len(stack') = Len(stack) + Len(links[current])
        BY <1>3, <2>1 DEF FollowLinks, TypeOK
    <2>3. Len(links[current]) <= MaxObjects - (Cardinality(visited) + Len(stack))
        BY <1>0, <1>3, <2>2, LimitAssumption DEF FollowLinks, OverBudget, Budget
    <2>4. visited' = visited
        BY <1>3 DEF FollowLinks
    <2> QED BY <1>0, <2>2, <2>3, <2>4, LimitAssumption DEF BudgetInv, WithinBudget
<1>4. CASE UNCHANGED <<visited, stack>>
    BY <1>4 DEF BudgetInv, WithinBudget
<1> QED BY <1>1, <1>2, <1>3, <1>4
    DEF Next, Progress, Walk, RunRules, RunDeferred, Returned, FollowLinksFails, Drain,
        DeferRule, CheckNow, CheckNowFails, ApplyRuleFails, CheckDeferred,
        CheckDeferredFails, Finish, vars, walkVars

(* The seen and the pending objects of one validation never exceed          *)
(* max_objects, for every document graph and every limit.                   *)
THEOREM BudgetHolds == Spec => []WithinBudget
<1>1. Init => BudgetInv
    BY LimitAssumption, FS_EmptySet DEF Init, BudgetInv, WithinBudget
<1>2. BudgetInv => WithinBudget
    BY DEF BudgetInv
<1> QED BY <1>1, <1>2, BudgetStep, TypeCorrect, PTL DEF Spec

-------------------------------------------------------------------------------
(* The walk: which objects are opened, seen and pending.                    *)

OnStack(o) == \E j \in DOMAIN stack : stack[j] = o

(* Keys are seen exactly by opening objects, the document object is seen or *)
(* pending, and the stack is drained before the deferred rules run.         *)
WalkInv ==
    /\ visited = {KeyOf[o] : o \in opened}
    /\ KeyOf[Root] \in visited \/ OnStack(Root)
    /\ pc = "rules" => current \in opened
    /\ pc \in {"deferred", "done"} => stack = <<>>
    /\ NothingLost

(* Popping takes only the top object off the stack. *)
LEMMA StackAfterPop ==
    ASSUME TypeOK, stack # <<>>, stack' = SubSeq(stack, 1, Len(stack) - 1),
           NEW o, OnStack(o), o # Top
    PROVE  OnStack(o)'
<1>1. PICK j \in DOMAIN stack : stack[j] = o
    BY DEF OnStack
<1>2. j \in 1 .. (Len(stack) - 1)
    BY <1>1, PopFact DEF TypeOK, Top
<1>3. j \in DOMAIN stack' /\ stack'[j] = o
    <2>1. Len(stack') = Len(stack) - 1 /\ stack' \in Seq(Objects) /\ stack'[j] = stack[j]
        BY <1>2, PopFact
    <2> QED BY <1>1, <1>2, <2>1
<1> QED BY <1>3 DEF OnStack

(* Pushing links keeps what was pending and makes the links pending. *)
LEMMA StackAfterPush ==
    ASSUME TypeOK, stack' = stack \o links[current], NEW o,
           OnStack(o) \/ \E i \in DOMAIN links[current] : links[current][i] = o
    PROVE  OnStack(o)'
<1>1. links[current] \in Seq(Objects) /\ stack \in Seq(Objects)
    BY GraphAssumption DEF TypeOK
<1> DEFINE l == links[current]
<1>2. /\ DOMAIN stack = 1 .. Len(stack) /\ DOMAIN l = 1 .. Len(l)
      /\ Len(stack) \in Nat /\ Len(l) \in Nat
      /\ DOMAIN stack' = 1 .. (Len(stack) + Len(l))
    BY <1>1
<1>3. ASSUME NEW j \in DOMAIN stack, stack[j] = o PROVE OnStack(o)'
    <2>1. j \in DOMAIN stack' /\ stack'[j] = o
        BY <1>1, <1>2, <1>3
    <2> QED BY <2>1 DEF OnStack
<1>4. ASSUME NEW i \in DOMAIN l, l[i] = o PROVE OnStack(o)'
    <2>1. Len(stack) + i \in DOMAIN stack' /\ stack'[Len(stack) + i] = o
        BY <1>1, <1>2, <1>4
    <2> QED BY <2>1 DEF OnStack
<1> QED BY <1>3, <1>4 DEF OnStack

\* Every step keeps the relation between opened, seen and pending objects.
LEMMA WalkStep == TypeOK /\ WalkInv /\ [Next]_vars => WalkInv'
<1> SUFFICES ASSUME TypeOK, WalkInv, [Next]_vars PROVE WalkInv'
    OBVIOUS
<1> USE DEF WalkInv
<1>1. CASE PopSeen
    <2>1. UNCHANGED <<links, pc, visited, current, opened>> /\ pc = "pop" /\ stack # <<>>
        BY <1>1 DEF PopSeen
    <2>2. \A o : OnStack(o) => KeyOf[o] \in visited \/ OnStack(o)'
        BY <1>1, StackAfterPop DEF PopSeen
    <2>3. NothingLost'
        BY <2>1, <2>2 DEF NothingLost, OnStack, Stopped
    <2> QED BY <2>1, <2>2, <2>3
<1>2. CASE PopNew
    <2>1. /\ UNCHANGED links /\ pc = "pop" /\ pc' = "rules" /\ stack # <<>>
          /\ visited' = visited \cup {KeyOf[Top]} /\ opened' = opened \cup {Top}
          /\ current' = Top
        BY <1>2 DEF PopNew
    <2>2. \A o : OnStack(o) => KeyOf[o] \in visited' \/ OnStack(o)'
        BY <1>2, <2>1, StackAfterPop DEF PopNew
    <2>3. NothingLost'
        BY <2>1, <2>2 DEF NothingLost, OnStack, Stopped
    <2> QED BY <2>1, <2>2, <2>3
<1>3. CASE FollowLinks
    <2>1. /\ UNCHANGED <<links, visited, current, opened>> /\ pc = "rules" /\ pc' = "pop"
          /\ stack' = stack \o links[current]
        BY <1>3 DEF FollowLinks
    <2>2. \A o : OnStack(o) => OnStack(o)'
        BY <2>1, StackAfterPush
    <2>3. \A i \in DOMAIN links[current] : OnStack(links[current][i])'
        BY <2>1, StackAfterPush
    <2>4. NothingLost'
        BY <2>1, <2>2, <2>3 DEF NothingLost, OnStack, Stopped
    <2> QED BY <2>1, <2>2, <2>4
<1>4. CASE UNCHANGED <<links, pc, walkVars>>
    BY <1>4 DEF walkVars, NothingLost, OnStack
<1>5. CASE UNCHANGED <<links, walkVars>> /\ pc' \in Stopped \ {"done"}
    BY <1>5 DEF walkVars, NothingLost, OnStack, Stopped
<1>6. CASE Drain \/ Finish
    BY <1>6 DEF Drain, Finish, walkVars, NothingLost, OnStack, Stopped
<1> QED BY <1>1, <1>2, <1>3, <1>4, <1>5, <1>6
    DEF Next, Progress, Walk, RunRules, RunDeferred, Returned, FollowLinksFails,
        DeferRule, CheckNow, CheckNowFails, ApplyRuleFails, CheckDeferred,
        CheckDeferredFails, vars, Stopped

\* The walk invariant holds throughout.
LEMMA WalkHolds == Spec => []WalkInv
<1>1. Init => WalkInv
    BY DEF Init, WalkInv, OnStack, NothingLost
<1> QED BY <1>1, WalkStep, TypeCorrect, PTL DEF Spec

(* Skipping an object whose identity key was seen never loses a part of the *)
(* document: what its links lead to was seen or is still pending.           *)
THEOREM NothingLostHolds == Spec => []NothingLost
<1>1. WalkInv => NothingLost
    BY DEF WalkInv
<1> QED BY <1>1, WalkHolds, PTL

-------------------------------------------------------------------------------
(* The checks: every applicable pair of an opened object is made, deferred  *)
(* or still in the rule loop, and in one of these places only.              *)

Waiting(p) == \E j \in DOMAIN deferred : deferred[j] = p

InLoop(p) == p[1] = current /\ \E s \in todo : Profile[s[2]] = p[2]

WorkInv ==
    /\ pc \in {"pop", "deferred", "done"} => todo = {}
    /\ pc = "done" => deferred = <<>>
    /\ \A p \in Applicable : p[1] \in opened => p \in Made \/ Waiting(p) \/ InLoop(p)
    /\ Made \subseteq {p \in Applicable : p[1] \in opened}
    /\ \A j \in DOMAIN deferred :
          /\ deferred[j] \in Applicable \ Made
          /\ deferred[j][1] \in opened
          /\ deferred[j][2] \in DeferredRules
    /\ \A i, j \in DOMAIN deferred : deferred[i] = deferred[j] => i = j
    /\ \A p : InLoop(p) => p \notin Made /\ ~Waiting(p)
    /\ (\E v \in verdicts : v[2] \in DeferredRules) => pc \in {"deferred"} \cup Stopped

(* A rule has one slot at most under an object. *)
LEMMA SlotUnique ==
    ASSUME NEW o \in Objects, NEW s \in ExecutableSlots(o), NEW t \in ExecutableSlots(o),
           Profile[s[2]] = Profile[t[2]]
    PROVE  s = t
<1>1. /\ s \in (DOMAIN TypesOf[o]) \X (DOMAIN Profile)
      /\ t \in (DOMAIN TypesOf[o]) \X (DOMAIN Profile)
      /\ RuleType[Profile[s[2]]] = TypesOf[o][s[1]]
      /\ RuleType[Profile[t[2]]] = TypesOf[o][t[1]]
    BY DEF ExecutableSlots, RuleSlots
<1>2. s[2] = t[2] /\ s[1] = t[1]
    BY <1>1, RuleAssumption
<1> QED BY <1>1, <1>2

(* apply_rule adds one pair to the checks made. *)
LEMMA MadeAfter ==
    ASSUME TypeOK, NEW o \in Objects, NEW r \in Rules, NEW outcome,
           ApplyRule(o, r, outcome)
    PROVE  Made' = Made \cup {<<o, r>>}
<1>1. verdicts' = verdicts \cup {<<o, r, outcome>>}
    BY DEF ApplyRule
<1> DEFINE t == <<o, r, outcome>>
<1>2. t[1] = o /\ t[2] = r
    OBVIOUS
<1>3. \A p : p \in Made' <=> \E v \in verdicts \cup {t} : p = <<v[1], v[2]>>
    BY <1>1 DEF Made
<1>4. \A p : p \in Made <=> \E v \in verdicts : p = <<v[1], v[2]>>
    BY DEF Made
<1> HIDE DEF t
<1>5. \A p : p \in Made' <=> p \in Made \/ p = <<o, r>>
    BY <1>2, <1>3, <1>4
<1> QED BY <1>5

(* Facts about the slot the rule loop is at. *)
LEMMA SlotFacts ==
    ASSUME TypeOK, WorkInv, NEW s \in todo
    PROVE  /\ Profile[s[2]] \in Rules
           /\ <<current, Profile[s[2]]>> \in Applicable
           /\ InLoop(<<current, Profile[s[2]]>>)
           /\ \A p : p[1] = current /\ (\E t \in todo \ {s} : Profile[t[2]] = p[2])
                  => p[2] # Profile[s[2]]
<1>1. s \in ExecutableSlots(current) /\ Profile[s[2]] \in Rules /\ current \in Objects
    BY SlotRule DEF TypeOK
<1>2. <<current, Profile[s[2]]>> \in Applicable
    BY <1>1 DEF Applicable
<1>3. \A t \in todo \ {s} : Profile[t[2]] # Profile[s[2]]
    BY <1>1, SlotUnique DEF TypeOK
<1> QED BY <1>1, <1>2, <1>3 DEF InLoop

\* Every step keeps the account of the checks made and still due.
LEMMA WorkStep == TypeOK /\ WalkInv /\ WorkInv /\ [Next]_vars => WorkInv'
<1> SUFFICES ASSUME TypeOK, WalkInv, WorkInv, [Next]_vars PROVE WorkInv'
    OBVIOUS
<1>1. CASE PopNew
    <2>1. /\ UNCHANGED <<deferred, verdicts>> /\ opened' = opened \cup {Top} /\ current' = Top
          /\ todo' = ExecutableSlots(Top) /\ pc = "pop" /\ pc' = "rules" /\ todo = {}
        BY <1>1 DEF PopNew, WorkInv
    <2>2. Top \in Objects /\ Top \notin opened
        BY <1>1, PopFact DEF PopNew, WalkInv
    <2>3. Made' = Made /\ \A p : Waiting(p)' <=> Waiting(p)
        BY <2>1 DEF Made, Waiting
    <2>4. \A p \in Applicable : p[1] = Top => InLoop(p)'
        BY <2>1 DEF Applicable, InLoop
    <2>5. \A p : InLoop(p)' => p[1] = Top
        BY <2>1 DEF InLoop
    <2>6. \A p \in Applicable : p[1] \in opened' => p \in Made' \/ Waiting(p)' \/ InLoop(p)'
        <3>1. \A p : ~InLoop(p)
            BY <2>1 DEF InLoop
        <3> QED BY <2>1, <2>3, <2>4, <3>1 DEF WorkInv
    <2>7. \A p : InLoop(p)' => p \notin Made' /\ ~Waiting(p)'
        BY <2>2, <2>3, <2>5 DEF WorkInv, Waiting
    <2>8. /\ Made' \subseteq {p \in Applicable : p[1] \in opened'}
          /\ \A j \in DOMAIN deferred' :
                deferred'[j] \in Applicable \ Made' /\ deferred'[j][1] \in opened'
        BY <2>1, <2>3 DEF WorkInv
    <2>9. ~\E v \in verdicts : v[2] \in DeferredRules
        BY <2>1 DEF WorkInv, Stopped
    <2> QED BY <2>1, <2>6, <2>7, <2>8, <2>9 DEF WorkInv
<1>2. ASSUME NEW s \in todo, DeferRule(s) PROVE WorkInv'
    <2> DEFINE q == <<current, Profile[s[2]]>>
    <2>1. /\ UNCHANGED <<pc, verdicts, opened, current>> /\ pc = "rules"
          /\ deferred' = Append(deferred, q) /\ todo' = todo \ {s}
          /\ q[2] \in DeferredRules
        BY <1>2 DEF DeferRule, walkVars
    <2>2. /\ q \in Applicable /\ InLoop(q) /\ q \notin Made /\ ~Waiting(q) /\ q[1] \in opened
          /\ q \in Objects \X Rules
        BY <2>1, SlotFacts DEF WorkInv, WalkInv, TypeOK
    <2>3. Made' = Made
        BY <2>1 DEF Made
    <2>4. /\ DOMAIN deferred' = 1 .. (Len(deferred) + 1)
          /\ DOMAIN deferred = 1 .. Len(deferred) /\ Len(deferred) \in Nat
          /\ \A j \in DOMAIN deferred : deferred'[j] = deferred[j]
          /\ deferred'[Len(deferred) + 1] = q
        BY <2>1, <2>2 DEF TypeOK
    <2>5. \A p : Waiting(p)' <=> Waiting(p) \/ p = q
        <3>1. \A p : Waiting(p) => Waiting(p)'
            BY <2>4 DEF Waiting
        <3>2. \A p : p = q => Waiting(p)'
            <4>1. Len(deferred) + 1 \in DOMAIN deferred'
                BY <2>4
            <4> QED BY <2>4, <4>1 DEF Waiting
        <3>3. \A j \in DOMAIN deferred' : j \in DOMAIN deferred \/ j = Len(deferred) + 1
            BY <2>4
        <3>4. \A p : Waiting(p)' => Waiting(p) \/ p = q
            BY <2>4, <3>3 DEF Waiting
        <3> QED BY <3>1, <3>2, <3>4
    <2>6. \A p : InLoop(p)' => InLoop(p) /\ p[2] # q[2]
        BY <2>1, SlotFacts DEF InLoop
    <2>7. \A p \in Objects \X Rules : InLoop(p) => InLoop(p)' \/ p = q
        BY <2>1 DEF InLoop
    <2>8. \A p \in Applicable : p[1] \in opened' => p \in Made' \/ Waiting(p)' \/ InLoop(p)'
        BY <2>1, <2>3, <2>5, <2>7 DEF WorkInv, Applicable
    <2>9. \A i, j \in DOMAIN deferred' : deferred'[i] = deferred'[j] => i = j
        BY <2>2, <2>4 DEF WorkInv, Waiting
    <2>10. \A j \in DOMAIN deferred' :
              /\ deferred'[j] \in Applicable \ Made'
              /\ deferred'[j][1] \in opened'
              /\ deferred'[j][2] \in DeferredRules
        BY <2>1, <2>2, <2>3, <2>4 DEF WorkInv
    <2>11. \A p : InLoop(p)' => p \notin Made' /\ ~Waiting(p)'
        BY <2>3, <2>5, <2>6 DEF WorkInv
    <2> QED BY <2>1, <2>3, <2>8, <2>9, <2>10, <2>11 DEF WorkInv
<1>3. ASSUME NEW s \in todo, NEW outcome \in Outcomes, CheckNow(s, outcome)
      PROVE  WorkInv'
    <2> DEFINE q == <<current, Profile[s[2]]>>
    <2>1. /\ UNCHANGED <<pc, deferred, opened, current>> /\ pc = "rules"
          /\ todo' = todo \ {s} /\ q[2] \notin DeferredRules
          /\ ApplyRule(current, Profile[s[2]], outcome)
        BY <1>3 DEF CheckNow, walkVars
    <2>2. /\ q \in Applicable /\ InLoop(q) /\ ~Waiting(q) /\ q[1] \in opened
          /\ q \in Objects \X Rules
        BY <2>1, SlotFacts DEF WorkInv, WalkInv, TypeOK
    <2>3. Made' = Made \cup {q} /\ verdicts' = verdicts \cup {<<current, Profile[s[2]], outcome>>}
        BY <2>1, <2>2, MadeAfter DEF ApplyRule
    <2>4. \A p : Waiting(p)' <=> Waiting(p)
        BY <2>1 DEF Waiting
    <2>5. \A p : InLoop(p)' => InLoop(p) /\ p[2] # q[2]
        BY <2>1, SlotFacts DEF InLoop
    <2>6. \A p \in Objects \X Rules : InLoop(p) => InLoop(p)' \/ p = q
        BY <2>1 DEF InLoop
    <2>7. \A p \in Applicable : p[1] \in opened' => p \in Made' \/ Waiting(p)' \/ InLoop(p)'
        BY <2>1, <2>3, <2>4, <2>6 DEF WorkInv, Applicable
    <2>8. \A j \in DOMAIN deferred' : deferred'[j] \in Applicable \ Made'
        BY <2>1, <2>2, <2>3 DEF WorkInv, Waiting
    <2>9. \A p : InLoop(p)' => p \notin Made' /\ ~Waiting(p)'
        BY <2>3, <2>4, <2>5 DEF WorkInv
    <2>10. (\E v \in verdicts' : v[2] \in DeferredRules) => pc' \in {"deferred"} \cup Stopped
        BY <2>1, <2>3 DEF WorkInv
    <2> QED BY <2>1, <2>2, <2>3, <2>7, <2>8, <2>9, <2>10 DEF WorkInv
<1>4. ASSUME NEW outcome \in Outcomes, CheckDeferred(outcome) PROVE WorkInv'
    <2> DEFINE q == Head(deferred)
    <2>1. /\ UNCHANGED <<pc, opened, current, todo>> /\ pc = "deferred" /\ todo = {}
          /\ deferred # <<>> /\ deferred' = Tail(deferred)
          /\ ApplyRule(q[1], q[2], outcome)
        BY <1>4 DEF CheckDeferred, walkVars, WorkInv
    <2>2. /\ q \in Objects \X Rules /\ q = deferred[1] /\ 1 \in DOMAIN deferred
          /\ DOMAIN deferred = 1 .. Len(deferred) /\ Len(deferred) \in Nat \ {0}
          /\ DOMAIN deferred' = 1 .. (Len(deferred) - 1)
          /\ \A j \in DOMAIN deferred' : deferred'[j] = deferred[j + 1]
        BY <2>1 DEF TypeOK
    <2>3. Made' = Made \cup {q}
        <3>1. Made' = Made \cup {<<q[1], q[2]>>}
            BY <2>1, <2>2, MadeAfter
        <3>2. <<q[1], q[2]>> = q
            BY <2>2
        <3> HIDE DEF q
        <3> QED BY <3>1, <3>2
    <2>4. \A p : ~InLoop(p)' /\ ~InLoop(p)
        BY <2>1 DEF InLoop
    <2>5. \A p : Waiting(p) => Waiting(p)' \/ p = q
        <3> SUFFICES ASSUME NEW p, NEW j \in DOMAIN deferred, deferred[j] = p, p # q
                     PROVE  Waiting(p)'
            BY DEF Waiting
        <3>1. j - 1 \in DOMAIN deferred' /\ deferred'[j - 1] = p
            BY <2>2
        <3> QED BY <3>1 DEF Waiting
    <2>6. \A j \in DOMAIN deferred' : j + 1 \in DOMAIN deferred /\ j + 1 # 1
        BY <2>2
    <2>7. \A p \in Applicable : p[1] \in opened' => p \in Made' \/ Waiting(p)' \/ InLoop(p)'
        BY <2>1, <2>3, <2>4, <2>5 DEF WorkInv
    <2>8. \A j \in DOMAIN deferred' :
              /\ deferred'[j] \in Applicable \ Made'
              /\ deferred'[j][1] \in opened'
              /\ deferred'[j][2] \in DeferredRules
        BY <2>1, <2>2, <2>3, <2>6 DEF WorkInv
    <2>9. \A i, j \in DOMAIN deferred' : deferred'[i] = deferred'[j] => i = j
        <3>1. \A i, j \in DOMAIN deferred' : deferred'[i] = deferred'[j] => i + 1 = j + 1
            BY <2>2, <2>6 DEF WorkInv
        <3> QED BY <2>2, <3>1
    <2>10. Made' \subseteq {p \in Applicable : p[1] \in opened'}
        BY <2>1, <2>2, <2>3 DEF WorkInv
    <2> QED BY <2>1, <2>4, <2>7, <2>8, <2>9, <2>10 DEF WorkInv
<1>5. CASE UNCHANGED <<opened, current, todo, deferred, verdicts>>
           /\ \/ pc' \in Stopped \ {"done"}
              \/ pc' = pc
              \/ pc = "pop" /\ pc' = "deferred"
              \/ pc = "rules" /\ todo = {} /\ pc' = "pop"
              \/ pc = "deferred" /\ deferred = <<>> /\ pc' = "done"
    <2>1. Made' = Made /\ \A p : (Waiting(p)' <=> Waiting(p)) /\ (InLoop(p)' <=> InLoop(p))
        BY <1>5 DEF Made, Waiting, InLoop
    <2> QED BY <1>5, <2>1 DEF WorkInv, Stopped
<1> QED
    <2>1. PopSeen \/ FollowLinks \/ FollowLinksFails \/ Drain \/ Finish => WorkInv'
        BY <1>5 DEF PopSeen, FollowLinks, FollowLinksFails, Drain, Finish, walkVars, Stopped
    <2>2. \A r : ApplyRuleFails(r) => WorkInv'
        BY <1>5 DEF ApplyRuleFails, walkVars, Stopped
    <2>3. UNCHANGED vars => WorkInv'
        BY <1>5 DEF vars, walkVars
    <2> QED BY <1>1, <1>2, <1>3, <1>4, <2>1, <2>2, <2>3
        DEF Next, Progress, Walk, RunRules, RunDeferred, Returned, CheckNowFails,
            CheckDeferredFails

\* The account of checks holds throughout.
LEMMA WorkHolds == Spec => []WorkInv
<1>1. Init => WorkInv
    BY DEF Init, WorkInv, Made, Waiting, InLoop
<1> QED BY <1>1, WorkStep, TypeCorrect, WalkHolds, PTL DEF Spec

-------------------------------------------------------------------------------
(* The report.                                                              *)

(* The failure counter and the unsupported entries record what was found.   *)
VerdictInv ==
    /\ failed_rules = 0 <=> \A v \in verdicts : v[3] # "failed"
    /\ unsupported_rules = {} <=>
          StaticEntries = {} /\ \A v \in verdicts : v[3] # "unsupported"

\* apply_rule keeps the counters and the verdicts in agreement.
LEMMA VerdictApply ==
    ASSUME TypeOK, VerdictInv, NEW o, NEW r, NEW outcome \in Outcomes,
           ApplyRule(o, r, outcome)
    PROVE  VerdictInv'
<1> DEFINE t == <<o, r, outcome>>
<1>1. verdicts' = verdicts \cup {t} /\ t[3] = outcome /\ failed_rules \in Nat
    BY DEF ApplyRule, TypeOK
<1> HIDE DEF t
<1>2. CASE outcome = "passed"
    <2>1. UNCHANGED <<failed_rules, unsupported_rules>>
        BY <1>2 DEF ApplyRule, RecordPass
    <2> QED BY <1>1, <1>2, <2>1 DEF VerdictInv
<1>3. CASE outcome = "failed"
    <2>1. failed_rules' = failed_rules + 1 /\ unsupported_rules' = unsupported_rules
        BY <1>3 DEF ApplyRule, RecordFailure
    <2>2. failed_rules' # 0
        BY <1>1, <2>1
    <2> QED BY <1>1, <1>3, <2>1, <2>2 DEF VerdictInv
<1>4. CASE outcome = "unsupported"
    <2>1. failed_rules' = failed_rules /\ unsupported_rules' = unsupported_rules \cup {<<r, o>>}
        BY <1>4 DEF ApplyRule, RecordUnsupported, detailVars
    <2>2. unsupported_rules' # {}
        BY <2>1
    <2> QED BY <1>1, <1>4, <2>1, <2>2 DEF VerdictInv
<1> QED BY <1>2, <1>3, <1>4 DEF Outcomes

\* Every step keeps the counters and the verdicts in agreement.
LEMMA VerdictStep == TypeOK /\ VerdictInv /\ [Next]_vars => VerdictInv'
<1> SUFFICES ASSUME TypeOK, VerdictInv, [Next]_vars PROVE VerdictInv'
    OBVIOUS
<1>1. CASE UNCHANGED <<failed_rules, unsupported_rules, verdicts>>
    BY <1>1 DEF VerdictInv
<1>2. ASSUME NEW s \in todo, NEW outcome \in Outcomes, CheckNow(s, outcome)
      PROVE  VerdictInv'
    BY <1>2, VerdictApply DEF CheckNow
<1>3. ASSUME NEW outcome \in Outcomes, CheckDeferred(outcome) PROVE VerdictInv'
    BY <1>3, VerdictApply DEF CheckDeferred
<1> QED BY <1>1, <1>2, <1>3
    DEF Next, Progress, Walk, RunRules, RunDeferred, Returned, PopSeen, PopNew, FollowLinks,
        FollowLinksFails, Drain, DeferRule, CheckNowFails, ApplyRuleFails,
        CheckDeferredFails, Finish, vars, detailVars

-------------------------------------------------------------------------------
(* The detail: which failures are kept, and under which ordinal.            *)

Ordinals(s) == {s[i].ordinal : i \in DOMAIN s}

Failed == {v \in verdicts : v[3] = "failed"}

\* The number of failures kept for a rule id is the number in the list, and
\* as many as there are up to the cap.
Kept(id) ==
    /\ IsFiniteSet(Failures(id)) /\ IsFiniteSet(Details(id))
    /\ retained[id] = Cardinality(Details(id))
    /\ retained[id] = IF Cardinality(Failures(id)) < MaxFailed
                      THEN Cardinality(Failures(id)) ELSE MaxFailed

DetailInv ==
    /\ IsFiniteSet(Made) /\ checks_executed = Cardinality(Made)
    /\ IsFiniteSet(Failed) /\ failed_rules = Cardinality(Failed)
    /\ \A id \in RuleIds : Kept(id)
    /\ OrdinalsContiguous

(* Appending an assertion adds its ordinal, and its index to the details of *)
(* its rule id.                                                             *)
LEMMA AppendAssertion ==
    ASSUME NEW s \in Seq(Assertion), NEW a \in Assertion
    PROVE  /\ Ordinals(Append(s, a)) = Ordinals(s) \cup {a.ordinal}
           /\ Len(s) \in Nat /\ Len(Append(s, a)) = Len(s) + 1
           /\ DOMAIN s = 1 .. Len(s) /\ DOMAIN Append(s, a) = DOMAIN s \cup {Len(s) + 1}
           /\ Len(s) + 1 \notin DOMAIN s
           /\ \A i \in DOMAIN s : Append(s, a)[i] = s[i]
           /\ Append(s, a)[Len(s) + 1] = a
<1> DEFINE t == Append(s, a)
<1>1. /\ Len(s) \in Nat /\ Len(t) = Len(s) + 1
      /\ DOMAIN s = 1 .. Len(s) /\ DOMAIN t = 1 .. Len(s) + 1
      /\ \A i \in DOMAIN s : t[i] = s[i]
      /\ t[Len(s) + 1] = a
    OBVIOUS
<1>2. DOMAIN t = DOMAIN s \cup {Len(s) + 1} /\ Len(s) + 1 \notin DOMAIN s
    BY <1>1
<1> HIDE DEF t
<1>3. Ordinals(t) = Ordinals(s) \cup {a.ordinal}
    BY <1>1, <1>2 DEF Ordinals
<1> QED BY <1>1, <1>2, <1>3 DEF t

(* apply_rule numbers what it keeps with the next ordinal. *)
LEMMA OrdinalApply ==
    ASSUME TypeOK, OrdinalsContiguous, NEW o \in Objects, NEW r \in Rules,
           NEW outcome \in Outcomes, ApplyRule(o, r, outcome)
    PROVE  OrdinalsContiguous'
<1> DEFINE a == AssertionOf(o, r)
<1>1. /\ a \in Assertion /\ a.ordinal = next_ordinal /\ next_ordinal \in Nat \ {0}
      /\ failed_assertions \in Seq(Assertion) /\ passed_assertions \in Seq(Assertion)
    BY DEF TypeOK, AssertionOf, Assertion
<1>2. /\ Ordinals(failed_assertions) \cup Ordinals(passed_assertions) = 1 .. (next_ordinal - 1)
      /\ Len(failed_assertions) + Len(passed_assertions) = next_ordinal - 1
    BY DEF OrdinalsContiguous, Ordinals
<1>3. CASE UNCHANGED <<failed_assertions, passed_assertions, next_ordinal>>
    BY <1>3 DEF OrdinalsContiguous
<1>4. (1 .. (next_ordinal - 1)) \cup {next_ordinal} = 1 .. (next_ordinal + 1 - 1)
    BY <1>1
<1> HIDE DEF a
<1>5. CASE /\ failed_assertions' = Append(failed_assertions, a)
           /\ passed_assertions' = passed_assertions /\ next_ordinal' = next_ordinal + 1
    <2>1. /\ Ordinals(failed_assertions') = Ordinals(failed_assertions) \cup {next_ordinal}
          /\ Len(failed_assertions') = Len(failed_assertions) + 1
          /\ Len(failed_assertions) \in Nat /\ Len(passed_assertions) \in Nat
        BY <1>1, <1>5, AppendAssertion
    <2>2. Ordinals(failed_assertions') \cup Ordinals(passed_assertions')
            = (1 .. (next_ordinal - 1)) \cup {next_ordinal}
        BY <1>2, <1>5, <2>1
    <2>3. Len(failed_assertions') + Len(passed_assertions') = next_ordinal' - 1
        BY <1>1, <1>2, <1>5, <2>1
    <2>4. Ordinals(failed_assertions') \cup Ordinals(passed_assertions') = 1 .. (next_ordinal' - 1)
        BY <1>4, <1>5, <2>2
    <2> QED BY <2>3, <2>4 DEF OrdinalsContiguous, Ordinals
<1>6. CASE /\ passed_assertions' = Append(passed_assertions, a)
           /\ failed_assertions' = failed_assertions /\ next_ordinal' = next_ordinal + 1
    <2>1. /\ Ordinals(passed_assertions') = Ordinals(passed_assertions) \cup {next_ordinal}
          /\ Len(passed_assertions') = Len(passed_assertions) + 1
          /\ Len(failed_assertions) \in Nat /\ Len(passed_assertions) \in Nat
        BY <1>1, <1>6, AppendAssertion
    <2>2. Ordinals(failed_assertions') \cup Ordinals(passed_assertions')
            = (1 .. (next_ordinal - 1)) \cup {next_ordinal}
        BY <1>2, <1>6, <2>1
    <2>3. Len(failed_assertions') + Len(passed_assertions') = next_ordinal' - 1
        BY <1>1, <1>2, <1>6, <2>1
    <2>4. Ordinals(failed_assertions') \cup Ordinals(passed_assertions') = 1 .. (next_ordinal' - 1)
        BY <1>4, <1>6, <2>2
    <2> QED BY <2>3, <2>4 DEF OrdinalsContiguous, Ordinals
<1> QED BY <1>3, <1>5, <1>6 DEF ApplyRule, RecordPass, RecordFailure, RecordUnsupported,
                               detailVars, Outcomes, a

(* A check that is new counts once, and a failure of it is kept or capped.  *)
LEMMA DetailApply ==
    ASSUME TypeOK, DetailInv, NEW o \in Objects, NEW r \in Rules,
           NEW outcome \in Outcomes, ApplyRule(o, r, outcome), <<o, r>> \notin Made
    PROVE  DetailInv'
<1> DEFINE t == <<o, r, outcome>>
<1>1. /\ verdicts' = verdicts \cup {t} /\ t[1] = o /\ t[2] = r /\ t[3] = outcome
      /\ t \notin verdicts
    BY DEF ApplyRule, Made
<1>2. IsFiniteSet(Made') /\ checks_executed' = Cardinality(Made')
    <2>1. Made' = Made \cup {<<o, r>>}
        BY MadeAfter
    <2>2. checks_executed' = checks_executed + 1
        BY DEF ApplyRule, CountCheck
    <2> QED BY <2>1, <2>2, FS_AddElement DEF DetailInv
<1>3. OrdinalsContiguous'
    BY OrdinalApply DEF DetailInv
<1> HIDE DEF t
<1>4. CASE outcome # "failed"
    <2>1. UNCHANGED <<failed_rules, failed_assertions, retained>>
        BY <1>4 DEF ApplyRule, RecordPass, RecordUnsupported, detailVars
    <2>2. Failed' = Failed /\ \A id : Failures(id)' = Failures(id)
        BY <1>1, <1>4 DEF Failed, Failures
    <2>3. \A id : Details(id)' = Details(id)
        BY <2>1 DEF Details
    <2> QED BY <1>2, <1>3, <2>1, <2>2, <2>3 DEF DetailInv, Kept
<1>5. CASE outcome = "failed"
    <2>1. RecordFailure(o, r)
        BY <1>5 DEF ApplyRule
    <2>2. IsFiniteSet(Failed') /\ failed_rules' = Cardinality(Failed')
        <3>1. Failed' = Failed \cup {t} /\ t \notin Failed
            BY <1>1, <1>5 DEF Failed
        <3>2. failed_rules' = failed_rules + 1
            BY <2>1 DEF RecordFailure
        <3> QED BY <3>1, <3>2, FS_AddElement DEF DetailInv
    <2>3. ASSUME NEW id \in RuleIds, id # IdOf[r] PROVE Kept(id)'
        <3>1. Failures(id)' = Failures(id)
            BY <1>1, <2>3 DEF Failures
        <3>2. retained'[id] = retained[id]
            BY <2>1, <2>3 DEF RecordFailure, TypeOK
        <3>3. Details(id)' = Details(id)
            <4>1. CASE failed_assertions' = failed_assertions
                BY <4>1 DEF Details
            <4>2. CASE failed_assertions' = Append(failed_assertions, AssertionOf(o, r))
                <5>1. AssertionOf(o, r) \in Assertion /\ AssertionOf(o, r).rule = r
                    BY DEF AssertionOf, Assertion, TypeOK
                <5> QED BY <2>3, <4>2, <5>1, AppendAssertion DEF Details, TypeOK
            <4> QED BY <2>1, <4>1, <4>2 DEF RecordFailure
        <3> QED BY <3>1, <3>2, <3>3 DEF DetailInv, Kept
    <2>4. Kept(IdOf[r])'
        <3> DEFINE id == IdOf[r]
        <3>0. id \in RuleIds /\ Kept(id) /\ retained[id] \in Nat
            BY RuleAssumption DEF DetailInv, TypeOK
        <3>1. Failures(id)' = Failures(id) \cup {t} /\ t \notin Failures(id)
            BY <1>1, <1>5 DEF Failures
        <3>2. /\ IsFiniteSet(Failures(id)')
              /\ Cardinality(Failures(id)') = Cardinality(Failures(id)) + 1
              /\ Cardinality(Failures(id)) \in Nat
            BY <3>0, <3>1, FS_AddElement, FS_CardinalityType DEF Kept
        <3>3. CASE retained[id] < MaxFailed
            <4>1. /\ failed_assertions' = Append(failed_assertions, AssertionOf(o, r))
                  /\ retained'[id] = retained[id] + 1
                BY <2>1, <3>0, <3>3 DEF RecordFailure, TypeOK
            <4>2. AssertionOf(o, r) \in Assertion /\ AssertionOf(o, r).rule = r
                BY DEF AssertionOf, Assertion, TypeOK
            <4>3. /\ Details(id)' = Details(id) \cup {Len(failed_assertions) + 1}
                  /\ Len(failed_assertions) + 1 \notin Details(id)
                BY <4>1, <4>2, AppendAssertion DEF Details, TypeOK
            <4>4. IsFiniteSet(Details(id)) /\ retained[id] = Cardinality(Details(id))
                BY <3>0 DEF Kept
            <4> HIDE DEF id
            <4>5. /\ IsFiniteSet(Details(id)')
                  /\ Cardinality(Details(id)') = Cardinality(Details(id)) + 1
                BY <4>3, <4>4, FS_AddElement
            <4>6. retained'[id] = Cardinality(Failures(id)) + 1 /\ Cardinality(Failures(id)) < MaxFailed
                BY <3>0, <3>2, <3>3, <4>1, LimitAssumption DEF Kept
            <4>7. retained'[id] = IF Cardinality(Failures(id)') < MaxFailed
                                  THEN Cardinality(Failures(id)') ELSE MaxFailed
                BY <3>2, <4>6, LimitAssumption
            <4>8. Kept(id)'
                BY <3>2, <4>1, <4>4, <4>5, <4>7 DEF Kept
            <4> QED BY <4>8 DEF id
        <3>4. CASE ~(retained[id] < MaxFailed)
            <4>1. UNCHANGED <<failed_assertions, retained>>
                BY <2>1, <3>4 DEF RecordFailure
            <4>2. Details(id)' = Details(id)
                BY <4>1 DEF Details
            <4>3. Cardinality(Failures(id)) >= MaxFailed /\ retained'[id] = MaxFailed
                BY <3>0, <3>2, <3>4, <4>1, LimitAssumption DEF Kept
            <4> HIDE DEF id
            <4>4. retained'[id] = IF Cardinality(Failures(id)') < MaxFailed
                                  THEN Cardinality(Failures(id)') ELSE MaxFailed
                BY <3>2, <4>3, LimitAssumption
            <4>5. Kept(id)'
                BY <3>0, <3>2, <4>1, <4>2, <4>4 DEF Kept
            <4> QED BY <4>5 DEF id
        <3> QED BY <3>3, <3>4
    <2> QED BY <1>2, <1>3, <2>2, <2>3, <2>4 DEF DetailInv
<1> QED BY <1>4, <1>5

\* Every step keeps the account of the detail.
LEMMA DetailStep == TypeOK /\ WorkInv /\ DetailInv /\ [Next]_vars => DetailInv'
<1> SUFFICES ASSUME TypeOK, WorkInv, DetailInv, [Next]_vars PROVE DetailInv'
    OBVIOUS
<1>1. CASE UNCHANGED <<counterVars, detailVars, verdicts>>
    BY <1>1 DEF DetailInv, Kept, Failures, Details, Failed, Made, OrdinalsContiguous,
                counterVars, detailVars
<1>2. ASSUME NEW s \in todo, NEW outcome \in Outcomes, CheckNow(s, outcome)
      PROVE  DetailInv'
    <2>1. /\ ApplyRule(current, Profile[s[2]], outcome)
          /\ current \in Objects /\ Profile[s[2]] \in Rules
        BY <1>2, SlotFacts DEF CheckNow, TypeOK
    <2>2. <<current, Profile[s[2]]>> \notin Made
        BY SlotFacts DEF WorkInv
    <2> QED BY <2>1, <2>2, DetailApply
<1>3. ASSUME NEW outcome \in Outcomes, CheckDeferred(outcome) PROVE DetailInv'
    <2> DEFINE q == Head(deferred)
    <2>1. deferred # <<>> /\ ApplyRule(q[1], q[2], outcome)
        BY <1>3 DEF CheckDeferred
    <2>2. q \in Objects \X Rules /\ q = deferred[1] /\ 1 \in DOMAIN deferred
        BY <2>1 DEF TypeOK
    <2>3. q \notin Made
        BY <2>2 DEF WorkInv
    <2>4. q[1] \in Objects /\ q[2] \in Rules /\ <<q[1], q[2]>> = q
        BY <2>2
    <2> HIDE DEF q
    <2> QED BY <2>1, <2>3, <2>4, DetailApply
<1> QED BY <1>1, <1>2, <1>3
    DEF Next, Progress, Walk, RunRules, RunDeferred, Returned, PopSeen, PopNew, FollowLinks,
        FollowLinksFails, Drain, DeferRule, CheckNowFails, ApplyRuleFails,
        CheckDeferredFails, Finish, vars

(* Every check is counted once, every failing rule id keeps its first       *)
(* failures up to the cap, and the assertions kept are numbered without a   *)
(* gap, for every document, profile and limit.                              *)
THEOREM AssertionsCompleteAlways == Spec => []AssertionsComplete
<1>1. Init => DetailInv
    <2> SUFFICES ASSUME Init PROVE DetailInv
        OBVIOUS
    <2>1. Made = {} /\ Failed = {} /\ \A id : Failures(id) = {} /\ Details(id) = {}
        BY DEF Init, Made, Failed, Failures, Details
    <2>2. OrdinalsContiguous
        BY DEF Init, OrdinalsContiguous
    <2>3. \A id \in RuleIds : Kept(id)
        <3>1. ASSUME NEW id \in RuleIds PROVE Kept(id)
            <4>1. retained[id] = 0 /\ 0 < MaxFailed
                BY LimitAssumption DEF Init
            <4>2. IsFiniteSet({}) /\ Cardinality({}) = 0
                BY FS_EmptySet
            <4>3. Failures(id) = {} /\ Details(id) = {}
                BY <2>1
            <4> QED BY <4>1, <4>2, <4>3 DEF Kept
        <3> QED BY <3>1
    <2> QED BY <2>1, <2>2, <2>3, FS_EmptySet DEF Init, DetailInv
<1>2. DetailInv => AssertionsComplete
    <2> SUFFICES ASSUME DetailInv PROVE NoFailureHidden
        BY DEF DetailInv, AssertionsComplete
    <2> QED BY DEF DetailInv, Kept, NoFailureHidden, Failed
<1> QED BY <1>1, <1>2, DetailStep, TypeCorrect, WorkHolds, PTL DEF Spec

-------------------------------------------------------------------------------
(* Deferred rules run after the walk: once one has run, no object is opened *)
(* and no immediate rule is evaluated.                                      *)
THEOREM DeferredLastHolds == Spec => DeferredLast
<1> DEFINE Late == \E v \in verdicts : v[2] \in DeferredRules
           Stays == opened' = opened /\ \A v \in verdicts' \ verdicts : v[2] \in DeferredRules
<1>1. TypeOK /\ WorkInv /\ [Next]_vars => [Late => Stays]_vars
    <2> SUFFICES ASSUME TypeOK, WorkInv, [Next]_vars, Late PROVE Stays
        OBVIOUS
    <2>1. pc \in {"deferred"} \cup Stopped
        BY DEF WorkInv
    <2>2. ASSUME NEW outcome \in Outcomes, CheckDeferred(outcome) PROVE Stays
        <3>1. Head(deferred) = deferred[1] /\ 1 \in DOMAIN deferred
            BY <2>2 DEF CheckDeferred, TypeOK
        <3>2. Head(deferred)[2] \in DeferredRules
            BY <3>1 DEF WorkInv
        <3> QED BY <2>2, <3>2 DEF CheckDeferred, ApplyRule, walkVars
    <2> QED BY <2>1, <2>2
        DEF Next, Progress, Walk, RunRules, RunDeferred, Returned, PopSeen, PopNew, FollowLinks,
            FollowLinksFails, Drain, DeferRule, CheckNow, CheckNowFails, ApplyRuleFails,
            CheckDeferredFails, Finish, vars, walkVars, Stopped
<1> QED BY <1>1, TypeCorrect, WorkHolds, PTL DEF Spec, DeferredLast

-------------------------------------------------------------------------------
(* The session implements ProfileCheck.                                     *)

(* Only reachable objects are opened or pending. *)
ReachInv ==
    /\ opened \subseteq Abstract!Reachable
    /\ \A j \in DOMAIN stack : stack[j] \in Abstract!Reachable

(* Links of a reachable object are reachable. *)
LEMMA ReachLinks ==
    ASSUME TypeOK, NEW o \in Abstract!Reachable, NEW i \in DOMAIN links[o]
    PROVE  links[o][i] \in Abstract!Reachable
<1>1. o \in Objects /\ links[o] \in Seq(Objects)
    BY GraphAssumption DEF TypeOK, Abstract!Reachable
<1>2. links[o][i] \in Objects
    BY <1>1
<1> QED BY <1>2 DEF Abstract!Reachable, Abstract!Closed

\* Every step opens and queues reachable objects only.
LEMMA ReachStep == TypeOK /\ WalkInv /\ ReachInv /\ [Next]_vars => ReachInv'
<1> SUFFICES ASSUME TypeOK, WalkInv, ReachInv, [Next]_vars PROVE ReachInv'
    OBVIOUS
<1>0. UNCHANGED links => Abstract!Reachable' = Abstract!Reachable
    BY DEF Abstract!Reachable, Abstract!Closed
<1>1. CASE PopSeen \/ PopNew
    <2>1. /\ UNCHANGED links /\ stack # <<>> /\ opened' \subseteq opened \cup {Top}
          /\ stack' = SubSeq(stack, 1, Len(stack) - 1)
        BY <1>1 DEF PopSeen, PopNew
    <2>2. /\ \A j \in DOMAIN stack' : j \in DOMAIN stack /\ stack'[j] = stack[j]
          /\ Len(stack) \in DOMAIN stack
        <3>1. /\ Len(stack) \in Nat \ {0} /\ Len(stack') = Len(stack) - 1
              /\ stack' \in Seq(Objects) /\ stack \in Seq(Objects)
            BY <2>1, PopFact DEF TypeOK
        <3>2. DOMAIN stack' = 1 .. (Len(stack) - 1) /\ DOMAIN stack = 1 .. Len(stack)
            BY <3>1
        <3>3. \A j \in 1 .. (Len(stack) - 1) : stack'[j] = stack[j]
            BY <2>1, PopFact
        <3> QED BY <3>1, <3>2, <3>3
    <2>3. Top \in Abstract!Reachable
        BY <2>2 DEF ReachInv, Top
    <2> QED BY <1>0, <2>1, <2>2, <2>3 DEF ReachInv
<1>2. CASE FollowLinks
    <2>1. /\ UNCHANGED <<links, opened>> /\ current \in opened
          /\ stack' = stack \o links[current]
        BY <1>2 DEF FollowLinks, WalkInv
    <2>2. \A i \in DOMAIN links[current] : links[current][i] \in Abstract!Reachable
        BY <2>1, ReachLinks DEF ReachInv
    <2>3. links[current] \in Seq(Objects) /\ stack \in Seq(Objects)
        BY GraphAssumption DEF TypeOK
    <2>4. \A j \in DOMAIN stack' : stack'[j] \in Abstract!Reachable
        <3> SUFFICES ASSUME NEW j \in DOMAIN stack' PROVE stack'[j] \in Abstract!Reachable
            OBVIOUS
        <3>1. j \in 1 .. (Len(stack) + Len(links[current]))
            BY <2>1, <2>3
        <3>2. CASE j <= Len(stack)
            <4>1. j \in DOMAIN stack /\ stack'[j] = stack[j]
                BY <2>1, <2>3, <3>1, <3>2
            <4> QED BY <4>1 DEF ReachInv
        <3>3. CASE ~(j <= Len(stack))
            <4>1. /\ j - Len(stack) \in DOMAIN links[current]
                  /\ stack'[j] = links[current][j - Len(stack)]
                BY <2>1, <2>3, <3>1, <3>3
            <4> QED BY <2>2, <4>1
        <3> QED BY <3>2, <3>3
    <2> QED BY <1>0, <2>1, <2>4 DEF ReachInv
<1>3. CASE UNCHANGED <<links, opened, stack>>
    BY <1>0, <1>3 DEF ReachInv
<1> QED BY <1>1, <1>2, <1>3
    DEF Next, Progress, Walk, RunRules, RunDeferred, Returned, FollowLinksFails, Drain,
        DeferRule, CheckNow, CheckNowFails, ApplyRuleFails, CheckDeferred,
        CheckDeferredFails, Finish, vars, walkVars

\* In every state only reachable objects are opened or pending.
LEMMA ReachHolds == Spec => []ReachInv
<1>1. Init => ReachInv
    <2> SUFFICES ASSUME Init PROVE ReachInv
        OBVIOUS
    <2>1. opened = {} /\ \A j \in DOMAIN stack : stack[j] = Root
        BY DEF Init
    <2>2. Root \in Abstract!Reachable
        BY GraphAssumption DEF Abstract!Reachable, Abstract!Closed
    <2> QED BY <2>1, <2>2 DEF ReachInv
<1> QED BY <1>1, ReachStep, TypeCorrect, WalkHolds, PTL DEF Spec

(* With distinct keys a drained stack means that all that is reachable was  *)
(* opened.                                                                  *)
LEMMA DrainedMeansAll ==
    ASSUME KeysDistinct, TypeOK, WalkInv, pc \in {"deferred", "done"}
    PROVE  Abstract!Reachable \subseteq opened
<1>1. stack = <<>> /\ DOMAIN stack = {}
    BY DEF WalkInv
<1>2. \A x \in Objects : KeyOf[x] \in visited => x \in opened
    BY DEF WalkInv, KeysDistinct, TypeOK
<1>3. Root \in opened
    BY <1>1, <1>2, GraphAssumption DEF WalkInv, OnStack
<1>4. \A o \in opened : \A i \in DOMAIN links[o] : links[o][i] \in opened
    <2> SUFFICES ASSUME NEW o \in opened, NEW i \in DOMAIN links[o]
                 PROVE  links[o][i] \in opened
        OBVIOUS
    <2>1. links[o] \in Seq(Objects)
        BY GraphAssumption DEF TypeOK
    <2>2. links[o][i] \in Objects
        BY <2>1
    <2>3. KeyOf[links[o][i]] \in visited
        BY <1>1 DEF WalkInv, NothingLost, Stopped
    <2> QED BY <1>2, <2>2, <2>3
<1>5. opened \in SUBSET Objects
    BY DEF TypeOK
<1> QED BY <1>3, <1>4, <1>5 DEF Abstract!Reachable, Abstract!Closed

\* Every step of the session is a step of ProfileCheck or changes nothing there.
LEMMA StepImplements ==
    ASSUME KeysDistinct, TypeOK, WalkInv, WorkInv, ReachInv, [Next]_vars
    PROVE  [Abstract!AbsNext]_(Abstract!absVars)
<1>0. Abstract!Made = Made
    BY DEF Abstract!Made, Made
<1>1. ASSUME NEW s \in todo, NEW outcome \in Outcomes, CheckNow(s, outcome)
      PROVE  Abstract!AbsNext
    <2> DEFINE r == Profile[s[2]]
    <2>1. /\ pc = "rules" /\ UNCHANGED <<links, pc>> /\ r \notin DeferredRules
          /\ verdicts' = verdicts \cup {<<current, r, outcome>>}
        BY <1>1 DEF CheckNow, ApplyRule
    <2>2. current \in Objects /\ r \in Rules /\ <<current, r>> \in Applicable \ Made
        BY SlotFacts DEF TypeOK, WorkInv
    <2>3. <<current, r>> \in Abstract!Due \ Abstract!Made
        BY <1>0, <2>1, <2>2 DEF Abstract!Due, ReachInv, WalkInv
    <2>4. Abstract!AbsCheck(current, r, outcome)
        BY <2>1, <2>3 DEF Abstract!AbsCheck, Stopped
    <2> QED BY <2>2, <2>4 DEF Abstract!AbsNext, Outcomes
<1>2. ASSUME NEW outcome \in Outcomes, CheckDeferred(outcome)
      PROVE  Abstract!AbsNext
    <2> DEFINE o == Head(deferred)[1]
               r == Head(deferred)[2]
    <2>1. /\ pc = "deferred" /\ UNCHANGED <<links, pc>> /\ deferred # <<>>
          /\ verdicts' = verdicts \cup {<<o, r, outcome>>}
        BY <1>2 DEF CheckDeferred, ApplyRule
    <2>2. /\ Head(deferred) \in Objects \X Rules
          /\ Head(deferred) = deferred[1] /\ 1 \in DOMAIN deferred
        BY <2>1 DEF TypeOK
    <2>3. o \in Objects /\ r \in Rules /\ <<o, r>> = deferred[1]
        BY <2>2
    <2>4. <<o, r>> \in Applicable \ Made /\ o \in opened /\ r \in DeferredRules
        BY <2>2, <2>3 DEF WorkInv
    <2> HIDE DEF o, r
    <2>5. <<o, r>> \in Abstract!Due \ Abstract!Made
        BY <1>0, <2>4 DEF Abstract!Due, ReachInv
    <2>6. \A p \in Abstract!Due \ Abstract!Made : p[2] \in DeferredRules
        <3>1. \A p : ~InLoop(p)
            BY <2>1 DEF WorkInv, InLoop
        <3>2. \A p \in Abstract!Due : p[1] \in opened /\ p \in Applicable
            BY <2>1, DrainedMeansAll DEF Abstract!Due
        <3> QED BY <1>0, <3>1, <3>2 DEF WorkInv, Waiting
    <2>7. Abstract!AbsCheck(o, r, outcome)
        BY <2>1, <2>5, <2>6 DEF Abstract!AbsCheck, Stopped
    <2> QED BY <2>3, <2>7 DEF Abstract!AbsNext, Outcomes
<1>3. CASE Finish
    <2>1. /\ pc = "deferred" /\ pc' = "done" /\ deferred = <<>>
          /\ UNCHANGED <<links, verdicts>>
        BY <1>3 DEF Finish
    <2>2. \A p : ~InLoop(p) /\ ~Waiting(p)
        BY <2>1 DEF WorkInv, InLoop, Waiting
    <2>3. \A p \in Abstract!Due : p \in Made
        BY <2>1, <2>2, DrainedMeansAll DEF Abstract!Due, WorkInv
    <2>4. \A p \in Made : p \in Abstract!Due
        BY DEF Abstract!Due, WorkInv, ReachInv
    <2>5. Abstract!AbsFinish
        BY <1>0, <2>1, <2>3, <2>4 DEF Abstract!AbsFinish, Stopped
    <2> QED BY <2>5 DEF Abstract!AbsNext
<1>4. ASSUME UNCHANGED <<links, verdicts>>, pc \notin Stopped, pc' \in Stopped \ {"done"}
      PROVE  Abstract!AbsNext
    <2>1. Abstract!AbsAbort
        BY <1>4 DEF Abstract!AbsAbort, Stopped
    <2> QED BY <2>1 DEF Abstract!AbsNext
<1>5. ASSUME UNCHANGED <<links, verdicts>>,
             pc' = pc \/ (pc \notin Stopped /\ pc' \notin Stopped)
      PROVE  UNCHANGED Abstract!absVars
    BY <1>5 DEF Abstract!absVars, Stopped
<1> QED
    <2>1. PopSeen \/ PopNew \/ FollowLinks \/ Drain \/ (\E s \in todo : DeferRule(s))
          \/ Returned \/ UNCHANGED vars => UNCHANGED Abstract!absVars
        BY <1>5 DEF PopSeen, PopNew, FollowLinks, Drain, DeferRule, Returned, vars, Stopped
    <2>2. FollowLinksFails \/ (\E s \in todo : CheckNowFails(s)) \/ CheckDeferredFails
            => Abstract!AbsNext
        BY <1>4 DEF FollowLinksFails, CheckNowFails, CheckDeferredFails, ApplyRuleFails, Stopped
    <2> QED BY <1>1, <1>2, <1>3, <2>1, <2>2
        DEF Next, Progress, Walk, RunRules, RunDeferred

(* The verdict of a finished validation is the truth about the document:    *)
(* with distinct identity keys it is compliant exactly when no rule of the  *)
(* profile is statically unsupported and every rule that applies to a       *)
(* reachable object was evaluated on it and passed.                         *)
THEOREM VerdictSoundHolds == ASSUME KeysDistinct PROVE Spec => []VerdictSound
<1>1. Init => VerdictInv
    BY DEF Init, VerdictInv
<1>2. Spec => []VerdictInv
    BY <1>1, VerdictStep, TypeCorrect, PTL DEF Spec
<1>3. TypeOK /\ WalkInv /\ WorkInv /\ ReachInv /\ VerdictInv => VerdictSound
    <2> SUFFICES ASSUME TypeOK, WalkInv, WorkInv, ReachInv, VerdictInv, pc = "done"
                 PROVE  VerdictSound
        BY DEF VerdictSound
    <2>1. \A p : ~Waiting(p) /\ ~InLoop(p)
        BY DEF WorkInv, Waiting, InLoop
    <2>2. Made = Abstract!Due
        BY <2>1, DrainedMeansAll DEF Abstract!Due, WorkInv, ReachInv
    <2>3. StaticEntries = {} <=> \A i \in DOMAIN Profile : Profile[i] \notin StaticUnsupported
        BY DEF StaticEntries
    <2>4. is_compliant <=> StaticEntries = {} /\ \A v \in verdicts : v[3] = "passed"
        BY DEF is_compliant, VerdictInv, TypeOK, Outcomes
    <2>5. ASSUME \A v \in verdicts : v[3] = "passed", NEW p \in Abstract!Due
          PROVE  OutcomesOf(p) = {"passed"}
        <3>1. PICK v \in verdicts : p = <<v[1], v[2]>>
            BY <2>2 DEF Made
        <3>2. v[3] \in OutcomesOf(p)
            BY <3>1 DEF OutcomesOf
        <3>3. \A x \in OutcomesOf(p) : x = "passed"
            BY <2>5 DEF OutcomesOf
        <3> QED BY <3>2, <3>3
    <2>6. ASSUME \A p \in Abstract!Due : OutcomesOf(p) = {"passed"}, NEW v \in verdicts
          PROVE  v[3] = "passed"
        <3>1. <<v[1], v[2]>> \in Abstract!Due
            BY <2>2 DEF Made
        <3>2. v[3] \in OutcomesOf(<<v[1], v[2]>>)
            BY DEF OutcomesOf
        <3> QED BY <2>6, <3>1, <3>2
    <2> QED BY <2>3, <2>4, <2>5, <2>6 DEF VerdictSound
<1> QED BY <1>2, <1>3, TypeCorrect, WalkHolds, WorkHolds, ReachHolds, PTL

(* With distinct identity keys validate_profile implements the abstract     *)
(* profile check: every applicable rule is evaluated exactly once on every  *)
(* reachable object, deferred rules last, or the run ends with an error.    *)
THEOREM Implements == ASSUME KeysDistinct PROVE Spec => Refinement
<1>1. Init => Abstract!AbsInit
    BY DEF Init, Abstract!AbsInit, Stopped
<1>2. TypeOK /\ WalkInv /\ WorkInv /\ ReachInv /\ [Next]_vars
        => [Abstract!AbsNext]_(Abstract!absVars)
    BY StepImplements
<1> QED BY <1>1, <1>2, ReachHolds, TypeCorrect, WalkHolds, WorkHolds, PTL
    DEF Spec, Refinement, Abstract!AbsSpec
===============================================================================
