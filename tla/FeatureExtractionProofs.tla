----------------------- MODULE FeatureExtractionProofs -----------------------
(***************************************************************************)
(* Proofs about feature extraction and the policy, for every document,     *)
(* selection, policy and limit.                                            *)
(***************************************************************************)
EXTENDS FeatureExtraction, TLAPS, SequenceTheorems

OnStack(o) == \E i \in DOMAIN stack : stack[i] = o
Extracted == {objects[i].object : i \in DOMAIN objects}
Selected(o) == FamilyOf[o] \in selected_feature_families
HasKeySeen(o) == KeyOf[o] \in visited

\* Where the walk can be, and what it has made of what it met.
ReachInv ==
    /\ \A i \in DOMAIN stack : stack[i] \in Reachable
    /\ current # NoProperty => current \in Reachable
    /\ visited \subseteq {KeyOf[o] : o \in Reachable}
    /\ \A i \in DOMAIN objects : \E o \in Reachable :
          objects[i] = feature_object(o) /\ HasKeySeen(o) /\ Selected(o)

Known(o) == HasKeySeen(o) \/ OnStack(o)

LinksKnown ==
    \A o \in Objects : HasKeySeen(o) /\ o # current =>
        \A i \in DOMAIN links[o] : Known(links[o][i])

ReportComplete ==
    /\ \A o \in Objects : HasKeySeen(o) /\ Selected(o) => o \in Extracted
    /\ \A i, j \in DOMAIN objects : objects[i].object = objects[j].object => i = j

\* While nothing was cut off, the document object and the links of every object
\* seen are seen or pending.
WalkInv ==
    /\ policy # {} => needs_features
    /\ current # NoProperty => HasKeySeen(current)
    /\ needs_features /\ pc = "done" => passed = (\A r \in policy : evaluate_policy_rule(r))
    /\ needs_features /\ pc # "error" /\ ~truncated =>
          /\ pc # "walk" => stack = <<>> /\ current = NoProperty
          /\ Known(Root)
          /\ KeysDistinct => LinksKnown /\ ReportComplete

FeatureInv == TypeOK /\ ReachInv /\ WalkInv

-----------------------------------------------------------------------------
(* The stack and the report. *)

\* The top of a stack is an object, and taking it away leaves the others.
LEMMA PopFact ==
    ASSUME TypeOK, stack # <<>>
    PROVE  /\ Len(stack) \in Nat \ {0} /\ Len(stack) \in DOMAIN stack
           /\ Top \in Objects
           /\ Popped \in Seq(Objects) /\ DOMAIN Popped = 1 .. Len(stack) - 1
           /\ DOMAIN stack = 1 .. Len(stack)
           /\ \A i \in 1 .. Len(stack) - 1 : Popped[i] = stack[i]
<1> DEFINE n == Len(stack) - 1
           t == SubSeq(stack, 1, n)
<1>1. stack \in Seq(Objects)
    BY DEF TypeOK
<1>2. Len(stack) \in Nat \ {0} /\ stack[Len(stack)] \in Objects
      /\ DOMAIN stack = 1 .. Len(stack)
    BY <1>1
<1>3. n \in Nat /\ n \in Int /\ 1 \in Int /\ \A i \in 1 .. n : stack[i] \in Objects
    BY <1>1, <1>2
<1>4. /\ t \in Seq(Objects)
      /\ Len(t) = IF 1 <= n THEN n - 1 + 1 ELSE 0
      /\ \A i \in 1 .. n - 1 + 1 : t[i] = stack[1 + i - 1]
    <2> HIDE DEF n
    <2> QED BY <1>3, SubSeqProperties
<1>5. Len(t) = n /\ \A i \in 1 .. n : t[i] = stack[i]
    <2> HIDE DEF n, t
    <2>1. n - 1 + 1 = n /\ \A i \in 1 .. n : 1 + i - 1 = i
        BY <1>3
    <2>2. Len(t) = n
        BY <1>3, <1>4
    <2> QED BY <1>3, <1>4, <2>1, <2>2
<1>6. DOMAIN t = 1 .. n
    <2> HIDE DEF n, t
    <2> QED BY <1>4, <1>5
<1> QED BY <1>2, <1>4, <1>5, <1>6 DEF Top, Popped

\* After a pop every other pending object is still pending.
LEMMA PopKeeps ==
    ASSUME TypeOK, stack # <<>>, stack' = Popped, NEW o, OnStack(o), o # Top
    PROVE  OnStack(o)'
<1>1. PICK i \in DOMAIN stack : stack[i] = o
    BY DEF OnStack
<1>2. i \in 1 .. Len(stack) - 1
    BY <1>1, PopFact DEF Top
<1> QED BY <1>1, <1>2, PopFact DEF OnStack

\* The links an object of the document has are objects.
LEMMA LinkFact ==
    ASSUME TypeOK, NEW o \in Objects
    PROVE  /\ links[o] \in Seq(Objects)
           /\ \A i \in DOMAIN links[o] : links[o][i] \in Objects
<1>1. links[o] \in Seq(Objects)
    BY FeatureAssumption DEF TypeOK
<1> QED BY <1>1

\* What is on the stack after links were pushed was there or is a link.
LEMMA PushFact ==
    ASSUME TypeOK, NEW o \in Objects, stack' = stack \o links[o]
    PROVE  /\ stack' \in Seq(Objects)
           /\ \A p : OnStack(p)' <=>
                 (OnStack(p) \/ \E i \in DOMAIN links[o] : links[o][i] = p)
<1> DEFINE l == links[o]
<1>1. stack \in Seq(Objects) /\ l \in Seq(Objects)
    BY LinkFact DEF TypeOK
<1>2. /\ DOMAIN stack = 1 .. Len(stack) /\ DOMAIN l = 1 .. Len(l)
      /\ Len(stack) \in Nat /\ Len(l) \in Nat
      /\ stack' \in Seq(Objects) /\ DOMAIN stack' = 1 .. (Len(stack) + Len(l))
      /\ \A i \in 1 .. Len(stack) : stack'[i] = stack[i]
      /\ \A i \in 1 .. Len(l) : stack'[Len(stack) + i] = l[i]
    BY <1>1
<1> HIDE DEF l
<1>3. ASSUME NEW p, NEW i \in DOMAIN stack', stack'[i] = p
      PROVE  OnStack(p) \/ \E j \in DOMAIN l : l[j] = p
    <2>1. CASE i <= Len(stack)
        BY <1>2, <1>3, <2>1 DEF OnStack
    <2>2. CASE ~(i <= Len(stack))
        <3>1. i - Len(stack) \in 1 .. Len(l) /\ Len(stack) + (i - Len(stack)) = i
            BY <1>2, <2>2
        <3> QED BY <1>2, <1>3, <3>1
    <2> QED BY <2>1, <2>2
<1>4. ASSUME NEW p, NEW i \in DOMAIN stack, stack[i] = p PROVE OnStack(p)'
    <2>1. i \in DOMAIN stack' /\ stack'[i] = p
        BY <1>2, <1>4
    <2> QED BY <2>1 DEF OnStack
<1>5. ASSUME NEW p, NEW i \in DOMAIN l, l[i] = p PROVE OnStack(p)'
    <2>1. Len(stack) + i \in DOMAIN stack' /\ stack'[Len(stack) + i] = p
        BY <1>2, <1>5
    <2> QED BY <2>1 DEF OnStack
<1> QED BY <1>2, <1>3, <1>4, <1>5 DEF OnStack, l

\* Appending to the report.
LEMMA AppendFact ==
    ASSUME NEW S, NEW s \in Seq(S), NEW e
    PROVE  /\ Len(s) \in Nat /\ DOMAIN s = 1 .. Len(s)
           /\ DOMAIN Append(s, e) = 1 .. Len(s) + 1
           /\ \A j \in DOMAIN s : Append(s, e)[j] = s[j]
           /\ Append(s, e)[Len(s) + 1] = e
<1>1. s \in Seq(S \cup {e}) /\ e \in S \cup {e}
    <2>1. \A i \in 1 .. Len(s) : s[i] \in S \cup {e}
        OBVIOUS
    <2> QED BY <2>1
<1> QED BY <1>1

\* An extracted object is typed, and is the object, family and value it was
\* extracted from.
LEMMA ObjectFact ==
    ASSUME TypeOK, NEW o \in Objects
    PROVE  /\ feature_object(o) \in [object : Objects, family : Families,
                                     value : FeatureValues \cup {NoProperty}]
           /\ feature_object(o).object = o
<1>1. FamilyOf[o] \in Families
    BY FeatureAssumption
<1>2. property[o] \in {v \in FeatureValues : v.type # "redacted"} \cup {NoProperty}
    BY FeatureAssumption DEF TypeOK
<1>3. property[o] # NoProperty => safe_feature_value(property[o]) \in FeatureValues
    BY <1>2 DEF safe_feature_value, FeatureValues
<1> QED BY <1>1, <1>3 DEF feature_object

-----------------------------------------------------------------------------
(* Reachability. *)

LEMMA RootReachable == ASSUME TypeOK PROVE Root \in Reachable
BY FeatureAssumption DEF Reachable

\* Links of a reachable object lead to reachable objects.
LEMMA LinksReachable ==
    ASSUME TypeOK, NEW o \in Reachable, NEW i \in DOMAIN links[o]
    PROVE  links[o][i] \in Reachable
<1>1. o \in Objects
    BY DEF Reachable
<1>2. links[o][i] \in Objects
    BY <1>1, LinkFact
<1> QED BY <1>2 DEF Reachable

\* With distinct keys, a finished walk has seen exactly what is reachable.
LEMMA SeenIsReachable ==
    ASSUME FeatureInv, KeysDistinct, needs_features, pc \in {"policy", "done"}, ~truncated
    PROVE  \A o \in Objects : HasKeySeen(o) <=> o \in Reachable
<1> DEFINE Seen == {o \in Objects : HasKeySeen(o)}
<1>1. /\ stack = <<>> /\ current = NoProperty /\ ~\E o : OnStack(o)
    BY DEF FeatureInv, WalkInv, OnStack
<1>2. Root \in Seen
    BY <1>1, FeatureAssumption DEF FeatureInv, WalkInv, Known
<1>3. ASSUME NEW o \in Seen, NEW i \in DOMAIN links[o] PROVE links[o][i] \in Seen
    <2>1. links[o][i] \in Objects
        BY LinkFact DEF FeatureInv
    <2>2. o # current
        BY <1>1, FeatureAssumption
    <2>3. HasKeySeen(links[o][i])
        BY <1>1, <2>2 DEF FeatureInv, WalkInv, LinksKnown, Known
    <2> QED BY <2>1, <2>3
<1>4. Reachable \subseteq Seen
    <2>1. Seen \in SUBSET Objects
        OBVIOUS
    <2> QED BY <1>2, <1>3, <2>1 DEF Reachable
<1>5. ASSUME NEW o \in Objects, HasKeySeen(o) PROVE o \in Reachable
    <2>1. PICK p \in Reachable : KeyOf[p] = KeyOf[o]
        BY <1>5 DEF FeatureInv, ReachInv, HasKeySeen
    <2>2. p \in Objects
        BY DEF Reachable
    <2> QED BY <2>1, <2>2 DEF KeysDistinct
<1>6. Reachable \subseteq Objects
    BY DEF Reachable
<1> QED BY <1>4, <1>5, <1>6

-----------------------------------------------------------------------------
(* The steps. *)

\* The options and the document never change, and what they define with them.
LEMMA SameDocument ==
    ASSUME UNCHANGED docVars
    PROVE  /\ Reachable' = Reachable /\ needs_features' = needs_features
           /\ selected_feature_families' = selected_feature_families
           /\ \A o : feature_object(o)' = feature_object(o) /\ Selected(o)' = Selected(o)
BY DEF docVars, Reachable, needs_features, selected_feature_families,
       feature_selection_for_tasks, feature_object, safe_feature_value, Selected

\* Every step keeps the types.
LEMMA TypeStep == ASSUME TypeOK, [Next]_vars PROVE TypeOK'
<1>1. CASE SkipSeen
    <2>1. stack # <<>> /\ stack' = Popped
        BY <1>1 DEF SkipSeen, Popping
    <2> QED BY <1>1, <2>1, PopFact DEF SkipSeen, TypeOK, docVars
<1>2. CASE Extract
    <2>1. /\ stack # <<>> /\ stack' = Popped /\ current' = Top
          /\ visited' = visited \cup {KeyOf[Top]}
          /\ objects' = objects \/ objects' = Append(objects, feature_object(Top))
          /\ UNCHANGED <<docVars, pc, truncated, passed>>
        BY <1>2 DEF Extract, Popping
    <2>2. Top \in Objects /\ KeyOf[Top] \in Keys
        BY <2>1, PopFact, FeatureAssumption
    <2>3. objects' \in Seq([object : Objects, family : Families,
                            value : FeatureValues \cup {NoProperty}])
        <3> DEFINE R == [object : Objects, family : Families,
                         value : FeatureValues \cup {NoProperty}]
        <3>1. objects \in Seq(R)
            BY DEF TypeOK
        <3>2. feature_object(Top) \in R
            BY <2>2, ObjectFact
        <3> HIDE DEF R
        <3>3. objects' \in Seq(R)
            BY <2>1, <3>1, <3>2
        <3> QED BY <3>3 DEF R
    <2> QED BY <2>1, <2>2, <2>3, PopFact DEF TypeOK, docVars
<1>3. CASE FollowLinks
    <2>1. current \in Objects /\ stack' = stack \o links[current]
        BY <1>3 DEF FollowLinks, TypeOK
    <2> QED BY <1>3, <2>1, PushFact DEF FollowLinks, TypeOK, docVars
<1>4. CASE ExtractFails \/ Truncate \/ WalkEnds
    BY <1>4 DEF ExtractFails, Truncate, WalkEnds, TypeOK, docVars
<1>5. CASE evaluate_policy
    BY <1>5 DEF evaluate_policy, TypeOK, docVars
<1>6. CASE UNCHANGED vars
    BY <1>6 DEF TypeOK, vars, docVars
<1> QED BY <1>1, <1>2, <1>3, <1>4, <1>5, <1>6 DEF Next, Progress, Returned

\* Every step meets reachable objects only, and extracts them as they are.
LEMMA ReachStep == ASSUME TypeOK, ReachInv, [Next]_vars PROVE ReachInv'
<1> USE DEF ReachInv
<1>0. UNCHANGED docVars
    BY DEF Next, Progress, Returned, SkipSeen, Extract, ExtractFails, FollowLinks, Truncate,
           WalkEnds, evaluate_policy, vars
<1>1. ASSUME UNCHANGED <<stack, current, visited, objects>> PROVE ReachInv'
    BY <1>0, <1>1, SameDocument DEF HasKeySeen
<1>2. CASE SkipSeen
    <2>1. /\ stack # <<>> /\ stack' = Popped /\ UNCHANGED <<visited, current, objects>>
        BY <1>2 DEF SkipSeen, Popping
    <2>2. \A i \in DOMAIN stack' : stack'[i] \in Reachable
        BY <2>1, PopFact
    <2> QED BY <1>0, <2>1, <2>2, SameDocument DEF HasKeySeen
<1>3. CASE Extract
    <2>1. /\ stack # <<>> /\ stack' = Popped /\ current' = Top
          /\ visited' = visited \cup {KeyOf[Top]}
          /\ objects' = IF Selected(Top) THEN Append(objects, feature_object(Top)) ELSE objects
        BY <1>3 DEF Extract, Popping, Selected
    <2>2. \A i \in DOMAIN stack' : stack'[i] \in Reachable
        BY <2>1, PopFact
    <2>3. Top \in Reachable /\ Top \in Objects
        BY <2>1, PopFact DEF Top
    <2>4. \A i \in DOMAIN objects' : \E o \in Reachable :
              objects'[i] = feature_object(o) /\ KeyOf[o] \in visited' /\ Selected(o)
        <3>1. CASE ~Selected(Top)
            BY <2>1, <3>1 DEF HasKeySeen
        <3>2. CASE Selected(Top)
            <4>1. objects' = Append(objects, feature_object(Top))
                BY <2>1, <3>2
            <4>2. /\ Len(objects) \in Nat
                  /\ DOMAIN objects = 1 .. Len(objects) /\ DOMAIN objects' = 1 .. Len(objects) + 1
                  /\ \A j \in DOMAIN objects : objects'[j] = objects[j]
                  /\ objects'[Len(objects) + 1] = feature_object(Top)
                BY <4>1, AppendFact DEF TypeOK
            <4>3. \A i \in DOMAIN objects' : i \in DOMAIN objects \/ i = Len(objects) + 1
                BY <4>2
            <4>4. \A i \in DOMAIN objects : \E o \in Reachable :
                      objects'[i] = feature_object(o) /\ KeyOf[o] \in visited' /\ Selected(o)
                BY <2>1, <4>2 DEF HasKeySeen
            <4>5. KeyOf[Top] \in visited'
                BY <2>1
            <4> QED BY <2>3, <3>2, <4>2, <4>3, <4>4, <4>5
        <3> QED BY <3>1, <3>2
    <2>5. /\ \A i \in DOMAIN stack' : stack'[i] \in Reachable'
          /\ current' # NoProperty => current' \in Reachable'
          /\ visited' \subseteq {KeyOf[o] : o \in Reachable'}
        BY <1>0, <2>1, <2>2, <2>3, SameDocument
    <2>6. \A i \in DOMAIN objects' : \E o \in Reachable' :
              objects'[i] = feature_object(o)' /\ HasKeySeen(o)' /\ Selected(o)'
        BY <1>0, <2>4, SameDocument DEF HasKeySeen
    <2> QED BY <2>5, <2>6
<1>4. CASE FollowLinks
    <2>1. /\ current # NoProperty /\ current \in Objects /\ current \in Reachable
          /\ stack' = stack \o links[current]
          /\ current' = NoProperty /\ UNCHANGED <<visited, objects>>
        BY <1>4 DEF FollowLinks, TypeOK
    <2>2. \A i \in DOMAIN stack' : stack'[i] \in Reachable
        <3>1. ASSUME NEW i \in DOMAIN stack' PROVE stack'[i] \in Reachable
            <4>1. PICK p : p = stack'[i]
                OBVIOUS
            <4>2. OnStack(p)'
                BY <3>1, <4>1 DEF OnStack
            <4>3. OnStack(p) \/ \E j \in DOMAIN links[current] : links[current][j] = p
                BY <2>1, <4>2, PushFact
            <4>4. p \in Reachable
                BY <2>1, <4>3, LinksReachable DEF OnStack
            <4> QED BY <4>1, <4>4
        <3> QED BY <3>1
    <2> QED BY <1>0, <2>1, <2>2, SameDocument DEF HasKeySeen
<1>5. CASE ExtractFails \/ Truncate \/ WalkEnds \/ evaluate_policy \/ UNCHANGED vars
    <2>1. UNCHANGED <<stack, current, visited, objects>>
        BY <1>5 DEF ExtractFails, Truncate, WalkEnds, evaluate_policy, vars
    <2> QED BY <1>1, <2>1
<1> QED BY <1>2, <1>3, <1>4, <1>5 DEF Next, Progress, Returned

\* With distinct keys a new object adds itself to what is seen, and its report
\* object, if its family is selected, to the report.
LEMMA ExtractReport ==
    ASSUME TypeOK, ReachInv, KeysDistinct, ReportComplete, Extract
    PROVE  /\ ReportComplete'
           /\ Top \in Objects
           /\ \A o \in Objects : HasKeySeen(o)' <=> (HasKeySeen(o) \/ o = Top)
<1>1. /\ stack # <<>> /\ KeyOf[Top] \notin visited
      /\ visited' = visited \cup {KeyOf[Top]} /\ UNCHANGED docVars
      /\ objects' = IF Selected(Top) THEN Append(objects, feature_object(Top)) ELSE objects
    BY DEF Extract, Popping, Selected
<1>2. Top \in Objects
    BY <1>1, PopFact
<1>3. \A o \in Objects : HasKeySeen(o)' <=> (HasKeySeen(o) \/ o = Top)
    BY <1>1, <1>2 DEF HasKeySeen, KeysDistinct
<1>4. \A i \in DOMAIN objects : objects[i].object # Top /\ objects[i].object \in Objects
    <2>1. ASSUME NEW i \in DOMAIN objects PROVE objects[i].object # Top /\ objects[i].object \in Objects
        <3>1. PICK o \in Reachable : objects[i] = feature_object(o) /\ HasKeySeen(o)
            BY <2>1 DEF ReachInv
        <3>2. o \in Objects /\ objects[i].object = o
            BY <3>1, ObjectFact DEF Reachable
        <3> QED BY <1>1, <3>1, <3>2 DEF HasKeySeen
    <2> QED BY <2>1
<1>5. \A o : Selected(o)' = Selected(o)
    BY <1>1, SameDocument
<1>6. CASE ~Selected(Top)
    <2>1. objects' = objects /\ Extracted' = Extracted
        BY <1>1, <1>6 DEF Extracted
    <2>2. \A o \in Objects : HasKeySeen(o)' /\ Selected(o)' => o \in Extracted'
        BY <1>3, <1>5, <1>6, <2>1 DEF ReportComplete
    <2>3. \A i, j \in DOMAIN objects' : objects'[i].object = objects'[j].object => i = j
        BY <2>1 DEF ReportComplete
    <2> QED BY <1>2, <1>3, <2>2, <2>3 DEF ReportComplete
<1>7. CASE Selected(Top)
    <2> DEFINE n == Len(objects) + 1
    <2>1. /\ n \in Nat /\ Len(objects) \in Nat
          /\ DOMAIN objects = 1 .. Len(objects) /\ DOMAIN objects' = 1 .. n
          /\ \A j \in DOMAIN objects : objects'[j] = objects[j]
          /\ objects'[n] = feature_object(Top)
        BY <1>1, <1>7, AppendFact DEF TypeOK
    <2>2. objects'[n].object = Top
        BY <1>2, <2>1, ObjectFact
    <2>3. /\ \A i \in DOMAIN objects' : i \in DOMAIN objects \/ i = n
          /\ DOMAIN objects \subseteq DOMAIN objects' /\ n \in DOMAIN objects'
        BY <2>1
    <2> HIDE DEF n
    <2>4. \A o \in Objects : HasKeySeen(o)' /\ Selected(o)' => o \in Extracted'
        BY <1>3, <1>5, <2>1, <2>2, <2>3 DEF ReportComplete, Extracted
    <2>5. \A i, j \in DOMAIN objects' : objects'[i].object = objects'[j].object => i = j
        BY <1>4, <2>1, <2>2, <2>3 DEF ReportComplete
    <2> QED BY <1>2, <1>3, <2>4, <2>5 DEF ReportComplete
<1> QED BY <1>2, <1>3, <1>6, <1>7

\* Every step keeps what is seen and pending closed under links.
LEMMA WalkStep == ASSUME FeatureInv, [Next]_vars PROVE WalkInv'
<1>0. UNCHANGED docVars /\ TypeOK /\ ReachInv /\ WalkInv
    BY DEF Next, Progress, Returned, SkipSeen, Extract, ExtractFails, FollowLinks, Truncate,
           WalkEnds, evaluate_policy, vars, FeatureInv
<1>a. /\ links' = links /\ policy' = policy /\ needs_features' = needs_features
      /\ \A o : Selected(o)' = Selected(o)
    BY <1>0, SameDocument DEF docVars
<1>b. ASSUME UNCHANGED <<visited, objects>>, ReportComplete PROVE ReportComplete'
    BY <1>a, <1>b DEF ReportComplete, HasKeySeen, Extracted
<1>1. CASE SkipSeen
    <2>1. /\ pc = "walk" /\ current = NoProperty /\ stack # <<>> /\ KeyOf[Top] \in visited
          /\ stack' = Popped /\ UNCHANGED <<pc, visited, current, objects, truncated, passed>>
        BY <1>1 DEF SkipSeen, Popping
    <2>2. \A o : Known(o) => Known(o)'
        BY <1>0, <2>1, PopKeeps DEF Known, HasKeySeen
    <2>3. ASSUME LinksKnown PROVE LinksKnown'
        BY <1>a, <2>1, <2>2, <2>3 DEF LinksKnown, HasKeySeen
    <2> QED BY <1>0, <1>a, <1>b, <2>1, <2>2, <2>3 DEF WalkInv
<1>2. CASE Extract
    <2>1. /\ pc = "walk" /\ current = NoProperty /\ stack # <<>> /\ KeyOf[Top] \notin visited
          /\ stack' = Popped /\ current' = Top /\ visited' = visited \cup {KeyOf[Top]}
          /\ UNCHANGED <<pc, truncated, passed>>
        BY <1>2 DEF Extract, Popping
    <2>2. \A o : Known(o) => Known(o)'
        BY <1>0, <2>1, PopKeeps DEF Known, HasKeySeen
    <2>3. ASSUME KeysDistinct, LinksKnown, ReportComplete PROVE LinksKnown' /\ ReportComplete'
        <3>1. /\ ReportComplete'
              /\ \A o \in Objects : HasKeySeen(o)' <=> (HasKeySeen(o) \/ o = Top)
            BY <1>0, <1>2, <2>3, ExtractReport
        <3>2. \A o \in Objects : o # current
            BY <2>1, FeatureAssumption
        <3>3. LinksKnown'
            BY <1>a, <2>1, <2>2, <2>3, <3>1, <3>2 DEF LinksKnown
        <3> QED BY <3>1, <3>3
    <2>4. HasKeySeen(current)'
        BY <2>1 DEF HasKeySeen
    <2> QED BY <1>0, <1>a, <2>1, <2>2, <2>3, <2>4 DEF WalkInv
<1>3. CASE FollowLinks
    <2>1. /\ pc = "walk" /\ current # NoProperty /\ current \in Objects
          /\ stack' = stack \o links[current] /\ current' = NoProperty
          /\ UNCHANGED <<pc, visited, objects, truncated, passed>>
        BY <1>0, <1>3 DEF FollowLinks, TypeOK
    <2>2. /\ \A o : Known(o) => Known(o)'
          /\ \A o : (\E i \in DOMAIN links[current] : links[current][i] = o) => Known(o)'
        BY <1>0, <2>1, PushFact DEF Known, HasKeySeen
    <2>3. ASSUME LinksKnown PROVE LinksKnown'
        BY <1>a, <2>1, <2>2, <2>3 DEF LinksKnown, HasKeySeen
    <2> QED BY <1>0, <1>a, <1>b, <2>1, <2>2, <2>3 DEF WalkInv
<1>4. CASE Truncate
    BY <1>0, <1>4, <1>a DEF Truncate, WalkInv, HasKeySeen
<1>5. CASE ExtractFails
    BY <1>0, <1>5, <1>a DEF ExtractFails, WalkInv, HasKeySeen
<1>6. ASSUME UNCHANGED <<stack, visited, current, objects, truncated>>
      PROVE  /\ \A o : Known(o)' = Known(o)
             /\ LinksKnown' = LinksKnown
             /\ HasKeySeen(current)' = HasKeySeen(current)
    BY <1>6, <1>a DEF LinksKnown, Known, HasKeySeen, OnStack
<1>7. CASE WalkEnds
    <2>1. /\ pc = "walk" /\ current = NoProperty /\ stack = <<>> /\ pc' = "policy"
          /\ UNCHANGED <<stack, visited, current, objects, truncated, passed>>
        BY <1>7 DEF WalkEnds
    <2> QED BY <1>0, <1>a, <1>b, <1>6, <2>1 DEF WalkInv
<1>8. CASE evaluate_policy
    <2>1. /\ pc = "policy" /\ pc' = "done" /\ passed' = (\A r \in policy : evaluate_policy_rule(r))
          /\ UNCHANGED <<stack, visited, current, objects, truncated>>
        BY <1>8 DEF evaluate_policy
    <2>2. (\A r \in policy : evaluate_policy_rule(r))' = (\A r \in policy : evaluate_policy_rule(r))
        BY <1>a, <2>1 DEF evaluate_policy_rule
    <2> QED BY <1>0, <1>a, <1>b, <1>6, <2>1, <2>2 DEF WalkInv
<1>9. CASE UNCHANGED vars
    <2>1. UNCHANGED <<pc, stack, visited, current, objects, truncated, passed>>
        BY <1>9 DEF vars
    <2>2. (\A r \in policy : evaluate_policy_rule(r))' = (\A r \in policy : evaluate_policy_rule(r))
        BY <1>a, <2>1 DEF evaluate_policy_rule
    <2> QED BY <1>0, <1>a, <1>b, <1>6, <2>1, <2>2 DEF WalkInv
<1> QED BY <1>1, <1>2, <1>3, <1>4, <1>5, <1>7, <1>8, <1>9 DEF Next, Progress, Returned

\* The three invariants hold together.
LEMMA FeatureInvariant == Spec => []FeatureInv
<1>1. ASSUME Init PROVE FeatureInv
    <2>1. TypeOK
        <3>1. /\ links \in [Objects -> LinkLists] /\ property \in [Objects -> ValueChoices]
              /\ safe \in BOOLEAN /\ selection \in Selections /\ policy \in RuleChoices
            BY <1>1 DEF Init
        <3>2. /\ pc \in {"walk", "policy", "done", "error"} /\ stack = <<Root>> /\ visited = {}
              /\ current = NoProperty /\ objects = <<>> /\ truncated = FALSE /\ passed = TRUE
            BY <1>1 DEF Init
        <3>3. stack \in Seq(Objects) /\ objects \in Seq([object : Objects, family : Families,
                                                        value : FeatureValues \cup {NoProperty}])
            BY <3>2, FeatureAssumption
        <3> QED BY <3>1, <3>2, <3>3 DEF TypeOK
    <2>2. stack = <<Root>> /\ visited = {} /\ current = NoProperty /\ objects = <<>>
        BY <1>1 DEF Init
    <2>3. DOMAIN stack = {1} /\ stack[1] = Root /\ DOMAIN objects = {}
        BY <2>2
    <2>4. ReachInv
        BY <2>1, <2>2, <2>3, RootReachable DEF ReachInv
    <2>5. Known(Root) /\ LinksKnown /\ ReportComplete
        BY <2>2, <2>3 DEF Known, LinksKnown, ReportComplete, OnStack, HasKeySeen
    <2>6. (policy # {} => needs_features) /\ (needs_features => pc = "walk")
        BY <1>1 DEF Init, needs_features
    <2>7. WalkInv
        BY <2>2, <2>5, <2>6 DEF WalkInv
    <2> QED BY <2>1, <2>4, <2>7 DEF FeatureInv
<1>2. ASSUME FeatureInv, [Next]_vars PROVE FeatureInv'
    BY <1>2, TypeStep, ReachStep, WalkStep DEF FeatureInv
<1> QED BY <1>1, <1>2, PTL DEF Spec

-----------------------------------------------------------------------------
(* The policy. *)

\* The values of the rule's field: in the report, and in the document.
ReportValues(r) ==
    {objects[i].value : i \in {j \in DOMAIN objects :
                             objects[j].family = r.family /\ objects[j].value # NoProperty}}
DocumentValues(r) ==
    {property[o] : o \in {p \in Reachable : FamilyOf[p] = r.family /\ property[p] # NoProperty}}

LEMMA RuleValues ==
    ASSUME NEW r
    PROVE  /\ evaluate_policy_rule(r) = Passes(r, ReportValues(r))
           /\ DocumentPasses(r) = Passes(r, DocumentValues(r))
<1>1. ReportValues(r) =
          LET matches == {i \in DOMAIN objects : objects[i].family = r.family}
          IN  {objects[i].value : i \in {j \in matches : objects[j].value # NoProperty}}
    BY DEF ReportValues
<1> QED BY <1>1 DEF DocumentValues, evaluate_policy_rule, DocumentPasses

\* A value of the document is one of the four kinds, and not redacted.
LEMMA DocumentValue ==
    ASSUME TypeOK, NEW o \in Objects, property[o] # NoProperty
    PROVE  /\ property[o] \in FeatureValues /\ property[o].type # "redacted"
           /\ safe_feature_value(property[o]) # NoProperty
<1>1. property[o] \in FeatureValues /\ property[o].type # "redacted"
    BY FeatureAssumption DEF TypeOK
<1>2. safe_feature_value(property[o]) \in FeatureValues
    BY <1>1 DEF safe_feature_value, FeatureValues
<1> QED BY <1>1, <1>2, FeatureAssumption

\* The report never has a value the document has not.
LEMMA ReportFromDocument ==
    ASSUME FeatureInv, NEW r, NEW v \in ReportValues(r)
    PROVE  \E d \in DocumentValues(r) : v = safe_feature_value(d)
<1>1. PICK i \in DOMAIN objects : /\ objects[i].family = r.family /\ objects[i].value # NoProperty
                                  /\ v = objects[i].value
    BY DEF ReportValues
<1>2. PICK o \in Reachable : objects[i] = feature_object(o)
    BY DEF FeatureInv, ReachInv
<1>3. FamilyOf[o] = r.family /\ property[o] # NoProperty /\ v = safe_feature_value(property[o])
    BY <1>1, <1>2 DEF feature_object
<1> QED BY <1>3 DEF DocumentValues

\* A complete report has all values of the document, as far as they are safe.
LEMMA DocumentInReport ==
    ASSUME FeatureInv, KeysDistinct, pc = "done", ~truncated, NEW r \in policy,
           NEW d \in DocumentValues(r)
    PROVE  safe_feature_value(d) \in ReportValues(r)
<1>0. needs_features /\ TypeOK
    BY DEF FeatureInv, WalkInv
<1>1. PICK o \in Reachable : FamilyOf[o] = r.family /\ property[o] # NoProperty /\ d = property[o]
    BY DEF DocumentValues
<1>2. o \in Objects /\ HasKeySeen(o)
    BY <1>0, SeenIsReachable DEF Reachable
<1>3. Selected(o)
    <2>1. FamilyOf[o] \in Families
        BY <1>2, FeatureAssumption
    <2>2. policy # {} /\ r.family \in {q.family : q \in policy}
        OBVIOUS
    <2>3. selection \in [mode : {"None", "All", "Families"}, families : SUBSET Families]
        BY <1>0, FeatureAssumption DEF TypeOK
    <2>4. CASE selection.mode = "Families"
        BY <1>1, <2>2, <2>3, <2>4
            DEF Selected, selected_feature_families, feature_selection_for_tasks
    <2>5. CASE selection.mode # "Families"
        BY <2>1, <2>2, <2>5 DEF Selected, selected_feature_families, feature_selection_for_tasks
    <2> QED BY <2>4, <2>5
<1>4. PICK i \in DOMAIN objects : objects[i].object = o
    BY <1>0, <1>2, <1>3 DEF FeatureInv, WalkInv, ReportComplete, Extracted
<1>5. PICK p \in Reachable : objects[i] = feature_object(p)
    BY DEF FeatureInv, ReachInv
<1>6. p = o
    BY <1>4, <1>5 DEF feature_object
<1>7. objects[i].family = r.family /\ objects[i].value = safe_feature_value(d)
    BY <1>1, <1>5, <1>6 DEF feature_object
<1>8. safe_feature_value(d) # NoProperty
    BY <1>0, <1>1, <1>2, DocumentValue
<1> QED BY <1>7, <1>8 DEF ReportValues

\* Redaction touches strings only, and leaves the others their value.
LEMMA RedactionFact ==
    ASSUME NEW d \in FeatureValues, d.type # "redacted"
    PROVE  /\ safe_feature_value(d).type \in {"number", "string"} => safe_feature_value(d) = d
           /\ d.type = "number" => safe_feature_value(d) = d
           /\ safe => safe_feature_value(d) = d
           /\ d.type # "number" => safe_feature_value(d).type # "number"
BY DEF safe_feature_value, FeatureValues

-----------------------------------------------------------------------------
(* The theorems. *)

\* Types of the walk, of the report and of the policy's result.
THEOREM TypeCorrect == Spec => []TypeOK
<1>1. FeatureInv => TypeOK
    BY DEF FeatureInv
<1> QED BY <1>1, FeatureInvariant, PTL

\* A report of extract_features that is not marked truncated has every
\* reachable object of the selected families, each once, in every document.
THEOREM FeaturesCompleteAlways == Spec => []FeaturesComplete
<1>1. ASSUME FeatureInv PROVE FeaturesComplete
    <2> SUFFICES ASSUME pc = "done", needs_features, ~truncated, KeysDistinct
                 PROVE  /\ Extracted = {o \in Reachable : FamilyOf[o] \in selected_feature_families}
                        /\ ReportComplete
        BY DEF FeaturesComplete, ReportComplete, Extracted
    <2>1. ReportComplete
        BY <1>1 DEF FeatureInv, WalkInv
    <2>2. \A o \in Objects : HasKeySeen(o) <=> o \in Reachable
        BY <1>1, SeenIsReachable
    <2>3. ASSUME NEW i \in DOMAIN objects
          PROVE  objects[i].object \in Reachable /\ Selected(objects[i].object)
        <3>1. PICK o \in Reachable : objects[i] = feature_object(o) /\ Selected(o)
            BY <1>1 DEF FeatureInv, ReachInv
        <3> QED BY <3>1 DEF feature_object
    <2>4. \A o \in Reachable : o \in Objects
        BY DEF Reachable
    <2> QED BY <2>1, <2>2, <2>3, <2>4 DEF ReportComplete, Extracted, Selected
<1> QED BY <1>1, FeatureInvariant, PTL

\* On a report that is not truncated evaluate_policy tells the truth about the
\* document, whatever families the caller selected, unless what the rule
\* compares is redacted.
THEOREM PolicyExactAlways == Spec => []PolicyExact
<1>1. ASSUME FeatureInv PROVE PolicyExact
    <2> SUFFICES ASSUME pc = "done", ~truncated, KeysDistinct, NEW r \in policy,
                        safe \/ r.value.type # "string"
                 PROVE  passed <=> DocumentPasses(r)
        BY DEF PolicyExact
    <2> DEFINE V == ReportValues(r)
               D == DocumentValues(r)
    <2>0. TypeOK /\ r \in PolicyRules /\ policy = {r}
        BY <1>1, FeatureAssumption DEF FeatureInv, TypeOK
    <2>1. passed <=> Passes(r, V)
        <3>1. needs_features /\ passed = (\A q \in policy : evaluate_policy_rule(q))
            BY <1>1 DEF FeatureInv, WalkInv
        <3> QED BY <2>0, <3>1, RuleValues
    <2>2. \A d \in D : d \in FeatureValues /\ d.type # "redacted"
        BY <2>0, DocumentValue DEF DocumentValues, Reachable
    <2>3. \A v \in V : \E d \in D : v = safe_feature_value(d)
        BY <1>1, ReportFromDocument
    <2>4. \A d \in D : safe_feature_value(d) \in V
        BY <1>1, DocumentInReport
    <2> HIDE DEF V, D
    <2>5. r.value.type = "number" \/ safe
        BY <2>0 DEF PolicyRules
    <2>6. /\ \A d \in D : safe_feature_value(d).type \in {"number", "string"} => safe_feature_value(d) = d
          /\ \A d \in D : d.type = "number" => safe_feature_value(d) = d
          /\ safe => \A d \in D : safe_feature_value(d) = d
          /\ \A d \in D : d.type # "number" => safe_feature_value(d).type # "number"
        BY <2>2, RedactionFact
    <2>7. {v \in V : v.type = "number"} = {d \in D : d.type = "number"}
        BY <2>3, <2>4, <2>6
    <2>8. V = {} <=> D = {}
        BY <2>3, <2>4
    <2>9. (\E v \in V : policy_value_matches(v, r.value)) <=> \E d \in D : policy_value_matches(d, r.value)
        <3>1. CASE safe
            BY <2>3, <2>4, <2>6, <3>1
        <3>2. CASE r.value.type = "number"
            BY <2>7, <3>2 DEF policy_value_matches
        <3> QED BY <2>5, <3>1, <3>2
    <2>10. Passes(r, V) <=> Passes(r, D)
        <3>1. r.operator \in Operators
            BY <2>0 DEF PolicyRules
        <3>2. CASE r.operator \in {"Exists", "Absent"}
            BY <2>8, <3>2 DEF Passes
        <3>3. CASE r.operator \in {"Equals", "NotEquals"}
            BY <2>9, <3>3 DEF Passes
        <3>4. CASE r.operator \in {"Min", "Max"}
            BY <2>7, <3>4 DEF Passes
        <3> QED BY <3>1, <3>2, <3>3, <3>4 DEF Operators
    <2> QED BY <2>1, <2>10, RuleValues DEF D
<1> QED BY <1>1, FeatureInvariant, PTL

\* However the report was cut off or redacted, a pass of an operator that looks
\* for a witness is the truth about the document.
THEOREM WitnessSoundAlways == Spec => []WitnessSound
<1>1. ASSUME FeatureInv PROVE WitnessSound
    <2> SUFFICES ASSUME pc = "done", passed, NEW r \in policy,
                        r.operator \in {"Exists", "Equals", "Min", "Max"}
                 PROVE  DocumentPasses(r)
        BY DEF WitnessSound
    <2> DEFINE V == ReportValues(r)
               D == DocumentValues(r)
    <2>0. TypeOK /\ r \in PolicyRules
        BY <1>1, FeatureAssumption DEF FeatureInv, TypeOK
    <2>1. Passes(r, V)
        <3>1. passed = (\A q \in policy : evaluate_policy_rule(q))
            BY <1>1 DEF FeatureInv, WalkInv
        <3> QED BY <3>1, RuleValues
    <2>2. \A d \in D : d \in FeatureValues /\ d.type # "redacted"
        BY <2>0, DocumentValue DEF DocumentValues, Reachable
    <2>3. \A v \in V : \E d \in D : v = safe_feature_value(d)
        BY <1>1, ReportFromDocument
    <2> HIDE DEF V, D
    <2>4. \A v \in V : v.type \in {"number", "string"} => v \in D
        BY <2>2, <2>3, RedactionFact
    <2>5. r.value.type \in {"number", "string"}
        BY <2>0 DEF PolicyRules
    <2>6. Passes(r, D)
        <3>1. CASE r.operator = "Exists"
            BY <2>1, <2>3, <3>1 DEF Passes
        <3>2. CASE r.operator = "Equals"
            BY <2>1, <2>4, <2>5, <3>2 DEF Passes, policy_value_matches
        <3>3. CASE r.operator = "Min"
            BY <2>1, <2>4, <3>3 DEF Passes
        <3>4. CASE r.operator = "Max"
            BY <2>1, <2>4, <3>4 DEF Passes
        <3> QED BY <3>1, <3>2, <3>3, <3>4
    <2> QED BY <2>6, RuleValues DEF D
<1> QED BY <1>1, FeatureInvariant, PTL
=============================================================================
