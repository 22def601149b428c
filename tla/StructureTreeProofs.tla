------------------------- MODULE StructureTreeProofs -------------------------
(***************************************************************************)
(* The structure tree of every document, for every value of the limits:    *)
(* the role a node is given is where the role map leads, the nodes form a  *)
(* tree in document order, a tree that was cut off says so, nothing is     *)
(* lost without a warning, and marked content goes to the element that     *)
(* lists it.                                                               *)
(***************************************************************************)
EXTENDS StructureTree, SequenceTheorems, FiniteSetTheorems, WellFoundedInduction, TLAPS

-----------------------------------------------------------------------------
(* Induction and recursion over 0 .. n, on sets and functions. *)

\* A set of numbers that is not empty has a least one.
LEMMA LeastNumber ==
  ASSUME NEW S, S \subseteq Nat, S # {}
  PROVE  \E n \in S : \A m \in S : n <= m
<1> DEFINE R == {ss \in Nat \X Nat : ss[1] < ss[2]}
<1>1. IsWellFoundedOn(R, Nat)
  BY NatLessThanWellFounded DEF OpToRel
<1>2. PICK n \in S : \A m \in S : ~(<<m, n>> \in R)
  <2> HIDE DEF R
  <2> QED BY <1>1, WFMin
<1>3. ASSUME NEW m \in S PROVE n <= m
  <2>1. m \in Nat /\ n \in Nat /\ ~(<<m, n>> \in R)
    <3> HIDE DEF R
    <3> QED BY <1>2
  <2>2. ~(m < n)
    BY <2>1
  <2> QED
    <3> HIDE DEF R
    <3> QED BY <2>1, <2>2
<1> QED
  BY <1>3

\* Induction up to n.
LEMMA InductionUpTo ==
  ASSUME NEW n \in Nat, NEW S, 0 \in S, \A i \in 0 .. n - 1 : i \in S => i + 1 \in S
  PROVE  0 .. n \subseteq S
<1> DEFINE T == (0 .. n) \ S
<1>1. ASSUME T # {} PROVE FALSE
  <2>1. T \subseteq Nat
    OBVIOUS
  <2>2. PICK i \in T : \A j \in T : i <= j
    <3> HIDE DEF T
    <3> QED BY <1>1, <2>1, LeastNumber
  <2>3. i \in 1 .. n
    BY <2>2
  <2>4. i - 1 \in 0 .. n - 1 /\ i - 1 \notin T
    BY <2>2, <2>3
  <2> QED
    BY <2>3, <2>4
<1> QED
  BY <1>1

\* A function that has a first value, and each next one from its place and the
\* value before.
Iterates(f, n, first, step) == f = [i \in 0 .. n |-> IF i = 0 THEN first ELSE step[<<i, f[i - 1]>>]]

\* There is one, whatever the step.
LEMMA IterationExists ==
  ASSUME NEW n \in Nat, NEW first, NEW step
  PROVE  \E f : Iterates(f, n, first, step)
<1> DEFINE Upto(m, f) == Iterates(f, m, first, step)
           S == {m \in Nat : \E f : Upto(m, f)}
<1>1. 0 \in S
  <2>1. Upto(0, [i \in 0 .. 0 |-> first])
    BY DEF Iterates
  <2> QED BY <2>1
<1>2. ASSUME NEW m \in 0 .. n - 1, m \in S PROVE m + 1 \in S
  <2>1. PICK f : Upto(m, f)
    BY <1>2
  <2> DEFINE g == [i \in 0 .. m + 1 |-> IF i <= m THEN f[i] ELSE step[<<m + 1, f[m]>>]]
  <2>2. ASSUME NEW i \in 0 .. m + 1
        PROVE  g[i] = IF i = 0 THEN first ELSE step[<<i, g[i - 1]>>]
    <3>1. CASE i = 0
      BY <3>1, <2>1 DEF Iterates
    <3>2. CASE i \in 1 .. m
      <4>1. f[i] = step[<<i, f[i - 1]>>]
        BY <3>2, <2>1 DEF Iterates
      <4> QED BY <3>2, <4>1
    <3>3. CASE i = m + 1
      BY <3>3
    <3> QED BY <3>1, <3>2, <3>3
  <2>3. Upto(m + 1, g)
    <3> HIDE DEF g
    <3>1. g = [i \in 0 .. m + 1 |-> g[i]]
      BY DEF g
    <3> QED BY <2>2, <3>1 DEF Iterates
  <2> QED
    <3> HIDE DEF g, Upto
    <3> QED BY <2>3
<1>3. n \in S
  <2> HIDE DEF S
  <2>1. 0 .. n \subseteq S
    BY <1>1, <1>2, InductionUpTo
  <2> QED BY <2>1
<1> QED
  BY <1>3

\* A sequence is one over its own elements.
LEMMA OverItself ==
  ASSUME NEW s, NEW n \in Nat, s = [i \in 1 .. n |-> s[i]]
  PROVE  s \in Seq({s[i] : i \in DOMAIN s}) /\ Len(s) = n /\ DOMAIN s = 1 .. n
<1> DEFINE V == {s[i] : i \in DOMAIN s}
<1>1. DOMAIN s = 1 .. n
  OBVIOUS
<1>2. \A i \in 1 .. n : s[i] \in V
  BY <1>1
<1> HIDE DEF V
<1>3. s \in Seq(V)
  BY <1>2
<1>4. Len(s) = n
  BY <1>1, <1>3
<1> QED
  BY <1>1, <1>3, <1>4 DEF V

-----------------------------------------------------------------------------
(* Roles. *)

\* The roles a chain can meet, and the states of the loop.
RolesMet(role, roles) == {role} \cup {roles[r] : r \in DOMAIN roles}
ChainStates(role, roles) ==
  [at : RolesMet(role, roles), seen : SUBSET RolesMet(role, roles), end : BOOLEAN, cut : BOOLEAN]

\* Each turn of the loop starts from what the one before left.
LEMMA ChainUnfolds ==
  ASSUME NEW role, NEW roles
  PROVE  /\ RoleChain(role, roles)[0] = RoleStart(role)
         /\ \A n \in 1 .. MaxRoleSteps :
              RoleChain(role, roles)[n] = RoleStep(RoleChain(role, roles)[n - 1], roles)
         /\ \A n \in 0 .. MaxRoleSteps : RoleChain(role, roles)[n] \in ChainStates(role, roles)
<1> DEFINE N == MaxRoleSteps
           T == ChainStates(role, roles)
           step == [p \in Nat \X T |-> RoleStep(p[2], roles)]
           chain == RoleChain(role, roles)
<1>1. N \in Nat
  BY StructureBounds
<1>2. PICK f : f = [n \in 0 .. N |-> IF n = 0 THEN RoleStart(role) ELSE step[<<n, f[n - 1]>>]]
  <2>1. PICK f : Iterates(f, N, RoleStart(role), step)
    <3> HIDE DEF N, step
    <3> QED BY <1>1, IterationExists, Zenon
  <2> HIDE DEF step
  <2> QED BY <2>1 DEF Iterates
<1>3. RoleStart(role) \in T
  BY DEF RoleStart, ChainStates, RolesMet
<1>4. ASSUME NEW c \in T PROVE RoleStep(c, roles) \in T
  BY DEF RoleStep, ChainStates, RolesMet
<1>5. ASSUME NEW g, g = [n \in 0 .. N |-> IF n = 0 THEN RoleStart(role) ELSE RoleStep(g[n - 1], roles)]
      PROVE  \A n \in 0 .. N : g[n] \in T
  <2> DEFINE S == {n \in 0 .. N : g[n] \in T}
  <2>1. 0 \in S
    BY <1>1, <1>3, <1>5
  <2>2. ASSUME NEW n \in 0 .. N - 1, n \in S PROVE n + 1 \in S
    <3>1. n + 1 \in 0 .. N /\ n + 1 # 0 /\ (n + 1) - 1 = n
      BY <1>1
    <3>2. g[n + 1] = RoleStep(g[n], roles)
      BY <3>1, <1>5
    <3> QED BY <2>2, <3>1, <3>2, <1>4
  <2> HIDE DEF S
  <2>3. 0 .. N \subseteq S
    BY <1>1, <2>1, <2>2, InductionUpTo
  <2> QED BY <2>3 DEF S
<1>6. ASSUME NEW n \in 0 .. N PROVE f[n] \in T
  <2> DEFINE S == {i \in 0 .. N : f[i] \in T}
  <2>1. 0 \in S
    BY <1>1, <1>2, <1>3
  <2>2. ASSUME NEW i \in 0 .. N - 1, i \in S PROVE i + 1 \in S
    <3>1. i + 1 \in 0 .. N /\ i + 1 # 0 /\ (i + 1) - 1 = i
      BY <1>1
    <3>2. f[i + 1] = step[<<i + 1, f[i]>>]
      <4> HIDE DEF step
      <4> QED BY <3>1, <1>2
    <3> QED BY <2>2, <3>1, <3>2, <1>4
  <2> HIDE DEF S
  <2>3. 0 .. N \subseteq S
    BY <1>1, <2>1, <2>2, InductionUpTo
  <2> QED BY <2>3 DEF S
<1>7. f = [n \in 0 .. N |-> IF n = 0 THEN RoleStart(role) ELSE RoleStep(f[n - 1], roles)]
  <2>1. ASSUME NEW n \in 0 .. N, n # 0 PROVE step[<<n, f[n - 1]>>] = RoleStep(f[n - 1], roles)
    <3>1. n - 1 \in 0 .. N
      BY <1>1, <2>1
    <3> QED BY <3>1, <1>6
  <2> HIDE DEF step
  <2> QED BY <1>2, <2>1
<1>8. chain = [n \in 0 .. N |-> IF n = 0 THEN RoleStart(role) ELSE RoleStep(chain[n - 1], roles)]
  BY <1>7 DEF RoleChain
<1> HIDE DEF chain, T, N
<1>9. \A n \in 0 .. N : chain[n] \in T
  BY <1>5, <1>8
<1>10. chain[0] = RoleStart(role) /\ \A n \in 1 .. N : chain[n] = RoleStep(chain[n - 1], roles)
  BY <1>1, <1>8
<1> QED
  BY <1>9, <1>10 DEF chain, T, N

\* Each role of a chain is the one the role before is mapped to, if it is.
LEMMA AfterUnfolds ==
  ASSUME NEW role
  PROVE  /\ RolesAfter(role)[0] = role
         /\ \A n \in 1 .. MaxRoleSteps - 1 :
              LET before == RolesAfter(role)[n - 1]
              IN RolesAfter(role)[n] = IF before \in DOMAIN doc.roles THEN doc.roles[before] ELSE before
<1> DEFINE N == MaxRoleSteps - 1
           T == RolesMet(role, doc.roles)
           Next1(r) == IF r \in DOMAIN doc.roles THEN doc.roles[r] ELSE r
           step == [p \in Nat \X T |-> Next1(p[2])]
           after == RolesAfter(role)
<1>1. N \in Nat
  BY StructureBounds
<1>2. PICK f : f = [n \in 0 .. N |-> IF n = 0 THEN role ELSE step[<<n, f[n - 1]>>]]
  <2>1. PICK f : Iterates(f, N, role, step)
    <3> HIDE DEF N, step
    <3> QED BY <1>1, IterationExists, Zenon
  <2> HIDE DEF step
  <2> QED BY <2>1 DEF Iterates
<1>3. role \in T /\ \A r \in T : Next1(r) \in T
  BY DEF RolesMet
<1>4. ASSUME NEW n \in 0 .. N PROVE f[n] \in T
  <2> DEFINE S == {i \in 0 .. N : f[i] \in T}
  <2>1. 0 \in S
    BY <1>1, <1>2, <1>3
  <2>2. ASSUME NEW i \in 0 .. N - 1, i \in S PROVE i + 1 \in S
    <3>1. i + 1 \in 0 .. N /\ i + 1 # 0 /\ (i + 1) - 1 = i
      BY <1>1
    <3>2. f[i + 1] = step[<<i + 1, f[i]>>]
      <4> HIDE DEF step
      <4> QED BY <3>1, <1>2
    <3>3. f[i] \in T
      BY <2>2
    <3>4. step[<<i + 1, f[i]>>] = Next1(f[i])
      BY <3>3
    <3> QED
      <4> HIDE DEF step, T, Next1
      <4> QED BY <3>1, <3>2, <3>3, <3>4, <1>3
  <2> HIDE DEF S
  <2>3. 0 .. N \subseteq S
    BY <1>1, <2>1, <2>2, InductionUpTo
  <2> QED BY <2>3 DEF S
<1>5. f = [n \in 0 .. N |-> IF n = 0 THEN role ELSE Next1(f[n - 1])]
  <2>1. ASSUME NEW n \in 0 .. N, n # 0 PROVE step[<<n, f[n - 1]>>] = Next1(f[n - 1])
    <3>1. n - 1 \in 0 .. N
      BY <1>1, <2>1
    <3> QED BY <3>1, <1>4
  <2> HIDE DEF step, Next1
  <2> QED BY <1>2, <2>1
<1>6. after = [n \in 0 .. N |-> IF n = 0 THEN role ELSE Next1(after[n - 1])]
  BY <1>5 DEF RolesAfter
<1> HIDE DEF after, N, Next1
<1>7. after[0] = role /\ \A n \in 1 .. N : after[n] = Next1(after[n - 1])
  BY <1>1, <1>6
<1> QED
  BY <1>7 DEF after, N, Next1

\* A role that is not mapped stays.
LEMMA UnmappedStays ==
  ASSUME NEW role, NEW n \in 0 .. MaxRoleSteps - 1, RolesAfter(role)[n] \notin DOMAIN doc.roles,
         NEW m \in n .. MaxRoleSteps - 1
  PROVE  RolesAfter(role)[m] = RolesAfter(role)[n]
<1> DEFINE N == MaxRoleSteps - 1
           after == RolesAfter(role)
           S == {k \in 0 .. N : k >= n => after[k] = after[n]}
<1>1. N \in Nat
  BY StructureBounds
<1>2. 0 \in S
  BY <1>1
<1>3. ASSUME NEW k \in 0 .. N - 1, k \in S PROVE k + 1 \in S
  <2>1. k + 1 \in 1 .. N /\ (k + 1) - 1 = k
    BY <1>1
  <2>2. after[k + 1] = IF after[k] \in DOMAIN doc.roles THEN doc.roles[after[k]] ELSE after[k]
    BY <2>1, AfterUnfolds
  <2> QED BY <1>3, <2>1, <2>2
<1>4. 0 .. N \subseteq S
  <2> HIDE DEF S
  <2> QED BY <1>1, <1>2, <1>3, InductionUpTo
<1> QED
  BY <1>1, <1>4

\* A chain that comes back to a role goes round for ever.
LEMMA RoundForever ==
  ASSUME NEW role, NEW i \in 0 .. MaxRoleSteps - 1, NEW j \in 0 .. MaxRoleSteps - 1, i < j,
         RolesAfter(role)[i] = RolesAfter(role)[j],
         \A k \in 0 .. j - 1 : RolesAfter(role)[k] \in DOMAIN doc.roles
  PROVE  \A k \in 0 .. MaxRoleSteps - 1 : RolesAfter(role)[k] \in DOMAIN doc.roles
<1> DEFINE N == MaxRoleSteps - 1
           after == RolesAfter(role)
           S == {k \in 0 .. N : \E h \in 0 .. j - 1 : after[k] = after[h]}
<1>1. N \in Nat /\ 0 \in 0 .. j - 1
  BY StructureBounds
<1>2. 0 \in S
  BY <1>1
<1>3. ASSUME NEW k \in 0 .. N - 1, k \in S PROVE k + 1 \in S
  <2>1. k + 1 \in 1 .. N /\ (k + 1) - 1 = k
    BY <1>1
  <2>2. PICK h \in 0 .. j - 1 : after[k] = after[h]
    BY <1>3
  <2>3. h + 1 \in 1 .. N /\ (h + 1) - 1 = h /\ after[h] \in DOMAIN doc.roles
    BY <1>1
  <2>4. after[k + 1] = doc.roles[after[k]] /\ after[h + 1] = doc.roles[after[h]]
    BY <2>1, <2>2, <2>3, AfterUnfolds
  <2>5. after[k + 1] = after[h + 1]
    BY <2>2, <2>4
  <2>6. CASE h + 1 = j
    BY <2>1, <2>5, <2>6
  <2>7. CASE h + 1 # j
    <3>1. h + 1 \in 0 .. j - 1
      BY <2>7
    <3> QED BY <2>1, <2>5, <3>1
  <2> QED BY <2>6, <2>7
<1>4. 0 .. N \subseteq S
  <2> HIDE DEF S
  <2> QED BY <1>1, <1>2, <1>3, InductionUpTo
<1> QED
  BY <1>4

\* What the loop has after n turns.
Going(role, n) ==
  LET c == RoleChain(role, doc.roles)[n]
  IN /\ c.end = FALSE /\ c.cut = FALSE
     /\ c.seen = {RolesAfter(role)[i] : i \in 0 .. n - 1}
     /\ n < MaxRoleSteps => c.at = RolesAfter(role)[n]
     /\ \A i \in 0 .. n - 1 : RolesAfter(role)[i] \in DOMAIN doc.roles
Arrived(role, n) ==
  LET c == RoleChain(role, doc.roles)[n]
  IN /\ c.end = TRUE /\ c.cut = FALSE
     /\ \E i \in 0 .. MaxRoleSteps - 1 :
          c.at = RolesAfter(role)[i] /\ RolesAfter(role)[i] \notin DOMAIN doc.roles
Cut(role, n) ==
  LET c == RoleChain(role, doc.roles)[n]
  IN /\ c.end = TRUE /\ c.cut = TRUE
     /\ \A i \in 0 .. MaxRoleSteps - 1 : RolesAfter(role)[i] \in DOMAIN doc.roles
ChainFits(role, n) == Going(role, n) \/ Arrived(role, n) \/ Cut(role, n)

\* One more turn of a loop that goes on.
LEMMA GoingOn ==
  ASSUME NEW role, NEW n \in 0 .. MaxRoleSteps - 1, Going(role, n)
  PROVE  ChainFits(role, n + 1)
<1> DEFINE after == RolesAfter(role)
           c == RoleChain(role, doc.roles)[n]
           d == RoleChain(role, doc.roles)[n + 1]
<1>1. MaxRoleSteps \in Nat
  BY StructureBounds
<1>2. d = RoleStep(c, doc.roles) /\ c \in ChainStates(role, doc.roles)
  <2>1. n + 1 \in 1 .. MaxRoleSteps /\ (n + 1) - 1 = n /\ n \in 0 .. MaxRoleSteps
    BY <1>1
  <2> QED BY <2>1, ChainUnfolds
<1>3. /\ c.end = FALSE /\ c.cut = FALSE /\ c.at = after[n]
      /\ c.seen = {after[i] : i \in 0 .. n - 1}
      /\ \A i \in 0 .. n - 1 : after[i] \in DOMAIN doc.roles
  BY <1>1 DEF Going
<1> HIDE DEF after, c, d
<1>4. CASE c.at \in c.seen
  <2>1. d.end = TRUE /\ d.cut = TRUE
    BY <1>2, <1>3, <1>4 DEF RoleStep, ChainStates
  <2>2. PICK i \in 0 .. n - 1 : after[i] = after[n]
    BY <1>3, <1>4
  <2>3. \A k \in 0 .. MaxRoleSteps - 1 : after[k] \in DOMAIN doc.roles
    <3>1. i \in 0 .. MaxRoleSteps - 1 /\ i < n
      BY <1>1
    <3> QED BY <1>3, <2>2, <3>1, RoundForever DEF after
  <2> QED BY <2>1, <2>3 DEF Cut, ChainFits, after, d
<1>5. CASE c.at \notin c.seen /\ c.at \notin DOMAIN doc.roles
  <2>1. d.end = TRUE /\ d.cut = FALSE /\ d.at = after[n]
    BY <1>2, <1>3, <1>5 DEF RoleStep, ChainStates
  <2> QED BY <1>3, <1>5, <2>1 DEF Arrived, ChainFits, after, d
<1>6. CASE c.at \notin c.seen /\ c.at \in DOMAIN doc.roles
  <2>1. /\ d.end = FALSE /\ d.cut = FALSE /\ d.at = doc.roles[after[n]]
        /\ d.seen = c.seen \cup {after[n]}
    BY <1>2, <1>3, <1>6 DEF RoleStep, ChainStates
  <2>2. d.seen = {after[i] : i \in 0 .. (n + 1) - 1}
    BY <1>3, <2>1
  <2>3. \A i \in 0 .. (n + 1) - 1 : after[i] \in DOMAIN doc.roles
    BY <1>3, <1>6
  <2>4. ASSUME n + 1 < MaxRoleSteps PROVE d.at = after[n + 1]
    <3>1. n + 1 \in 1 .. MaxRoleSteps - 1 /\ (n + 1) - 1 = n
      BY <1>1, <2>4
    <3> QED BY <1>3, <1>6, <2>1, <3>1, AfterUnfolds DEF after
  <2> QED BY <2>1, <2>2, <2>3, <2>4 DEF Going, ChainFits, after, d
<1> QED
  BY <1>4, <1>5, <1>6

\* The loop is always in one of the three.
LEMMA ChainFollows ==
  ASSUME NEW role
  PROVE  ChainFits(role, MaxRoleSteps)
<1> DEFINE S == {n \in 0 .. MaxRoleSteps : ChainFits(role, n)}
<1>1. MaxRoleSteps \in Nat /\ 0 < MaxRoleSteps
  BY StructureBounds
<1>2. ChainFits(role, 0)
  <2>1. RoleChain(role, doc.roles)[0] = RoleStart(role) /\ RolesAfter(role)[0] = role
    BY ChainUnfolds, AfterUnfolds
  <2>2. Going(role, 0)
    BY <2>1 DEF Going, RoleStart
  <2> QED BY <2>2 DEF ChainFits
<1>3. ASSUME NEW n \in 0 .. MaxRoleSteps - 1, n \in S PROVE n + 1 \in S
  <2>1. n + 1 \in 0 .. MaxRoleSteps
    BY <1>1
  <2>2. CASE Going(role, n)
    BY <2>1, <2>2, GoingOn
  <2>3. CASE Arrived(role, n) \/ Cut(role, n)
    <3>1. n + 1 \in 1 .. MaxRoleSteps /\ (n + 1) - 1 = n
      BY <1>1
    <3>2. RoleChain(role, doc.roles)[n + 1] = RoleStep(RoleChain(role, doc.roles)[n], doc.roles)
      BY <3>1, ChainUnfolds
    <3>3. RoleChain(role, doc.roles)[n + 1] = RoleChain(role, doc.roles)[n]
      BY <2>3, <3>2 DEF RoleStep, Arrived, Cut
    <3> QED BY <2>1, <2>3, <3>3 DEF Arrived, Cut, ChainFits
  <2> QED BY <1>3, <2>2, <2>3 DEF ChainFits
<1>4. 0 \in S
  BY <1>1, <1>2
<1> HIDE DEF S
<1>5. 0 .. MaxRoleSteps \subseteq S
  BY <1>1, <1>3, <1>4, InductionUpTo
<1> QED
  BY <1>1, <1>5 DEF S

\* A role is given as cut exactly if the role map still maps the last role it
\* leads to, and otherwise that role is the one given.
LEMMA RoleFact ==
  ASSUME NEW role
  PROVE  LET final == RolesAfter(role)[MaxRoleSteps - 1]
             given == normalize_role(role, doc.roles)
         IN /\ given[2] = (final \in DOMAIN doc.roles)
            /\ final \notin DOMAIN doc.roles => given[1] = final
<1> DEFINE N == MaxRoleSteps - 1
           final == RolesAfter(role)[N]
           c == RoleChain(role, doc.roles)[MaxRoleSteps]
           given == normalize_role(role, doc.roles)
<1>1. MaxRoleSteps \in Nat /\ N \in Nat /\ N \in 0 .. MaxRoleSteps - 1 /\ ~(MaxRoleSteps < MaxRoleSteps)
  BY StructureBounds
<1>2. given[1] = c.at /\ given[2] = (c.cut \/ ~c.end)
  BY DEF normalize_role
<1>3. CASE Going(role, MaxRoleSteps)
  <2>1. c.cut = FALSE /\ c.end = FALSE /\ final \in DOMAIN doc.roles
    BY <1>1, <1>3 DEF Going
  <2> QED BY <1>2, <2>1
<1>4. CASE Arrived(role, MaxRoleSteps)
  <2>1. PICK i \in 0 .. N : c.at = RolesAfter(role)[i] /\ RolesAfter(role)[i] \notin DOMAIN doc.roles
    BY <1>4 DEF Arrived
  <2>2. final = RolesAfter(role)[i]
    <3>1. N \in i .. MaxRoleSteps - 1
      BY <1>1
    <3> QED BY <2>1, <3>1, UnmappedStays
  <2>3. c.cut = FALSE /\ c.end = TRUE
    BY <1>4 DEF Arrived
  <2> QED BY <1>2, <2>1, <2>2, <2>3
<1>5. CASE Cut(role, MaxRoleSteps)
  <2>1. c.cut = TRUE /\ final \in DOMAIN doc.roles
    BY <1>1, <1>5 DEF Cut
  <2> QED BY <1>2, <2>1
<1> QED
  BY <1>3, <1>4, <1>5, ChainFollows DEF ChainFits

-----------------------------------------------------------------------------
(* The nodes. *)

\* Each node has the role that normalize_role gives.
RolesGiven ==
  /\ nodes \in Seq({nodes[n] : n \in DOMAIN nodes})
  /\ \A n \in DOMAIN nodes :
       <<nodes[n].normalized_role, nodes[n].circular>> = normalize_role(nodes[n].role, doc.roles)

\* AddNode puts one node behind the others.
LEMMA NodesGrow ==
  ASSUME NEW item, nodes \in Seq({nodes[n] : n \in DOMAIN nodes}), AddNode(item)
  PROVE  /\ nodes' \in Seq({nodes'[n] : n \in DOMAIN nodes'})
         /\ Len(nodes) \in Nat /\ DOMAIN nodes = 1 .. Len(nodes)
         /\ Len(nodes') = Len(nodes) + 1 /\ DOMAIN nodes' = 1 .. Len(nodes) + 1
         /\ \A n \in DOMAIN nodes : nodes'[n] = WithChild(item.parent, Len(nodes) + 1)[n]
         /\ nodes'[Len(nodes) + 1] = NewNode(item)
<1> DEFINE L == Len(nodes)
           old == WithChild(item.parent, L + 1)
           new == NewNode(item)
<1>1. nodes' = Append(old, new)
  BY DEF AddNode
<1>2. L \in Nat /\ DOMAIN nodes = 1 .. L
  OBVIOUS
<1>3. old = [n \in 1 .. L |-> old[n]]
  BY <1>2 DEF WithChild
<1> HIDE DEF old, new, L
<1>4. old \in Seq({old[n] : n \in DOMAIN old}) /\ Len(old) = L /\ DOMAIN old = 1 .. L
  BY <1>2, <1>3, OverItself
<1>5. PICK V : old \in Seq(V) /\ new \in V
  <2> DEFINE V == {old[i] : i \in DOMAIN old} \cup {new}
  <2>1. \A n \in 1 .. L : old[n] \in V
    BY <1>4
  <2>2. new \in V
    OBVIOUS
  <2> HIDE DEF V
  <2>3. old \in [1 .. L -> V]
    BY ONLY <1>3, <2>1
  <2>4. old \in Seq(V)
    BY ONLY <1>2, <2>3, SeqDef
  <2> QED BY <2>2, <2>4
<1>6. /\ nodes' \in Seq(V) /\ Len(nodes') = L + 1 /\ DOMAIN nodes' = 1 .. L + 1
      /\ \A n \in 1 .. L : nodes'[n] = old[n]
      /\ nodes'[L + 1] = new
  BY <1>1, <1>2, <1>4, <1>5
<1>7. nodes' \in Seq({nodes'[n] : n \in DOMAIN nodes'})
  BY <1>6
<1> QED
  BY <1>2, <1>6, <1>7 DEF L, old, new

\* A new node has its role, and the other nodes keep theirs.
LEMMA AddNodeRoles ==
  ASSUME NEW item, RolesGiven, AddNode(item), doc' = doc
  PROVE  RolesGiven'
<1> DEFINE role == normalize_role(Dict(item.value).role, doc.roles)
           old == WithChild(item.parent, Len(nodes) + 1)
           new == NewNode(item)
<1>1. \A n \in DOMAIN nodes :
        /\ old[n].role = nodes[n].role
        /\ old[n].normalized_role = nodes[n].normalized_role
        /\ old[n].circular = nodes[n].circular
  BY DEF WithChild
<1>2. /\ new.role = Dict(item.value).role
      /\ new.normalized_role = role[1] /\ new.circular = role[2]
  BY DEF NewNode
<1> HIDE DEF old, new
<1>3. /\ nodes' \in Seq({nodes'[n] : n \in DOMAIN nodes'})
      /\ DOMAIN nodes = 1 .. Len(nodes) /\ Len(nodes) \in Nat
      /\ DOMAIN nodes' = 1 .. Len(nodes) + 1
      /\ \A n \in DOMAIN nodes : nodes'[n] = old[n]
      /\ nodes'[Len(nodes) + 1] = new
  BY NodesGrow DEF RolesGiven, old, new
<1>4. ASSUME NEW n \in DOMAIN nodes'
      PROVE  <<nodes'[n].normalized_role, nodes'[n].circular>> = normalize_role(nodes'[n].role, doc.roles)
  <2>1. CASE n \in DOMAIN nodes
    BY <1>1, <1>3, <2>1 DEF RolesGiven
  <2>2. CASE n = Len(nodes) + 1
    <3>1. role = <<role[1], role[2]>>
      BY DEF normalize_role
    <3>2. nodes'[n] = new
      BY <1>3, <2>2
    <3> HIDE DEF role
    <3>3. <<nodes'[n].normalized_role, nodes'[n].circular>> = role
      BY <1>2, <3>1, <3>2
    <3> QED BY <1>2, <3>2, <3>3 DEF role
  <2> QED BY <1>3, <2>1, <2>2
<1> QED
  BY <1>3, <1>4 DEF RolesGiven

\* RolesGiven is preserved; only VisitElement makes a node.
LEMMA NextRoles == RolesGiven /\ [Next]_structure_vars => RolesGiven'
<1> SUFFICES ASSUME RolesGiven, [Next]_structure_vars PROVE RolesGiven'
  OBVIOUS
<1>1. CASE VisitElement
  BY <1>1, AddNodeRoles DEF VisitElement, TreeOnly
<1>2. CASE UNCHANGED <<doc, nodes>>
  BY <1>2 DEF RolesGiven
<1>3. WalkTree \/ IdTreeRead \/ ParentTreeRead \/ TreeRead => UNCHANGED <<doc, nodes>>
  BY DEF WalkTree, IdTreeRead, ParentTreeRead, TreeRead
<1>4. TooDeep \/ OpenArray \/ SkipOther \/ SkipSeen \/ TooMany => UNCHANGED <<doc, nodes>>
  BY DEF TooDeep, OpenArray, SkipOther, SkipSeen, TooMany, Skip, TreeOnly
<1>5. AssociatePage \/ ContentRead \/ AssociateObjects \/ Built \/ UNCHANGED structure_vars
        => UNCHANGED <<doc, nodes>>
  BY DEF AssociatePage, ContentRead, AssociateObjects, Built, structure_vars
<1> QED
  BY <1>1, <1>2, <1>3, <1>4, <1>5 DEF Next

\* For every document and every role map: normalize_role gives an element the
\* role its own leads to, and calls it circular exactly if the role map goes
\* round or leads further than MAX_ROLE_MAP_STEPS.
THEOREM RolesResolvedAlways == Spec => []RolesResolved
<1>1. Init => RolesGiven
  BY DEF Init, RolesGiven
<1>2. RolesGiven => RolesResolved
  <2> SUFFICES ASSUME RolesGiven, NEW n \in DOMAIN nodes
               PROVE  LET final == RolesAfter(nodes[n].role)[MaxRoleSteps - 1]
                          ends == final \notin DOMAIN doc.roles
                      IN /\ nodes[n].circular = ~ends
                         /\ ends => nodes[n].normalized_role = final
    BY DEF RolesResolved
  <2>1. /\ nodes[n].normalized_role = normalize_role(nodes[n].role, doc.roles)[1]
        /\ nodes[n].circular = normalize_role(nodes[n].role, doc.roles)[2]
    <3>1. <<nodes[n].normalized_role, nodes[n].circular>> = normalize_role(nodes[n].role, doc.roles)
      BY DEF RolesGiven
    <3> QED BY <3>1
  <2> QED BY <2>1, RoleFact
<1> QED
  BY <1>1, <1>2, NextRoles, PTL DEF Spec

-----------------------------------------------------------------------------
(* The tree of the nodes. *)

\* The elements among kids are kept one after the other.
LEMMA ElementsUnfold ==
  ASSUME NEW kids \in Seq(Values)
  PROVE  \E kept :
           /\ kept[0] = <<>> /\ Elements(kids) = kept[Len(kids)]
           /\ \A n \in 0 .. Len(kids) : kept[n] \in Seq(Values)
           /\ \A n \in 1 .. Len(kids) :
                kept[n] = IF IsElement(kids[n]) THEN Append(kept[n - 1], kids[n]) ELSE kept[n - 1]
<1> DEFINE N == Len(kids)
           Grown(i, s) == IF IsElement(kids[i]) THEN Append(s, kids[i]) ELSE s
           step == [p \in (1 .. N) \X Seq(Values) |-> Grown(p[1], p[2])]
<1>1. N \in Nat /\ <<>> \in Seq(Values)
  OBVIOUS
<1>2. ASSUME NEW i \in 1 .. N, NEW s \in Seq(Values) PROVE Grown(i, s) \in Seq(Values)
  BY <1>2
<1>3. PICK f : f = [i \in 0 .. N |-> IF i = 0 THEN <<>> ELSE step[<<i, f[i - 1]>>]]
  <2>1. PICK f : Iterates(f, N, <<>>, step)
    <3> HIDE DEF N, step
    <3> QED BY <1>1, IterationExists, Zenon
  <2> HIDE DEF step
  <2> QED BY <2>1 DEF Iterates
<1>4. ASSUME NEW n \in 0 .. N PROVE f[n] \in Seq(Values)
  <2> DEFINE S == {i \in 0 .. N : f[i] \in Seq(Values)}
  <2>1. 0 \in S
    BY <1>1, <1>3
  <2>2. ASSUME NEW i \in 0 .. N - 1, i \in S PROVE i + 1 \in S
    <3>1. i + 1 \in 0 .. N /\ i + 1 \in 1 .. N /\ i + 1 # 0 /\ (i + 1) - 1 = i
      BY <1>1
    <3>2. f[i + 1] = step[<<i + 1, f[i]>>]
      <4> HIDE DEF step
      <4> QED BY <3>1, <1>3
    <3>3. f[i] \in Seq(Values)
      BY <2>2
    <3>4. step[<<i + 1, f[i]>>] = Grown(i + 1, f[i])
      <4> HIDE DEF N, Grown
      <4> QED BY <3>1, <3>3
    <3> QED
      <4> HIDE DEF step, Grown, N
      <4> QED BY <3>1, <3>2, <3>3, <3>4, <1>2
  <2> HIDE DEF S
  <2>3. 0 .. N \subseteq S
    BY <1>1, <2>1, <2>2, InductionUpTo
  <2> QED BY <2>3 DEF S
<1>5. f = [i \in 0 .. N |-> IF i = 0 THEN <<>> ELSE Grown(i, f[i - 1])]
  <2>1. ASSUME NEW n \in 0 .. N, n # 0 PROVE step[<<n, f[n - 1]>>] = Grown(n, f[n - 1])
    <3>1. n - 1 \in 0 .. N /\ n \in 1 .. N
      BY <1>1, <2>1
    <3>2. f[n - 1] \in Seq(Values)
      BY <3>1, <1>4
    <3> HIDE DEF Grown, N
    <3> QED BY <3>1, <3>2
  <2> HIDE DEF step, Grown
  <2> QED BY <1>3, <2>1
<1> DEFINE kept == CHOOSE g : g = [i \in 0 .. N |-> IF i = 0 THEN <<>> ELSE Grown(i, g[i - 1])]
<1>6. kept = [i \in 0 .. N |-> IF i = 0 THEN <<>> ELSE Grown(i, kept[i - 1])]
  <2> HIDE DEF Grown
  <2> QED BY <1>5
<1>7. ASSUME NEW n \in 0 .. N PROVE kept[n] \in Seq(Values)
  <2> HIDE DEF kept, Grown
  <2> DEFINE S == {i \in 0 .. N : kept[i] \in Seq(Values)}
  <2>1. 0 \in S
    BY <1>1, <1>6
  <2>2. ASSUME NEW i \in 0 .. N - 1, i \in S PROVE i + 1 \in S
    <3>1. i + 1 \in 0 .. N /\ i + 1 \in 1 .. N /\ i + 1 # 0 /\ (i + 1) - 1 = i
      BY <1>1
    <3>2. kept[i + 1] = Grown(i + 1, kept[i])
      BY <3>1, <1>6
    <3> QED BY <2>2, <3>1, <3>2, <1>2
  <2> HIDE DEF S
  <2>3. 0 .. N \subseteq S
    BY <1>1, <2>1, <2>2, InductionUpTo
  <2> QED BY <2>3 DEF S
<1>8. Elements(kids) = kept[N]
  BY DEF Elements
<1>9. kept[0] = <<>> /\ \A n \in 1 .. N : kept[n] = Grown(n, kept[n - 1])
  <2> HIDE DEF kept, Grown
  <2> QED BY <1>1, <1>6
<1> HIDE DEF kept
<1> QED
  BY <1>7, <1>8, <1>9

\* The elements among kids are kids, in a sequence.
LEMMA ElementsAreKids ==
  ASSUME NEW kids \in Seq(Values)
  PROVE  Elements(kids) \in Seq(Values)
<1>1. PICK kept : /\ Elements(kids) = kept[Len(kids)]
                  /\ \A n \in 0 .. Len(kids) : kept[n] \in Seq(Values)
  BY ElementsUnfold
<1>2. Len(kids) \in 0 .. Len(kids)
  OBVIOUS
<1> QED
  BY <1>1, <1>2

\* No object is two nodes.
KeysOnce ==
  \A m, n \in DOMAIN nodes : m # n => nodes[m].key = None \/ nodes[m].key # nodes[n].key
NodesFormTree == ParentsFirst /\ ChildrenExact /\ KeysOnce

\* A tree that was cut off says so, and has at most MaxNodes nodes.
CutIsTold ==
  /\ truncated => warnings \cap {"depth cap", "node cap"} # {}
  /\ Len(nodes) <= MaxNodes

\* Every value on the stack waits to become a child of one of the first n nodes
\* or of the root.
Waiting(e, n) ==
  {"value", "parent"} \subseteq DOMAIN e /\ e.value \in Values /\ e.parent \in 0 .. n
AllWaiting(s, n) ==
  /\ s \in Seq({s[k] : k \in DOMAIN s})
  /\ \A k \in DOMAIN s : Waiting(s[k], n)

\* An object that is a node was noted, and children are nodes.
NodesFit ==
  /\ nodes \in Seq({nodes[n] : n \in DOMAIN nodes})
  /\ \A n \in DOMAIN nodes :
       /\ "children" \in DOMAIN nodes[n]
       /\ nodes[n].children \in Seq(1 .. Len(nodes))
       /\ nodes[n].key = None \/ nodes[n].key \in visited
TreeInv ==
  doc \in Documents /\ AllWaiting(stack, Len(nodes)) /\ NodesFit /\ NodesFormTree /\ CutIsTold

\* The stack without its top, and with more on it.
LEMMA StackPops ==
  ASSUME NEW V, NEW s \in Seq(V), s # <<>>
  PROVE  /\ Front(s) \in Seq(V) /\ Len(Front(s)) = Len(s) - 1
         /\ \A k \in DOMAIN Front(s) : Front(s)[k] = s[k] /\ k \in DOMAIN s
         /\ Last(s) \in V /\ Last(s) = s[Len(s)] /\ Len(s) \in DOMAIN s
<1>1. Len(s) \in Nat \ {0}
  OBVIOUS
<1>2. SubSeq(s, 1, Len(s) - 1) = [k \in 1 .. Len(s) - 1 |-> s[k]]
  BY <1>1
<1>3. /\ Front(s) \in Seq(V) /\ Len(Front(s)) = Len(s) - 1
      /\ \A k \in DOMAIN Front(s) : Front(s)[k] = s[k] /\ k \in DOMAIN s
  <2> DEFINE f == Front(s)
             n == Len(s) - 1
  <2>1. n \in Nat /\ f = [k \in 1 .. n |-> s[k]] /\ \A k \in 1 .. n : k \in DOMAIN s /\ s[k] \in V
    BY <1>1, <1>2 DEF Front
  <2> HIDE DEF f, n
  <2>2. f \in Seq(V) /\ DOMAIN f = 1 .. n /\ \A k \in 1 .. n : f[k] = s[k]
    BY <2>1
  <2>3. Len(f) = n
    BY <2>1, <2>2
  <2> QED BY <2>1, <2>2, <2>3 DEF f, n
<1>4. Last(s) \in V /\ Last(s) = s[Len(s)] /\ Len(s) \in DOMAIN s
  BY <1>1 DEF Last
<1> QED
  BY <1>3, <1>4

\* Reverse keeps the elements.
LEMMA ReverseFact ==
  ASSUME NEW V, NEW s \in Seq(V)
  PROVE  Reverse(s) \in Seq(V)
<1>1. Len(s) \in Nat
  OBVIOUS
<1>2. \A i \in 1 .. Len(s) : (Len(s) - i) + 1 \in 1 .. Len(s)
  BY <1>1
<1>3. \A i \in 1 .. Len(s) : s[(Len(s) - i) + 1] \in V
  BY <1>2
<1> QED
  BY <1>1, <1>3 DEF Reverse

\* What waits goes on waiting when the top is taken.
LEMMA RestWaits ==
  ASSUME NEW s, NEW n \in Nat, AllWaiting(s, n), s # <<>>
  PROVE  AllWaiting(Front(s), n) /\ Waiting(Last(s), n)
<1> DEFINE V == {s[k] : k \in DOMAIN s}
           f == Front(s)
<1>1. s \in Seq(V)
  BY DEF AllWaiting
<1>2. /\ f \in Seq(V) /\ Len(f) = Len(s) - 1
      /\ \A k \in DOMAIN f : f[k] = s[k] /\ k \in DOMAIN s
      /\ Last(s) = s[Len(s)] /\ Len(s) \in DOMAIN s
  <2> HIDE DEF V, f
  <2> QED BY <1>1, StackPops DEF f
<1> HIDE DEF f
<1>3. Waiting(Last(s), n) /\ \A k \in DOMAIN f : Waiting(f[k], n)
  BY <1>2 DEF AllWaiting
<1>4. f \in Seq({f[k] : k \in DOMAIN f})
  <2>1. f = [k \in 1 .. Len(f) |-> f[k]] /\ Len(f) \in Nat
    BY <1>2
  <2> QED BY <2>1, OverItself
<1> QED
  BY <1>3, <1>4 DEF AllWaiting, f

\* So it does when more is put on top of it.
LEMMA MoreWait ==
  ASSUME NEW s, NEW n \in Nat, AllWaiting(s, n), NEW m \in Nat, n <= m,
         NEW more, AllWaiting(more, m)
  PROVE  AllWaiting(s \o more, m)
<1> DEFINE V == {s[k] : k \in DOMAIN s} \cup {more[k] : k \in DOMAIN more}
           t == s \o more
<1>1. s \in Seq(V) /\ more \in Seq(V)
  BY DEF AllWaiting
<1> HIDE DEF V
<1>2. /\ Len(s) \in Nat /\ Len(more) \in Nat /\ DOMAIN s = 1 .. Len(s) /\ DOMAIN more = 1 .. Len(more)
      /\ t \in Seq(V) /\ Len(t) = Len(s) + Len(more)
      /\ \A k \in 1 .. Len(t) : t[k] = IF k <= Len(s) THEN s[k] ELSE more[k - Len(s)]
  BY <1>1
<1> HIDE DEF t
<1>3. ASSUME NEW k \in 1 .. Len(t) PROVE Waiting(t[k], m)
  <2>1. CASE k <= Len(s)
    <3>1. k \in DOMAIN s /\ t[k] = s[k]
      BY <1>2, <2>1
    <3> QED BY <3>1 DEF AllWaiting, Waiting
  <2>2. CASE k > Len(s)
    <3>1. k - Len(s) \in DOMAIN more /\ t[k] = more[k - Len(s)]
      BY <1>2, <2>2
    <3> QED BY <3>1 DEF AllWaiting
  <2> QED BY <1>2, <2>1, <2>2
<1>4. t \in Seq({t[k] : k \in DOMAIN t}) /\ DOMAIN t = 1 .. Len(t)
  <2>1. t = [k \in 1 .. Len(t) |-> t[k]] /\ Len(t) \in Nat
    BY <1>2
  <2> QED BY <2>1, OverItself
<1> QED
  BY <1>3, <1>4 DEF AllWaiting, t

\* A list made from values.
LEMMA ListWaits ==
  ASSUME NEW m \in Nat, NEW values \in Seq(Values), NEW more, more = [i \in 1 .. Len(values) |-> more[i]],
         \A i \in 1 .. Len(values) :
           /\ {"value", "parent"} \subseteq DOMAIN more[i]
           /\ more[i].value = values[i] /\ more[i].parent \in 0 .. m
  PROVE  AllWaiting(more, m)
<1>1. Len(values) \in Nat
  OBVIOUS
<1>2. more \in Seq({more[k] : k \in DOMAIN more}) /\ DOMAIN more = 1 .. Len(values)
  BY <1>1, OverItself
<1>3. \A k \in DOMAIN more : Waiting(more[k], m)
  BY <1>2 DEF Waiting
<1> QED
  BY <1>2, <1>3 DEF AllWaiting

\* The kids of an element are values.
LEMMA KidsAreValues ==
  ASSUME NEW d, d.k \in Values
  PROVE  KidsOf(d) \in Seq(Values)
<1>1. CASE d.k = NoValue
  BY <1>1 DEF KidsOf, NoValue
<1>2. CASE d.k # NoValue /\ d.k[1] = "array"
  <2>1. d.k[2] \in Seq(Values)
    BY <1>2, DocumentShape
  <2>2. Reverse(d.k[2]) \in Seq(Values)
    BY <2>1, ReverseFact
  <2> QED BY <2>2, <1>2 DEF KidsOf
<1>3. CASE d.k # NoValue /\ d.k[1] # "array"
  <2>1. <<d.k>> \in Seq(Values)
    OBVIOUS
  <2> QED BY <1>3, <2>1 DEF KidsOf
<1> QED
  BY <1>1, <1>2, <1>3

\* So the kids of a structure dictionary are.
LEMMA ElementHasKids ==
  ASSUME doc \in Documents, NEW v, structure_dictionary(v)
  PROVE  KidsOf(Dict(v)) \in Seq(Values)
<1>1. Dict(v).k \in Values
  BY DocumentShape DEF structure_dictionary, Dict
<1> QED
  BY <1>1, KidsAreValues

\* What AddNode makes of the nodes.
LEMMA AddNodeParts ==
  ASSUME NEW item, NodesFit, AddNode(item), item.parent \in 0 .. Len(nodes)
  PROVE  /\ nodes' \in Seq({nodes'[n] : n \in DOMAIN nodes'})
         /\ Len(nodes) \in Nat /\ DOMAIN nodes = 1 .. Len(nodes)
         /\ Len(nodes') = Len(nodes) + 1 /\ DOMAIN nodes' = 1 .. Len(nodes) + 1
         /\ \A n \in DOMAIN nodes :
              /\ nodes'[n].parent = nodes[n].parent /\ nodes'[n].key = nodes[n].key
              /\ "children" \in DOMAIN nodes'[n]
              /\ nodes'[n].children = IF n = item.parent
                                      THEN Append(nodes[n].children, Len(nodes) + 1)
                                      ELSE nodes[n].children
         /\ nodes'[Len(nodes) + 1].parent = item.parent
         /\ nodes'[Len(nodes) + 1].key = KeyOf(item.value)
         /\ nodes'[Len(nodes) + 1].children = <<>>
         /\ "children" \in DOMAIN nodes'[Len(nodes) + 1]
<1>1. /\ nodes' \in Seq({nodes'[n] : n \in DOMAIN nodes'})
      /\ Len(nodes) \in Nat /\ DOMAIN nodes = 1 .. Len(nodes)
      /\ Len(nodes') = Len(nodes) + 1 /\ DOMAIN nodes' = 1 .. Len(nodes) + 1
      /\ \A n \in DOMAIN nodes : nodes'[n] = WithChild(item.parent, Len(nodes) + 1)[n]
      /\ nodes'[Len(nodes) + 1] = NewNode(item)
  BY NodesGrow DEF NodesFit
<1>2. ASSUME NEW n \in DOMAIN nodes
      PROVE  /\ nodes'[n].parent = nodes[n].parent /\ nodes'[n].key = nodes[n].key
             /\ "children" \in DOMAIN nodes'[n]
             /\ nodes'[n].children = IF n = item.parent
                                     THEN Append(nodes[n].children, Len(nodes) + 1)
                                     ELSE nodes[n].children
  <2>1. "children" \in DOMAIN nodes[n]
    BY DEF NodesFit
  <2>2. nodes'[n] = IF n = item.parent
                    THEN [nodes[n] EXCEPT !.children = Append(@, Len(nodes) + 1)]
                    ELSE nodes[n]
    BY <1>1 DEF WithChild
  <2> QED BY <2>1, <2>2
<1>3. /\ NewNode(item).parent = item.parent /\ NewNode(item).key = KeyOf(item.value)
      /\ NewNode(item).children = <<>> /\ "children" \in DOMAIN NewNode(item)
  BY DEF NewNode
<1> QED
  BY <1>1, <1>2, <1>3

\* AddNode keeps the nodes a tree: the new node is the last child of its parent.
LEMMA AddNodeTree ==
  ASSUME NEW item, NodesFit, NodesFormTree, AddNode(item), item.parent \in 0 .. Len(nodes),
         KeyOf(item.value) = None \/ KeyOf(item.value) \notin visited,
         visited' = IF KeyOf(item.value) = None THEN visited ELSE visited \cup {KeyOf(item.value)}
  PROVE  (NodesFit /\ NodesFormTree)'
<1> DEFINE L == Len(nodes)
           p == item.parent
<1>1. /\ nodes' \in Seq({nodes'[n] : n \in DOMAIN nodes'})
      /\ L \in Nat /\ DOMAIN nodes = 1 .. L
      /\ Len(nodes') = L + 1 /\ DOMAIN nodes' = 1 .. L + 1
      /\ \A n \in 1 .. L :
           /\ nodes'[n].parent = nodes[n].parent /\ nodes'[n].key = nodes[n].key
           /\ "children" \in DOMAIN nodes'[n]
           /\ nodes'[n].children = IF n = p THEN Append(nodes[n].children, L + 1) ELSE nodes[n].children
      /\ nodes'[L + 1].parent = p /\ nodes'[L + 1].key = KeyOf(item.value)
      /\ nodes'[L + 1].children = <<>> /\ "children" \in DOMAIN nodes'[L + 1]
  BY AddNodeParts
<1>2. p \in 0 .. L
  OBVIOUS
<1> HIDE DEF L, p
<1>3. ASSUME NEW n \in 1 .. L
      PROVE  /\ nodes[n].children \in Seq(1 .. L) /\ Ascending(nodes[n].children)
             /\ nodes[n].parent \in 0 .. n - 1
             /\ \A m \in 1 .. L :
                  nodes[m].parent = n <=> \E i \in DOMAIN nodes[n].children : nodes[n].children[i] = m
  <2>1. n \in DOMAIN nodes /\ DOMAIN nodes = 1 .. L
    BY <1>1
  <2>2. nodes[n].children \in Seq(1 .. L)
    BY <2>1 DEF NodesFit, L
  <2>3. nodes[n].parent \in 0 .. n - 1
    BY <2>1 DEF NodesFormTree, ParentsFirst
  <2>4. /\ Ascending(nodes[n].children)
        /\ \A m \in 1 .. L :
             nodes[m].parent = n <=> \E i \in DOMAIN nodes[n].children : nodes[n].children[i] = m
    BY <2>1 DEF NodesFormTree, ChildrenExact, HasItsChildren
  <2> QED BY <2>2, <2>3, <2>4
<1>4. ParentsFirst'
  <2> SUFFICES ASSUME NEW n \in 1 .. L + 1 PROVE nodes'[n].parent \in 0 .. n - 1
    BY <1>1 DEF ParentsFirst
  <2>1. CASE n \in 1 .. L
    BY <1>1, <1>3, <2>1
  <2>2. CASE n = L + 1
    BY <1>1, <1>2, <2>2
  <2> QED BY <1>1, <2>1, <2>2
<1>5. ASSUME NEW n \in 1 .. L, n = p
      PROVE  /\ nodes'[n].children \in Seq(1 .. L + 1) /\ Ascending(nodes'[n].children)
             /\ \A m \in 1 .. L + 1 :
                  nodes'[m].parent = n <=> \E i \in DOMAIN nodes'[n].children : nodes'[n].children[i] = m
  <2> DEFINE c == nodes[n].children
             d == nodes'[n].children
  <2>1. c \in Seq(1 .. L) /\ d = Append(c, L + 1) /\ Len(c) \in Nat
    <3>1. d = Append(c, L + 1)
      BY <1>1, <1>5
    <3>2. c \in Seq(1 .. L)
      BY <1>3
    <3> HIDE DEF c, d
    <3> QED BY <3>1, <3>2
  <2>2. Ascending(c)
        /\ \A m \in 1 .. L : nodes[m].parent = n <=> \E i \in DOMAIN c : c[i] = m
    BY <1>3
  <2> HIDE DEF c, d
  <2>3. /\ DOMAIN c = 1 .. Len(c) /\ DOMAIN d = 1 .. Len(c) + 1
        /\ \A i \in 1 .. Len(c) : d[i] = c[i] /\ c[i] \in 1 .. L
        /\ d[Len(c) + 1] = L + 1
    <3>1. c \in Seq(1 .. L + 1) /\ L + 1 \in 1 .. L + 1
      BY <1>1, <2>1
    <3>2. DOMAIN c = 1 .. Len(c) /\ \A i \in 1 .. Len(c) : c[i] \in 1 .. L
      BY <2>1, LenProperties, ElementOfSeq
    <3>3. Len(d) = Len(c) + 1 /\ d[Len(c) + 1] = L + 1 /\ \A i \in 1 .. Len(c) : d[i] = c[i]
      BY <2>1, <3>1, AppendProperties
    <3>4. DOMAIN d = 1 .. Len(d)
      BY <2>1, <3>1
    <3> QED BY <3>2, <3>3, <3>4
  <2>4. d \in Seq(1 .. L + 1)
    BY <1>1, <2>1
  <2>5. Ascending(d)
    BY <1>1, <2>1, <2>2, <2>3 DEF Ascending
  <2>6. ASSUME NEW m \in 1 .. L + 1 PROVE nodes'[m].parent = n <=> \E i \in DOMAIN d : d[i] = m
    <3>1. CASE m \in 1 .. L
      <4>1. nodes'[m].parent = nodes[m].parent
        BY <1>1, <3>1
      <4>2. ASSUME NEW i \in DOMAIN d, d[i] = m PROVE i \in DOMAIN c /\ c[i] = m
        <5>1. d[i] # L + 1
          BY ONLY <3>1, <4>2, <1>1
        <5>2. i \in 1 .. Len(c)
          BY ONLY <2>1, <2>3, <4>2, <5>1
        <5> QED BY ONLY <2>3, <4>2, <5>2
      <4>3. ASSUME NEW i \in DOMAIN c, c[i] = m PROVE i \in DOMAIN d /\ d[i] = m
        BY ONLY <2>1, <2>3, <4>3
      <4> QED BY <2>2, <3>1, <4>1, <4>2, <4>3
    <3>2. CASE m = L + 1
      <4>1. Len(c) + 1 \in DOMAIN d
        BY <2>1, <2>3
      <4> QED BY <1>1, <1>5, <2>3, <3>2, <4>1
    <3> QED BY <1>1, <3>1, <3>2
  <2> QED BY <2>4, <2>5, <2>6 DEF d
<1>6. ASSUME NEW n \in 1 .. L, n # p
      PROVE  /\ nodes'[n].children \in Seq(1 .. L + 1) /\ Ascending(nodes'[n].children)
             /\ \A m \in 1 .. L + 1 :
                  nodes'[m].parent = n <=> \E i \in DOMAIN nodes'[n].children : nodes'[n].children[i] = m
  <2> DEFINE c == nodes[n].children
  <2>1. nodes'[n].children = c
    BY <1>1, <1>6
  <2>2. c \in Seq(1 .. L) /\ Ascending(c)
        /\ \A m \in 1 .. L : nodes[m].parent = n <=> \E i \in DOMAIN c : c[i] = m
    BY <1>3
  <2> HIDE DEF c
  <2>3. c \in Seq(1 .. L + 1) /\ \A i \in DOMAIN c : c[i] \in 1 .. L
    <3>1. c \in [1 .. Len(c) -> 1 .. L] /\ Len(c) \in Nat
      BY ONLY <2>2, LenProperties
    <3>2. c \in [1 .. Len(c) -> 1 .. L + 1]
      BY ONLY <1>1, <3>1
    <3> QED BY ONLY <3>1, <3>2, SeqDef
  <2>4. ASSUME NEW m \in 1 .. L + 1 PROVE nodes'[m].parent = n <=> \E i \in DOMAIN c : c[i] = m
    <3>1. CASE m \in 1 .. L
      BY <1>1, <2>2, <3>1
    <3>2. CASE m = L + 1
      BY <1>1, <1>6, <2>3, <3>2
    <3> QED BY <1>1, <3>1, <3>2
  <2> QED BY <2>1, <2>2, <2>3, <2>4
<1>7. /\ nodes'[L + 1].children \in Seq(1 .. L + 1) /\ Ascending(nodes'[L + 1].children)
      /\ \A m \in 1 .. L + 1 : nodes'[m].parent # L + 1
  <2>1. <<>> \in Seq(1 .. L + 1) /\ Ascending(<<>>)
    BY DEF Ascending
  <2>2. ASSUME NEW m \in 1 .. L + 1 PROVE nodes'[m].parent # L + 1
    <3>1. CASE m \in 1 .. L
      BY <1>1, <1>3, <3>1
    <3>2. CASE m = L + 1
      BY <1>1, <1>2, <3>2
    <3> QED BY <1>1, <3>1, <3>2
  <2> QED BY <1>1, <2>1, <2>2
<1>8. ChildrenExact'
  <2> SUFFICES ASSUME NEW n \in 1 .. L + 1
               PROVE  /\ Ascending(nodes'[n].children)
                      /\ \A m \in 1 .. L + 1 :
                           nodes'[m].parent = n
                             <=> \E i \in DOMAIN nodes'[n].children : nodes'[n].children[i] = m
    BY <1>1 DEF ChildrenExact, HasItsChildren, Ascending
  <2>1. CASE n = L + 1
    BY <1>1, <1>7, <2>1
  <2>2. CASE n \in 1 .. L
    BY <1>5, <1>6, <2>2
  <2> QED BY <1>1, <2>1, <2>2
<1>9. ASSUME NEW n \in 1 .. L PROVE nodes[n].key = None \/ nodes[n].key \in visited
  BY <1>1 DEF NodesFit
<1>10. KeysOnce'
  <2>1. \A m, n \in 1 .. L : m # n => nodes[m].key = None \/ nodes[m].key # nodes[n].key
    BY <1>1 DEF NodesFormTree, KeysOnce
  <2> SUFFICES ASSUME NEW m \in 1 .. L + 1, NEW n \in 1 .. L + 1, m # n, nodes'[m].key # None
               PROVE  nodes'[m].key # nodes'[n].key
    BY <1>1 DEF KeysOnce
  <2>2. CASE m \in 1 .. L /\ n \in 1 .. L
    BY <1>1, <2>1, <2>2
  <2>3. CASE m = L + 1 /\ n \in 1 .. L
    BY <1>1, <1>9, <2>3
  <2>4. CASE m \in 1 .. L /\ n = L + 1
    BY <1>1, <1>9, <2>4
  <2> QED BY <1>1, <2>2, <2>3, <2>4
<1>11. NodesFit'
  <2> SUFFICES ASSUME NEW n \in 1 .. L + 1
               PROVE  /\ "children" \in DOMAIN nodes'[n]
                      /\ nodes'[n].children \in Seq(1 .. L + 1)
                      /\ nodes'[n].key = None \/ nodes'[n].key \in visited'
    BY <1>1 DEF NodesFit
  <2>1. CASE n = L + 1
    BY <1>1, <1>7, <2>1
  <2>2. CASE n \in 1 .. L
    <3>1. nodes'[n].children \in Seq(1 .. L + 1)
      BY <1>5, <1>6, <2>2
    <3>2. nodes'[n].key = None \/ nodes'[n].key \in visited'
      BY <1>1, <1>9, <2>2
    <3> QED BY <1>1, <2>2, <3>1, <3>2
  <2> QED BY <1>1, <2>1, <2>2
<1> QED
  BY <1>4, <1>8, <1>10, <1>11 DEF NodesFormTree

\* Steps that leave the nodes alone.
LEMMA QuietTree ==
  ASSUME TreeInv, UNCHANGED <<doc, nodes>>, AllWaiting(stack', Len(nodes)),
         visited \subseteq visited', truncated' => truncated \/ warnings' \cap {"depth cap", "node cap"} # {},
         warnings \subseteq warnings'
  PROVE  TreeInv'
<1>1. NodesFit'
  BY DEF TreeInv, NodesFit
<1>2. NodesFormTree'
  <2>1. nodes' = nodes /\ ParentsFirst /\ ChildrenExact /\ KeysOnce
    BY DEF TreeInv, NodesFormTree
  <2>2. ParentsFirst' /\ KeysOnce'
    BY <2>1 DEF ParentsFirst, KeysOnce
  <2>3. ChildrenExact'
    BY <2>1 DEF ChildrenExact
  <2> QED BY <2>2, <2>3 DEF NodesFormTree
<1>3. AllWaiting(stack, Len(nodes))'
  BY DEF AllWaiting
<1>4. CutIsTold'
  <2>1. Len(nodes') <= MaxNodes
    BY DEF TreeInv, CutIsTold
  <2>2. truncated' => warnings' \cap {"depth cap", "node cap"} # {}
    BY DEF TreeInv, CutIsTold
  <2> QED BY <2>1, <2>2 DEF CutIsTold
<1> QED
  BY <1>1, <1>2, <1>3, <1>4 DEF TreeInv

\* What waits is the top of the stack and the rest.
LEMMA TopWaits ==
  ASSUME TreeInv, Turn
  PROVE  /\ Len(nodes) \in Nat /\ Waiting(Top, Len(nodes))
         /\ AllWaiting(Front(stack), Len(nodes))
<1>1. Len(nodes) \in Nat /\ AllWaiting(stack, Len(nodes)) /\ stack # <<>>
  BY DEF TreeInv, NodesFit, Turn
<1> QED
  BY <1>1, RestWaits DEF Top

\* An array is opened: its values wait for the same parent.
LEMMA OpenTree ==
  ASSUME TreeInv, OpenArray
  PROVE  TreeInv'
<1> DEFINE L == Len(nodes)
           values == Top.value[2]
           each == [i \in DOMAIN values |-> [Top EXCEPT !.value = values[i]]]
           n == Len(values)
           back == Reverse(values)
           r == Reverse(each)
<1>1. L \in Nat /\ Waiting(Top, L) /\ AllWaiting(Front(stack), L)
  BY TopWaits DEF OpenArray, InDepth
<1>2. values \in Seq(Values) /\ n \in Nat /\ DOMAIN values = 1 .. n
  <2>1. values \in Seq(Values)
    BY <1>1, DocumentShape DEF OpenArray, Waiting
  <2> HIDE DEF values
  <2> QED BY <2>1
<1>3. stack' = Front(stack) \o r
  BY DEF OpenArray
<1> HIDE DEF L, values, n
<1>4. DOMAIN each = 1 .. n /\ Len(each) = n
  BY <1>2
<1>5. /\ r = [i \in 1 .. n |-> each[(n - i) + 1]]
      /\ back \in Seq(Values) /\ back = [i \in 1 .. n |-> values[(n - i) + 1]]
  BY <1>2, <1>4, ReverseFact DEF Reverse, n
<1>6. Len(back) = n
  BY <1>2, <1>5
<1>7. ASSUME NEW i \in 1 .. n
      PROVE  /\ {"value", "parent"} \subseteq DOMAIN r[i]
             /\ r[i].value = back[i] /\ r[i].parent \in 0 .. L
  <2>1. (n - i) + 1 \in 1 .. n
    BY <1>2
  <2>2. r[i] = [Top EXCEPT !.value = values[(n - i) + 1]] /\ back[i] = values[(n - i) + 1]
    BY <1>2, <1>5, <2>1
  <2> HIDE DEF r, back
  <2> QED BY <1>1, <2>2 DEF Waiting
<1>8. AllWaiting(r, L)
  <2>1. r = [i \in 1 .. Len(back) |-> r[i]]
    BY <1>5, <1>6
  <2>2. \A i \in 1 .. Len(back) :
          /\ {"value", "parent"} \subseteq DOMAIN r[i]
          /\ r[i].value = back[i] /\ r[i].parent \in 0 .. L
    <3> HIDE DEF r, back
    <3> QED BY <1>6, <1>7
  <2>3. L \in Nat /\ back \in Seq(Values)
    BY <1>1, <1>5
  <2> HIDE DEF r, back
  <2> QED BY <2>1, <2>2, <2>3, ListWaits
<1>9. AllWaiting(stack', L)
  <2> HIDE DEF r
  <2>1. AllWaiting(Front(stack) \o r, L)
    BY <1>1, <1>8, MoreWait
  <2> QED BY <1>3, <2>1
<1> QED
  BY <1>9, QuietTree DEF OpenArray, TreeOnly, L

\* An element becomes a node, and the elements among its kids wait for it.
LEMMA VisitTree ==
  ASSUME TreeInv, VisitElement
  PROVE  TreeInv'
<1> DEFINE L == Len(nodes)
           kids == Elements(KidsOf(Dict(Top.value)))
           more == [i \in DOMAIN kids |-> [value |-> kids[i], parent |-> L + 1,
                                            page |-> Or(Dict(kids[i]).page, NewNode(Top).page),
                                            depth |-> Top.depth + 1]]
<1>1. L \in Nat /\ Waiting(Top, L) /\ AllWaiting(Front(stack), L)
  BY TopWaits DEF VisitElement, InDepth
<1>2. kids \in Seq(Values)
  <2>1. KidsOf(Dict(Top.value)) \in Seq(Values)
    BY ElementHasKids DEF TreeInv, VisitElement, IsNew
  <2> QED BY <2>1, ElementsAreKids
<1>3. stack' = Front(stack) \o more
  BY DEF VisitElement, AddNode
<1>4. AllWaiting(more, L + 1)
  <2> HIDE DEF kids, L
  <2>1. Len(kids) \in Nat /\ DOMAIN kids = 1 .. Len(kids) /\ L + 1 \in Nat
    BY <1>1, <1>2
  <2>2. more = [i \in 1 .. Len(kids) |-> more[i]]
    BY <2>1
  <2>3. \A i \in 1 .. Len(kids) :
          /\ {"value", "parent"} \subseteq DOMAIN more[i]
          /\ more[i].value = kids[i] /\ more[i].parent \in 0 .. L + 1
    BY <2>1
  <2> HIDE DEF more
  <2> QED BY <1>2, <2>1, <2>2, <2>3, ListWaits
<1>5. AllWaiting(stack', L + 1)
  <2> HIDE DEF more, L
  <2>1. L + 1 \in Nat /\ L <= L + 1
    BY <1>1
  <2>2. AllWaiting(Front(stack) \o more, L + 1)
    BY <1>1, <1>4, <2>1, MoreWait
  <2> QED BY <1>3, <2>2
<1>6. Top.parent \in 0 .. L /\ AddNode(Top)
  BY <1>1 DEF Waiting, VisitElement
<1>7. Len(nodes') = L + 1
  BY <1>6, AddNodeParts DEF TreeInv
<1>8. (NodesFit /\ NodesFormTree)'
  <2>1. /\ KeyOf(Top.value) = None \/ KeyOf(Top.value) \notin visited
        /\ visited' = IF KeyOf(Top.value) = None THEN visited ELSE visited \cup {KeyOf(Top.value)}
    BY DEF VisitElement, IsNew, Seen, Note
  <2> QED BY <1>6, <2>1, AddNodeTree DEF TreeInv
<1>9. CutIsTold'
  <2>1. L < MaxNodes /\ warnings' = warnings /\ truncated' = truncated /\ MaxNodes \in Nat
    BY StructureBounds DEF VisitElement, AddNode
  <2>2. L + 1 <= MaxNodes
    <3> HIDE DEF L
    <3> QED BY <1>1, <2>1
  <2> QED BY <1>7, <2>1, <2>2 DEF TreeInv, CutIsTold
<1>10. AllWaiting(stack, Len(nodes))'
  BY <1>5, <1>7 DEF AllWaiting
<1> QED
  BY <1>8, <1>9, <1>10 DEF TreeInv, VisitElement, TreeOnly

\* The steps that take the top away without making a node of it.
LEMMA SkipTree ==
  ASSUME TreeInv, TooDeep \/ SkipOther \/ SkipSeen \/ TooMany
  PROVE  TreeInv'
<1>1. /\ Turn /\ stack' = Front(stack) /\ UNCHANGED <<doc, nodes>>
      /\ warnings \subseteq warnings'
  BY DEF TooDeep, SkipOther, SkipSeen, TooMany, Skip, TreeOnly, InDepth, Turn
<1>2. AllWaiting(stack', Len(nodes))
  BY <1>1, TopWaits
<1>3. visited \subseteq visited'
  BY DEF TooDeep, SkipOther, SkipSeen, TooMany, Note
<1>4. truncated' => truncated \/ warnings' \cap {"depth cap", "node cap"} # {}
  <2>1. CASE TooDeep
    BY <2>1 DEF TooDeep, Skip
  <2>2. CASE TooMany
    BY <2>2 DEF TooMany, Skip
  <2>3. CASE SkipOther \/ SkipSeen
    BY <2>3 DEF SkipOther, SkipSeen
  <2> QED BY <2>1, <2>2, <2>3
<1> QED
  BY <1>1, <1>2, <1>3, <1>4, QuietTree

\* The steps before and after the walk of the tree.
LEMMA OtherTree ==
  ASSUME TreeInv,
         \/ WalkTree \/ IdTreeRead \/ ParentTreeRead \/ TreeRead
         \/ AssociatePage \/ ContentRead \/ AssociateObjects \/ Built \/ UNCHANGED structure_vars
  PROVE  TreeInv'
<1>1. UNCHANGED <<doc, nodes, visited, truncated>> /\ warnings \subseteq warnings'
  <2>1. WalkTree => UNCHANGED <<doc, nodes, visited, truncated>> /\ warnings \subseteq warnings'
    <3> SUFFICES ASSUME WalkTree PROVE warnings \subseteq warnings'
      BY DEF WalkTree
    <3>1. \E more : warnings' = warnings \/ warnings' = warnings \cup more
      BY DEF WalkTree
    <3> QED BY <3>1
  <2>2. IdTreeRead \/ ParentTreeRead \/ TreeRead \/ ContentRead \/ Built \/ UNCHANGED structure_vars
          => UNCHANGED <<doc, nodes, visited, truncated, warnings>>
    BY DEF IdTreeRead, ParentTreeRead, TreeRead, ContentRead, Built, structure_vars
  <2>3. AssociatePage => UNCHANGED <<doc, nodes, visited, truncated>> /\ warnings \subseteq warnings'
    BY DEF AssociatePage
  <2>4. AssociateObjects => UNCHANGED <<doc, nodes, visited, truncated>> /\ warnings \subseteq warnings'
    BY DEF AssociateObjects
  <2> QED BY <2>1, <2>2, <2>3, <2>4
<1>2. AllWaiting(stack, Len(nodes)) /\ Len(nodes) \in Nat
  BY DEF TreeInv, NodesFit
<1>3. AllWaiting(<<>>, Len(nodes))
  BY DEF AllWaiting
<1>4. AllWaiting(stack', Len(nodes))
  <2>1. CASE stack' = stack
    BY <1>2, <2>1
  <2>2. CASE stack' = <<>>
    BY <1>3, <2>2
  <2>3. CASE stack' = <<[value |-> doc.k, parent |-> 0, page |-> None, depth |-> 0]>>
    <3> DEFINE e == [value |-> doc.k, parent |-> 0, page |-> None, depth |-> 0]
    <3>1. Waiting(e, Len(nodes))
      BY <1>2, DocumentShape DEF TreeInv, Waiting
    <3> HIDE DEF e
    <3>2. AllWaiting(<<e>>, Len(nodes))
      BY <3>1 DEF AllWaiting
    <3> QED BY <2>3, <3>2 DEF e
  <2>4. WalkTree \/ IdTreeRead \/ AssociatePage \/ ContentRead \/ AssociateObjects \/ Built
          \/ UNCHANGED structure_vars => stack' = stack
    BY DEF WalkTree, IdTreeRead, AssociatePage, ContentRead, AssociateObjects, Built, structure_vars
  <2>5. TreeRead => stack' = <<>>
    BY DEF TreeRead
  <2>6. ParentTreeRead =>
          stack' \in {<<>>, <<[value |-> doc.k, parent |-> 0, page |-> None, depth |-> 0]>>}
    BY DEF ParentTreeRead
  <2> QED BY <2>1, <2>2, <2>3, <2>4, <2>5, <2>6
<1> QED
  BY <1>1, <1>4, QuietTree

\* Every step keeps the tree.
LEMMA NextTree == TreeInv /\ [Next]_structure_vars => TreeInv'
BY OpenTree, VisitTree, SkipTree, OtherTree DEF Next

\* The walk has not begun.
LEMMA TreeStarts == Init => TreeInv
<1> SUFFICES ASSUME Init PROVE TreeInv
  OBVIOUS
<1>1. doc \in Documents /\ stack = <<>> /\ nodes = <<>> /\ truncated = FALSE
  BY DEF Init
<1>2. AllWaiting(stack, Len(nodes))
  BY <1>1 DEF AllWaiting
<1>3. NodesFit /\ NodesFormTree
  BY <1>1 DEF NodesFit, NodesFormTree, ParentsFirst, ChildrenExact, KeysOnce
<1>4. CutIsTold
  <2>1. Len(nodes) = 0 /\ MaxNodes \in Nat /\ ~truncated
    BY <1>1, StructureBounds
  <2>2. Len(nodes) <= MaxNodes
    BY <2>1
  <2> QED BY <2>1, <2>2 DEF CutIsTold
<1> QED BY <1>1, <1>2, <1>3, <1>4 DEF TreeInv

\* For every document, however its elements are shared, nested or lead back, and
\* for every limit: build_accessibility_graph makes a forest of it in which parents
\* and children agree and no object is two nodes (so that NodeOf has no choice), and
\* a tree that max_structure_depth or max_structure_nodes cut off comes with a
\* warning.
THEOREM NodesFormTreeAlways == Spec => [](NodesFormTree /\ CutIsTold)
<1>1. Init => TreeInv
  BY TreeStarts
<1>2. TreeInv => NodesFormTree /\ CutIsTold
  BY DEF TreeInv
<1> QED
  BY <1>1, <1>2, NextTree, PTL DEF Spec

-----------------------------------------------------------------------------
(* Where the kids of a dictionary are written, and where they wait. *)

\* The kids of an element are met in the opposite order.
LEMMA MetBackwards ==
  ASSUME doc \in Documents, NEW e \in DOMAIN doc.dict \cup {None}, NEW d,
         d = IF e = None THEN doc ELSE doc.dict[e]
  PROVE  LET kids == KidsOf(d)
             written == Written(doc, e)
         IN /\ kids \in Seq(Values) /\ written \in Seq(Values) /\ Len(kids) = Len(written)
            /\ \A i \in 1 .. Len(written) : kids[i] = written[(Len(written) - i) + 1]
<1>1. /\ d.k \in Values
      /\ Written(doc, e) = CASE d.k = NoValue -> <<>>
                             [] d.k # NoValue /\ d.k[1] = "array" -> d.k[2]
                             [] OTHER -> <<d.k>>
  BY DocumentShape DEF Written, K
<1>2. CASE d.k = NoValue
  <2>1. KidsOf(d) = <<>> /\ Written(doc, e) = <<>>
    BY <1>1, <1>2 DEF KidsOf, NoValue
  <2>2. <<>> \in Seq(Values) /\ Len(<<>>) = 0 /\ 1 .. 0 = {}
    OBVIOUS
  <2> QED BY <2>1, <2>2
<1>3. CASE d.k # NoValue /\ d.k[1] = "array"
  <2>1. KidsOf(d) = Reverse(d.k[2]) /\ Written(doc, e) = d.k[2]
    BY <1>1, <1>3 DEF KidsOf
  <2> DEFINE s == d.k[2]
             r == Reverse(s)
  <2>2. s \in Seq(Values)
    BY <1>1, <1>3, DocumentShape
  <2> HIDE DEF s
  <2>3. r \in Seq(Values) /\ r = [i \in 1 .. Len(s) |-> s[(Len(s) - i) + 1]] /\ Len(s) \in Nat
    BY <2>2, ReverseFact DEF Reverse
  <2> HIDE DEF r
  <2>4. Len(r) = Len(s) /\ \A i \in 1 .. Len(s) : r[i] = s[(Len(s) - i) + 1]
    BY <2>3
  <2> QED BY <2>1, <2>2, <2>3, <2>4 DEF s, r
<1>4. CASE d.k # NoValue /\ d.k[1] # "array"
  <2>1. KidsOf(d) = <<d.k>> /\ Written(doc, e) = <<d.k>>
    BY <1>1, <1>4 DEF KidsOf
  <2>2. <<d.k>> \in Seq(Values) /\ Len(<<d.k>>) = 1 /\ <<d.k>>[1] = d.k
    BY <1>1
  <2>3. \A i \in 1 .. 1 : (1 - i) + 1 = 1 /\ i = 1
    OBVIOUS
  <2> QED BY <2>1, <2>2, <2>3
<1> QED
  BY <1>2, <1>3, <1>4

\* Elements keeps the order of the kids: h says which kid each element is.
Picks(s, t, h) ==
  /\ h \in [1 .. Len(t) -> 1 .. Len(s)]
  /\ \A i, j \in 1 .. Len(t) : i < j => h[i] < h[j]
  /\ \A i \in 1 .. Len(t) : t[i] = s[h[i]] /\ IsElement(t[i])
  /\ \A j \in 1 .. Len(s) : IsElement(s[j]) => \E i \in 1 .. Len(t) : h[i] = j

LEMMA ElementsPick ==
  ASSUME NEW kids \in Seq(Values)
  PROVE  \E h : Picks(kids, Elements(kids), h)
<1> DEFINE N == Len(kids)
           PicksTo(n, t, h) ==
             /\ h \in [1 .. Len(t) -> 1 .. n]
             /\ \A i, j \in 1 .. Len(t) : i < j => h[i] < h[j]
             /\ \A i \in 1 .. Len(t) : t[i] = kids[h[i]] /\ IsElement(t[i])
             /\ \A j \in 1 .. n : IsElement(kids[j]) => \E i \in 1 .. Len(t) : h[i] = j
<1>1. PICK kept :
           /\ kept[0] = <<>> /\ Elements(kids) = kept[N]
           /\ \A n \in 0 .. N : kept[n] \in Seq(Values)
           /\ \A n \in 1 .. N :
                kept[n] = IF IsElement(kids[n]) THEN Append(kept[n - 1], kids[n]) ELSE kept[n - 1]
  BY ElementsUnfold
<1>2. N \in Nat /\ \A n \in 1 .. N : kids[n] \in Values
  OBVIOUS
<1> HIDE DEF N
<1> DEFINE S == {n \in 0 .. N : \E h : PicksTo(n, kept[n], h)}
<1>3. 0 \in S
  <2>1. Len(kept[0]) = 0
    BY <1>1
  <2>2. PicksTo(0, kept[0], [i \in 1 .. 0 |-> i])
    BY <2>1
  <2> HIDE DEF PicksTo
  <2> QED BY <1>2, <2>2
<1>4. ASSUME NEW n \in 0 .. N - 1, n \in S PROVE n + 1 \in S
  <2> DEFINE t == kept[n]
             u == kept[n + 1]
             m == Len(t)
  <2>1. PICK h : PicksTo(n, t, h)
    BY <1>4
  <2>2. /\ t \in Seq(Values) /\ n + 1 \in 1 .. N /\ n + 1 \in 0 .. N /\ n \in 0 .. N
        /\ u = IF IsElement(kids[n + 1]) THEN Append(t, kids[n + 1]) ELSE t
    <3>1. n + 1 \in 1 .. N /\ n + 1 \in 0 .. N /\ n \in 0 .. N /\ (n + 1) - 1 = n
      BY <1>2
    <3> QED BY <1>1, <3>1
  <2>3. m \in Nat /\ n \in Nat
    BY <2>2
  <2>4. CASE ~IsElement(kids[n + 1])
    <3>1. u = t
      BY <2>2, <2>4
    <3> HIDE DEF t, u
    <3>2. PicksTo(n + 1, u, h)
      <4>1. h \in [1 .. Len(t) -> 1 .. n + 1]
        BY <2>1, <2>3
      <4>2. \A j \in 1 .. n + 1 : j \in 1 .. n \/ j = n + 1
        BY <2>3
      <4> QED BY <2>1, <2>4, <3>1, <4>1, <4>2
    <3> HIDE DEF PicksTo
    <3> QED BY <2>2, <3>2 DEF u
  <2>5. CASE IsElement(kids[n + 1])
    <3> DEFINE g == [i \in 1 .. m + 1 |-> IF i = m + 1 THEN n + 1 ELSE h[i]]
    <3>1. u = Append(t, kids[n + 1])
      BY <2>2, <2>5
    <3>2. Len(u) = m + 1 /\ u[m + 1] = kids[n + 1] /\ \A i \in 1 .. m : u[i] = t[i]
      <4>1. kids[n + 1] \in Values
        BY <1>2, <2>2
      <4> HIDE DEF t, u
      <4> QED BY <2>2, <3>1, <4>1, AppendProperties
    <3> HIDE DEF t, u, m
    <3>3. \A i \in 1 .. m + 1 : i \in 1 .. m \/ i = m + 1
      BY <2>3
    <3>4. /\ h \in [1 .. m -> 1 .. n] /\ \A i, j \in 1 .. m : i < j => h[i] < h[j]
          /\ \A i \in 1 .. m : t[i] = kids[h[i]] /\ IsElement(t[i])
          /\ \A j \in 1 .. n : IsElement(kids[j]) => \E i \in 1 .. m : h[i] = j
      BY <2>1 DEF m
    <3> HIDE DEF PicksTo
    <3>5. /\ \A i \in 1 .. m : g[i] = h[i] /\ h[i] \in 1 .. n /\ i \in 1 .. m + 1
          /\ g[m + 1] = n + 1 /\ DOMAIN g = 1 .. m + 1 /\ m + 1 \in 1 .. m + 1
      BY <2>3, <3>4
    <3>6. g \in [1 .. m + 1 -> 1 .. n + 1]
      BY <2>3, <3>3, <3>4
    <3> HIDE DEF g
    <3>7. \A i, j \in 1 .. m + 1 : i < j => g[i] < g[j]
      <4> SUFFICES ASSUME NEW i \in 1 .. m + 1, NEW j \in 1 .. m + 1, i < j PROVE g[i] < g[j]
        OBVIOUS
      <4>1. i \in 1 .. m
        BY <2>3
      <4>2. CASE j \in 1 .. m
        <5>1. h[i] < h[j] /\ g[i] = h[i] /\ g[j] = h[j]
          BY <3>4, <3>5, <4>1, <4>2
        <5> QED BY <5>1
      <4>3. CASE j = m + 1
        <5>1. g[i] \in 1 .. n /\ g[j] = n + 1
          BY <3>5, <4>1, <4>3
        <5> QED BY <2>3, <5>1
      <4> QED BY <3>3, <4>2, <4>3
    <3>8. \A i \in 1 .. m + 1 : u[i] = kids[g[i]] /\ IsElement(u[i])
      BY <2>5, <3>2, <3>3, <3>4, <3>5
    <3>9. ASSUME NEW j \in 1 .. n + 1, IsElement(kids[j]) PROVE \E i \in 1 .. m + 1 : g[i] = j
      <4>1. CASE j = n + 1
        BY <3>5, <4>1
      <4>2. CASE j # n + 1
        <5>1. j \in 1 .. n
          BY <2>3, <4>2
        <5>2. PICK i \in 1 .. m : h[i] = j
          BY <3>4, <3>9, <5>1
        <5> QED BY <3>5, <5>2
      <4> QED BY <4>1, <4>2
    <3>10. PicksTo(n + 1, u, g)
      BY <3>2, <3>6, <3>7, <3>8, <3>9 DEF PicksTo
    <3> QED BY <2>2, <3>10 DEF u
  <2> QED BY <2>4, <2>5
<1>5. N \in S
  <2> HIDE DEF S
  <2>1. 0 .. N \subseteq S
    BY <1>2, <1>3, <1>4, InductionUpTo
  <2> QED BY <1>2, <2>1
<1>6. PICK h : PicksTo(N, Elements(kids), h)
  <2> HIDE DEF PicksTo
  <2> QED BY <1>1, <1>5
<1> QED
  BY <1>6 DEF Picks, N

\* What an element, or the root (None), puts on the stack.
Source(e) == IF e = None THEN KidsOf(doc) ELSE Elements(KidsOf(doc.dict[e]))
Owning == DOMAIN doc.dict \cup {None}

\* It is what is written, backwards, and without the kids that are no elements
\* unless it is the root: h says where each is written.
SourceFits(e, h) ==
  /\ h \in [DOMAIN Source(e) -> DOMAIN Written(doc, e)]
  /\ \A i, j \in DOMAIN Source(e) : i < j => h[j] < h[i]
  /\ \A j \in DOMAIN Source(e) : Source(e)[j] = Written(doc, e)[h[j]]
  /\ \A i \in DOMAIN Written(doc, e) : IsPlace(e, i) => \E j \in DOMAIN Source(e) : h[j] = i

LEMMA SourcePlaces ==
  ASSUME doc \in Documents, NEW e \in Owning
  PROVE  /\ Source(e) \in Seq(Values) /\ Written(doc, e) \in Seq(Values)
         /\ \E h : SourceFits(e, h)
         /\ e # None => \A j \in DOMAIN Source(e) : IsElement(Source(e)[j])
<1> DEFINE d == IF e = None THEN doc ELSE doc.dict[e]
           kids == KidsOf(d)
           written == Written(doc, e)
           n == Len(written)
<1>1. /\ kids \in Seq(Values) /\ written \in Seq(Values) /\ Len(kids) = n
      /\ \A i \in 1 .. n : kids[i] = written[(n - i) + 1]
  BY MetBackwards DEF Owning
<1>2. n \in Nat /\ DOMAIN kids = 1 .. n /\ DOMAIN written = 1 .. n
  BY <1>1
<1>3. CASE e = None
  <2> DEFINE h == [i \in 1 .. n |-> (n - i) + 1]
  <2>1. Source(e) = kids
    BY <1>3 DEF Source
  <2> HIDE DEF kids, n, written
  <2>2. h \in [1 .. n -> 1 .. n] /\ \A i, j \in 1 .. n : i < j => h[j] < h[i]
    BY <1>2
  <2>3. \A i \in 1 .. n : kids[i] = written[h[i]]
    BY <1>1
  <2>4. ASSUME NEW i \in 1 .. n PROVE (n - i) + 1 \in 1 .. n /\ h[(n - i) + 1] = i
    <3>1. (n - i) + 1 \in 1 .. n /\ (n - ((n - i) + 1)) + 1 = i
      BY <1>2
    <3> QED BY <3>1
  <2> HIDE DEF h
  <2>5. SourceFits(e, h)
    BY <1>2, <2>1, <2>2, <2>3, <2>4 DEF SourceFits, written
  <2> QED BY <1>1, <1>3, <2>1, <2>5 DEF written
<1>4. CASE e # None
  <2> DEFINE s == Elements(kids)
  <2>1. Source(e) = s
    BY <1>4 DEF Source
  <2> HIDE DEF kids, n, written, d
  <2>2. s \in Seq(Values)
    BY <1>1, ElementsAreKids
  <2>3. PICK g : Picks(kids, s, g)
    BY <1>1, ElementsPick
  <2> HIDE DEF s
  <2>4. Len(s) \in Nat /\ DOMAIN s = 1 .. Len(s)
    BY <2>2
  <2>5. /\ g \in [1 .. Len(s) -> 1 .. n] /\ \A i, j \in 1 .. Len(s) : i < j => g[i] < g[j]
        /\ \A i \in 1 .. Len(s) : s[i] = kids[g[i]] /\ IsElement(s[i])
        /\ \A j \in 1 .. n : IsElement(kids[j]) => \E i \in 1 .. Len(s) : g[i] = j
    BY <1>1, <2>3 DEF Picks
  <2> DEFINE h == [i \in 1 .. Len(s) |-> (n - g[i]) + 1]
  <2>6. h \in [1 .. Len(s) -> 1 .. n]
    <3>1. \A i \in 1 .. Len(s) : g[i] \in 1 .. n
      BY <2>5
    <3>2. \A i \in 1 .. Len(s) : (n - g[i]) + 1 \in 1 .. n
      BY <1>2, <3>1
    <3> QED BY <3>2
  <2>7. \A i, j \in 1 .. Len(s) : i < j => h[j] < h[i]
    <3>1. \A i \in 1 .. Len(s) : g[i] \in 1 .. n
      BY <2>5
    <3> QED BY <1>2, <2>5, <3>1
  <2>8. ASSUME NEW i \in 1 .. Len(s) PROVE s[i] = written[h[i]]
    <3>1. g[i] \in 1 .. n /\ s[i] = kids[g[i]]
      BY <2>5
    <3> QED BY <1>1, <3>1
  <2>9. ASSUME NEW j \in 1 .. n, IsElement(written[j]) PROVE \E i \in 1 .. Len(s) : h[i] = j
    <3>1. (n - j) + 1 \in 1 .. n /\ (n - ((n - j) + 1)) + 1 = j
      BY <1>2
    <3>2. kids[(n - j) + 1] = written[j]
      BY <1>1, <3>1
    <3>3. PICK i \in 1 .. Len(s) : g[i] = (n - j) + 1
      BY <2>5, <2>9, <3>1, <3>2
    <3> QED BY <3>1, <3>3
  <2> HIDE DEF h
  <2>10. SourceFits(e, h)
    BY <1>2, <2>1, <2>4, <2>6, <2>7, <2>8, <2>9 DEF SourceFits, IsPlace, written
  <2> QED BY <1>1, <1>4, <2>1, <2>2, <2>4, <2>5, <2>10 DEF written
<1> QED
  BY <1>3, <1>4

\* All this depends on the document alone.
LEMMA SameDocument ==
  ASSUME doc' = doc
  PROVE  /\ \A e : Source(e)' = Source(e)
         /\ \A v : IsElement(v)' = IsElement(v)
         /\ \A e, i : IsPlace(e, i)' = IsPlace(e, i)
         /\ PlainRoot' = PlainRoot
BY DEF Source, KidsOf, Elements, IsElement, structure_dictionary, Dict, IsPlace, PlainRoot

\* What each puts there; what node p, or the root (0), did.
Sources == [e \in Owning |-> Source(e)]
Pushes == [p \in 0 .. Len(nodes) |-> Sources[DictOf(p)]]

\* What is an element.
ElementValues == {v \in Values : IsElement(v)}

LEMMA SameSources == doc' = doc => Sources' = Sources /\ ElementValues' = ElementValues
BY DEF ElementValues, Sources, Owning, Source, KidsOf, Elements, IsElement, structure_dictionary, Dict

\* Waits(base, p, j): what node p put on the stack at place j still waits. What it put
\* there stands together, above base[p] other values.
Waits(base, p, j) == base[p] + j \in DOMAIN stack /\ stack[base[p] + j].parent = p

StackFits(base) ==
  /\ base \in [0 .. Len(nodes) -> Nat]
  /\ \A k \in DOMAIN stack :
       LET p == stack[k].parent
       IN /\ p \in 0 .. Len(nodes) /\ k - base[p] \in DOMAIN Pushes[p]
          /\ stack[k].value = Pushes[p][k - base[p]]
          /\ \A j \in base[p] + 1 .. k : stack[j].parent = p

\* place[n] says where node n waited: nothing that still waits there or was written
\* before it is the same dictionary, and earlier siblings waited above it.
NodeStood(base, place, n) ==
  LET p == nodes[n].parent
      s == Pushes[p]
  IN /\ place[n] \in DOMAIN s /\ s[place[n]] \in ElementValues /\ s[place[n]][2] = nodes[n].dict
     /\ nodes[n].key = KeyOf(s[place[n]])
     /\ \A j \in DOMAIN s : Waits(base, p, j) => j < place[n]
     /\ \A j \in DOMAIN s : j > place[n] /\ s[j] \in ElementValues => s[j][2] # nodes[n].dict
PlacesFit(base, place) ==
  /\ place \in [DOMAIN nodes -> Nat]
  /\ \A n \in DOMAIN nodes : NodeStood(base, place, n)
  /\ \A m, n \in DOMAIN nodes :
       m < n /\ nodes[m].parent = nodes[n].parent => place[n] < place[m]

\* Until the tree is cut off, an element that does not wait any more became a node, or
\* was one already and was warned of.
IsGone(place, p, j) ==
  \/ \E n \in DOMAIN nodes : nodes[n].parent = p /\ place[n] = j
  \/ /\ Pushes[p][j][1] = "ref" /\ "cycle" \in warnings
     /\ \E n \in DOMAIN nodes : nodes[n].key = Pushes[p][j][2]
GoneFits(base, place) ==
  ~truncated =>
    /\ \A p \in 0 .. Len(nodes) : \A j \in DOMAIN Pushes[p] :
         Pushes[p][j] \in ElementValues /\ ~Waits(base, p, j) => IsGone(place, p, j)
    /\ \A name \in visited :
         name \in DOMAIN doc.dict /\ doc.dict[name].is = "elem"
           => \E n \in DOMAIN nodes : nodes[n].key = name

Fits(base, place) == StackFits(base) /\ PlacesFit(base, place) /\ GoneFits(base, place)

\* The stack and its top.
LEMMA StackTop ==
  ASSUME TreeInv, Turn
  PROVE  /\ Len(stack) \in Nat \ {0} /\ DOMAIN stack = 1 .. Len(stack) /\ Top = stack[Len(stack)]
         /\ Len(Front(stack)) = Len(stack) - 1 /\ DOMAIN Front(stack) = 1 .. Len(stack) - 1
         /\ \A k \in 1 .. Len(stack) - 1 : Front(stack)[k] = stack[k]
<1> DEFINE V == {stack[k] : k \in DOMAIN stack}
<1>1. stack \in Seq(V) /\ stack # <<>>
  BY DEF TreeInv, AllWaiting, Turn
<1> HIDE DEF V
<1>2. /\ Front(stack) \in Seq(V) /\ Len(Front(stack)) = Len(stack) - 1
      /\ \A k \in DOMAIN Front(stack) : Front(stack)[k] = stack[k]
      /\ Last(stack) = stack[Len(stack)]
  BY <1>1, StackPops
<1>3. Len(stack) \in Nat \ {0} /\ DOMAIN stack = 1 .. Len(stack)
  BY <1>1
<1>4. DOMAIN Front(stack) = 1 .. Len(stack) - 1
  <2> DEFINE f == Front(stack)
  <2>1. f \in Seq(V) /\ Len(f) = Len(stack) - 1
    BY <1>2
  <2> HIDE DEF f
  <2>2. DOMAIN f = 1 .. Len(stack) - 1
    BY <2>1
  <2> QED BY <2>2 DEF f
<1> QED
  BY <1>2, <1>3, <1>4 DEF Top

\* The top of the stack is what its parent put there, at some place.
LEMMA TopPlace ==
  ASSUME TreeInv, Turn, NEW base, StackFits(base)
  PROVE  /\ Top.parent \in 0 .. Len(nodes) /\ base[Top.parent] \in Nat
         /\ Len(stack) - base[Top.parent] \in DOMAIN Pushes[Top.parent]
         /\ Top.value = Pushes[Top.parent][Len(stack) - base[Top.parent]]
         /\ Waits(base, Top.parent, Len(stack) - base[Top.parent])
         /\ \A j : Waits(base, Top.parent, j) /\ j \in Int => j <= Len(stack) - base[Top.parent]
<1>1. Len(stack) \in Nat \ {0} /\ DOMAIN stack = 1 .. Len(stack) /\ Top = stack[Len(stack)]
  BY StackTop
<1>2. Len(stack) \in DOMAIN stack
  BY <1>1
<1>3. /\ Top.parent \in 0 .. Len(nodes)
      /\ Len(stack) - base[Top.parent] \in DOMAIN Pushes[Top.parent]
      /\ Top.value = Pushes[Top.parent][Len(stack) - base[Top.parent]]
  BY <1>1, <1>2 DEF StackFits
<1>4. base[Top.parent] \in Nat
  BY <1>3 DEF StackFits
<1>5. Waits(base, Top.parent, Len(stack) - base[Top.parent])
  <2>1. base[Top.parent] + (Len(stack) - base[Top.parent]) = Len(stack)
    BY <1>1, <1>4
  <2> QED BY <1>1, <1>2, <2>1 DEF Waits
<1>6. ASSUME NEW j \in Int, Waits(base, Top.parent, j) PROVE j <= Len(stack) - base[Top.parent]
  BY <1>1, <1>4, <1>6 DEF Waits
<1> QED
  BY <1>3, <1>4, <1>5, <1>6

\* What stands on the stack when the top gave way to more.
LEMMA StackPush ==
  ASSUME TreeInv, Turn, NEW V, NEW more \in Seq(V), stack' = Front(stack) \o more
  PROVE  /\ Len(more) \in Nat /\ DOMAIN more = 1 .. Len(more)
         /\ DOMAIN stack' = 1 .. (Len(stack) - 1) + Len(more)
         /\ \A k \in 1 .. Len(stack) - 1 : stack'[k] = stack[k]
         /\ \A i \in 1 .. Len(more) : stack'[(Len(stack) - 1) + i] = more[i]
<1> DEFINE f == Front(stack)
           W == {stack[k] : k \in DOMAIN stack} \cup V
<1>1. /\ Len(stack) \in Nat \ {0} /\ Len(f) = Len(stack) - 1 /\ DOMAIN f = 1 .. Len(stack) - 1
      /\ \A k \in 1 .. Len(stack) - 1 : f[k] = stack[k]
  BY StackTop
<1>2. f \in Seq(W) /\ more \in Seq(W)
  <2> DEFINE U == {stack[k] : k \in DOMAIN stack}
  <2>1. stack \in Seq(U) /\ stack # <<>>
    BY DEF TreeInv, AllWaiting, Turn
  <2> HIDE DEF U, f
  <2>2. f \in Seq(U)
    BY <2>1, StackPops DEF f
  <2>3. U \subseteq W /\ V \subseteq W
    BY DEF U
  <2> HIDE DEF W
  <2>4. f \in Seq(W)
    BY ONLY <2>2, <2>3
  <2>5. more \in Seq(W)
    BY ONLY <2>3, more \in Seq(V)
  <2> QED BY <2>4, <2>5
<1> HIDE DEF f, W
<1>3. stack' = f \o more
  BY DEF f
<1> DEFINE m == Len(more)
<1>4. m \in Nat /\ DOMAIN more = 1 .. m
  BY <1>2
<1> DEFINE t == f \o more
<1>5. /\ t \in Seq(W) /\ Len(t) = Len(f) + m
      /\ \A k \in 1 .. Len(f) + m : t[k] = IF k <= Len(f) THEN f[k] ELSE more[k - Len(f)]
  BY <1>2
<1>6. DOMAIN t = 1 .. Len(f) + m
  <2> HIDE DEF t
  <2> QED BY <1>5
<1> HIDE DEF m, t
<1>7. \A k \in 1 .. Len(stack) - 1 : t[k] = stack[k]
  <2> SUFFICES ASSUME NEW k \in 1 .. Len(stack) - 1 PROVE t[k] = stack[k]
    OBVIOUS
  <2>1. k \in 1 .. Len(f) + m /\ k <= Len(f)
    BY <1>1, <1>4
  <2> QED BY <1>1, <1>5, <2>1
<1>8. \A i \in 1 .. m : t[(Len(stack) - 1) + i] = more[i]
  <2> SUFFICES ASSUME NEW i \in 1 .. m PROVE t[Len(f) + i] = more[i]
    BY <1>1
  <2>1. Len(f) + i \in 1 .. Len(f) + m /\ ~(Len(f) + i <= Len(f)) /\ (Len(f) + i) - Len(f) = i
    BY <1>1, <1>4
  <2> QED BY <1>5, <2>1
<1> QED
  BY <1>1, <1>3, <1>4, <1>6, <1>7, <1>8 DEF m, t

\* What stands there when an array was opened.
LEMMA OpenParts ==
  ASSUME TreeInv, OpenArray
  PROVE  LET B == Len(stack) - 1
             r == Reverse(Top.value[2])
         IN /\ r \in Seq(Values) /\ Len(r) \in Nat /\ DOMAIN stack' = 1 .. B + Len(r)
            /\ \A k \in 1 .. B : stack'[k] = stack[k]
            /\ \A i \in 1 .. Len(r) :
                 stack'[B + i].value = r[i] /\ stack'[B + i].parent = Top.parent
<1> DEFINE values == Top.value[2]
           each == [i \in DOMAIN values |-> [Top EXCEPT !.value = values[i]]]
           n == Len(values)
           r == Reverse(values)
           more == Reverse(each)
<1>1. Turn /\ Waiting(Top, Len(nodes)) /\ stack' = Front(stack) \o more
  BY TopWaits DEF OpenArray, InDepth
<1>2. values \in Seq(Values)
  BY <1>1, DocumentShape DEF OpenArray, Waiting
<1> HIDE DEF values
<1>3. n \in Nat /\ DOMAIN values = 1 .. n
  BY <1>2
<1> HIDE DEF n
<1>4. DOMAIN each = 1 .. n /\ Len(each) = n
  BY <1>3
<1>5. /\ more = [i \in 1 .. n |-> each[(n - i) + 1]]
      /\ r \in Seq(Values) /\ r = [i \in 1 .. n |-> values[(n - i) + 1]]
  BY <1>2, <1>4, ReverseFact DEF Reverse, n
<1>6. Len(r) = n
  BY <1>3, <1>5
<1>7. ASSUME NEW i \in 1 .. n PROVE more[i].value = r[i] /\ more[i].parent = Top.parent
  <2>1. (n - i) + 1 \in 1 .. n
    BY <1>3
  <2>2. more[i] = [Top EXCEPT !.value = values[(n - i) + 1]] /\ r[i] = values[(n - i) + 1]
    BY <1>3, <1>5, <2>1
  <2> HIDE DEF more, r
  <2> QED BY <1>1, <2>2 DEF Waiting
<1> DEFINE V == {more[i] : i \in DOMAIN more}
<1>8. more \in Seq(V) /\ Len(more) = n
  <2>1. more = [i \in 1 .. n |-> more[i]]
    BY <1>5
  <2> HIDE DEF more
  <2> QED BY <1>3, <2>1, OverItself
<1> HIDE DEF more, r, V
<1>9. /\ DOMAIN stack' = 1 .. (Len(stack) - 1) + n
      /\ \A k \in 1 .. Len(stack) - 1 : stack'[k] = stack[k]
      /\ \A i \in 1 .. n : stack'[(Len(stack) - 1) + i] = more[i]
  BY <1>1, <1>8, StackPush
<1>10. \A i \in 1 .. n :
         /\ stack'[(Len(stack) - 1) + i].value = r[i]
         /\ stack'[(Len(stack) - 1) + i].parent = Top.parent
  BY <1>7, <1>9
<1> QED
  BY <1>3, <1>5, <1>6, <1>9, <1>10 DEF r, values

\* What a new node is, and what it puts on the stack.
LEMMA VisitParts ==
  ASSUME TreeInv, VisitElement
  PROVE  LET B == Len(stack) - 1
             L == Len(nodes)
             s == Elements(KidsOf(Dict(Top.value)))
         IN /\ L \in Nat /\ DOMAIN nodes = 1 .. L /\ DOMAIN nodes' = 1 .. L + 1 /\ Len(nodes') = L + 1
            /\ \A n \in 1 .. L : /\ nodes'[n].parent = nodes[n].parent
                                 /\ nodes'[n].key = nodes[n].key
                                 /\ nodes'[n].dict = nodes[n].dict
            /\ nodes'[L + 1].parent = Top.parent /\ nodes'[L + 1].key = KeyOf(Top.value)
            /\ nodes'[L + 1].dict = Top.value[2]
            /\ s \in Seq(Values) /\ Len(s) \in Nat /\ DOMAIN stack' = 1 .. B + Len(s)
            /\ \A k \in 1 .. B : stack'[k] = stack[k]
            /\ \A i \in 1 .. Len(s) :
                 stack'[B + i].value = s[i] /\ stack'[B + i].parent = L + 1
<1> DEFINE B == Len(stack) - 1
           L == Len(nodes)
           s == Elements(KidsOf(Dict(Top.value)))
           more == [i \in DOMAIN s |-> [value |-> s[i], parent |-> L + 1,
                                         page |-> Or(Dict(s[i]).page, NewNode(Top).page),
                                         depth |-> Top.depth + 1]]
           old == WithChild(Top.parent, L + 1)
           new == NewNode(Top)
<1>1. Turn /\ AddNode(Top) /\ Top.parent \in 0 .. L /\ stack' = Front(stack) \o more
  BY TopWaits DEF VisitElement, InDepth, Waiting, AddNode
<1>2. s \in Seq(Values)
  <2>1. KidsOf(Dict(Top.value)) \in Seq(Values)
    BY ElementHasKids DEF TreeInv, VisitElement, IsNew
  <2> QED BY <2>1, ElementsAreKids
<1>3. \A n \in 1 .. L : old[n].dict = nodes[n].dict
  <2>1. DOMAIN nodes = 1 .. L
    BY DEF TreeInv, NodesFit
  <2> QED BY <2>1 DEF WithChild
<1>4. new.dict = Top.value[2]
  BY DEF NewNode
<1> HIDE DEF old, new
<1>5. /\ L \in Nat /\ DOMAIN nodes = 1 .. L /\ DOMAIN nodes' = 1 .. L + 1 /\ Len(nodes') = L + 1
      /\ \A n \in 1 .. L : nodes'[n] = old[n]
      /\ nodes'[L + 1] = new
  BY <1>1, NodesGrow DEF TreeInv, NodesFit, old, new
<1>6. /\ \A n \in 1 .. L : nodes'[n].parent = nodes[n].parent /\ nodes'[n].key = nodes[n].key
      /\ nodes'[L + 1].parent = Top.parent /\ nodes'[L + 1].key = KeyOf(Top.value)
  BY <1>1, <1>5, AddNodeParts DEF TreeInv
<1> HIDE DEF s, L
<1>7. Len(s) \in Nat /\ DOMAIN s = 1 .. Len(s)
  BY <1>2
<1>8. \A i \in 1 .. Len(s) : more[i].value = s[i] /\ more[i].parent = L + 1
  BY <1>7
<1> DEFINE V == {more[i] : i \in DOMAIN more}
<1>9. more \in Seq(V) /\ Len(more) = Len(s)
  <2>1. more = [i \in 1 .. Len(s) |-> more[i]]
    BY <1>7
  <2> HIDE DEF more
  <2> QED BY <1>7, <2>1, OverItself
<1> HIDE DEF more, V
<1>10. /\ DOMAIN stack' = 1 .. B + Len(s)
       /\ \A k \in 1 .. B : stack'[k] = stack[k]
       /\ \A i \in 1 .. Len(s) : stack'[B + i] = more[i]
  BY <1>1, <1>9, StackPush
<1>11. \A n \in 1 .. L : nodes'[n].dict = nodes[n].dict
  BY <1>3, <1>5
<1>12. nodes'[L + 1].dict = Top.value[2]
  BY <1>4, <1>5
<1>13. \A i \in 1 .. Len(s) : stack'[B + i].value = s[i] /\ stack'[B + i].parent = L + 1
  BY <1>8, <1>10
<1> QED
  BY <1>2, <1>5, <1>6, <1>7, <1>10, <1>11, <1>12, <1>13 DEF s, L

\* What stands there when the top was taken and nothing else.
LEMMA PopParts ==
  ASSUME TreeInv, Turn, stack' = Front(stack)
  PROVE  /\ DOMAIN stack' = 1 .. Len(stack) - 1
         /\ \A k \in 1 .. Len(stack) - 1 : stack'[k] = stack[k]
BY StackTop

-----------------------------------------------------------------------------
(* Lines do not cross. *)

\* What waits for a node waits above what waits for the nodes before it, and a node
\* that was passed over by its siblings has nothing waiting.
CrossInv ==
  /\ LinesDoNotCross
  /\ \A k \in DOMAIN stack, n \in DOMAIN nodes :
       stack[k].parent <= nodes[n].parent \/ stack[k].parent >= n
  /\ \A k, l \in DOMAIN stack : k < l => stack[k].parent <= stack[l].parent

\* The numbers there are.
LEMMA Numbers ==
  ASSUME TreeInv
  PROVE  /\ Len(nodes) \in Nat /\ DOMAIN nodes = 1 .. Len(nodes)
         /\ \A n \in DOMAIN nodes : nodes[n].parent \in 0 .. n - 1
         /\ Len(stack) \in Nat /\ DOMAIN stack = 1 .. Len(stack)
         /\ \A k \in DOMAIN stack : stack[k].parent \in 0 .. Len(nodes) /\ stack[k].value \in Values
<1>1. Len(nodes) \in Nat /\ DOMAIN nodes = 1 .. Len(nodes)
  BY DEF TreeInv, NodesFit
<1>2. \A n \in DOMAIN nodes : nodes[n].parent \in 0 .. n - 1
  BY DEF TreeInv, NodesFormTree, ParentsFirst
<1>3. Len(stack) \in Nat /\ DOMAIN stack = 1 .. Len(stack)
  BY DEF TreeInv, AllWaiting
<1>4. \A k \in DOMAIN stack : stack[k].parent \in 0 .. Len(nodes) /\ stack[k].value \in Values
  BY DEF TreeInv, AllWaiting, Waiting
<1> QED
  BY <1>1, <1>2, <1>3, <1>4

\* An array is opened, or the top is taken.
LEMMA CrossMoves ==
  ASSUME TreeInv, CrossInv, Turn, UNCHANGED nodes, NEW m \in Nat,
         DOMAIN stack' = 1 .. (Len(stack) - 1) + m,
         \A k \in 1 .. Len(stack) - 1 : stack'[k] = stack[k],
         \A i \in 1 .. m : stack'[(Len(stack) - 1) + i].parent = Top.parent
  PROVE  CrossInv'
<1> DEFINE S == Len(stack)
<1>1. S \in Nat \ {0} /\ DOMAIN stack = 1 .. S /\ Top = stack[S]
  BY StackTop
<1> HIDE DEF S
<1>2. ASSUME NEW k \in DOMAIN stack'
      PROVE  \/ k \in 1 .. S - 1 /\ stack'[k].parent = stack[k].parent
             \/ k >= S /\ stack'[k].parent = stack[S].parent
  <2>1. k \in 1 .. S - 1 \/ (k >= S /\ k - (S - 1) \in 1 .. m /\ (S - 1) + (k - (S - 1)) = k)
    BY <1>1 DEF S
  <2> QED BY <1>1, <2>1 DEF S
<1>3. LinesDoNotCross'
  BY DEF CrossInv, LinesDoNotCross
<1>4. ASSUME NEW k \in DOMAIN stack', NEW n \in DOMAIN nodes'
      PROVE  stack'[k].parent <= nodes'[n].parent \/ stack'[k].parent >= n
  BY <1>1, <1>2 DEF CrossInv
<1>5. ASSUME NEW k \in DOMAIN stack', NEW l \in DOMAIN stack', k < l
      PROVE  stack'[k].parent <= stack'[l].parent
  <2>1. k \in Int /\ l \in Int
    BY <1>1 DEF S
  <2>2. CASE l \in 1 .. S - 1
    BY ONLY <1>1, <1>2, <1>5, <2>1, <2>2, CrossInv DEF CrossInv
  <2>3. CASE l >= S /\ stack'[l].parent = stack[S].parent
    <3>1. stack[S].parent \in Nat /\ S \in DOMAIN stack
      BY <1>1, Numbers
    <3>2. CASE k \in 1 .. S - 1 /\ stack'[k].parent = stack[k].parent
      <4>1. k \in DOMAIN stack /\ k < S
        BY <1>1, <3>2
      <4> QED BY <2>3, <3>1, <3>2, <4>1 DEF CrossInv
    <3>3. CASE stack'[k].parent = stack[S].parent
      BY <2>3, <3>1, <3>3
    <3> QED BY <1>2, <3>2, <3>3
  <2> QED BY <1>2, <2>2, <2>3
<1> QED
  BY <1>3, <1>4, <1>5 DEF CrossInv

\* An element becomes a node.
LEMMA CrossVisit ==
  ASSUME TreeInv, CrossInv, VisitElement
  PROVE  CrossInv'
<1> DEFINE S == Len(stack)
           L == Len(nodes)
           m == Len(Elements(KidsOf(Dict(Top.value))))
           p == Top.parent
<1>1. S \in Nat \ {0} /\ DOMAIN stack = 1 .. S /\ Top = stack[S]
  BY StackTop DEF VisitElement, InDepth
<1>2. /\ L \in Nat /\ DOMAIN nodes = 1 .. L /\ DOMAIN nodes' = 1 .. L + 1
      /\ \A n \in 1 .. L : nodes'[n].parent = nodes[n].parent
      /\ nodes'[L + 1].parent = p
      /\ m \in Nat /\ DOMAIN stack' = 1 .. (S - 1) + m
      /\ \A k \in 1 .. S - 1 : stack'[k] = stack[k]
      /\ \A i \in 1 .. m : stack'[(S - 1) + i].parent = L + 1
  BY VisitParts
<1>3. /\ \A n \in 1 .. L : nodes[n].parent \in 0 .. n - 1
      /\ \A k \in 1 .. S : stack[k].parent \in 0 .. L
  BY <1>1, <1>2, Numbers
<1>4. p = stack[S].parent /\ S \in 1 .. S
  BY <1>1
<1>5. /\ \A k, l \in 1 .. L : k < l => nodes[l].parent <= nodes[k].parent \/ nodes[l].parent >= k
      /\ \A k \in 1 .. S, n \in 1 .. L : stack[k].parent <= nodes[n].parent \/ stack[k].parent >= n
      /\ \A k, l \in 1 .. S : k < l => stack[k].parent <= stack[l].parent
  BY <1>1, <1>2 DEF CrossInv, LinesDoNotCross
<1> HIDE DEF S, L, m, p
<1>6. ASSUME NEW k \in 1 .. (S - 1) + m
      PROVE  \/ k \in 1 .. S - 1 /\ stack'[k].parent = stack[k].parent
             \/ k >= S /\ stack'[k].parent = L + 1
  <2>1. k \in 1 .. S - 1 \/ (k >= S /\ k - (S - 1) \in 1 .. m /\ (S - 1) + (k - (S - 1)) = k)
    BY <1>1, <1>2
  <2> QED BY <1>2, <2>1
<1>7. \A n \in 1 .. L + 1 : n \in 1 .. L \/ n = L + 1
  BY <1>2
<1>8. LinesDoNotCross'
  <2> SUFFICES ASSUME NEW k \in 1 .. L + 1, NEW l \in 1 .. L + 1, k < l
               PROVE  nodes'[l].parent <= nodes'[k].parent \/ nodes'[l].parent >= k
    BY <1>2 DEF LinesDoNotCross
  <2>1. k \in 1 .. L
    BY <1>2
  <2>2. CASE l \in 1 .. L
    BY ONLY <1>2, <1>5, <2>1, <2>2, k < l
  <2>3. CASE l = L + 1
    BY ONLY <1>2, <1>4, <1>5, <2>1, <2>3
  <2> QED BY <1>7, <2>2, <2>3
<1>9. ASSUME NEW k \in 1 .. (S - 1) + m, NEW n \in 1 .. L + 1
      PROVE  stack'[k].parent <= nodes'[n].parent \/ stack'[k].parent >= n
  <2>1. CASE k >= S /\ stack'[k].parent = L + 1
    BY ONLY <1>2, <2>1, n \in 1 .. L + 1
  <2>2. CASE k \in 1 .. S - 1 /\ stack'[k].parent = stack[k].parent
    <3>1. k \in 1 .. S /\ k < S
      BY <1>1, <2>2
    <3>2. CASE n \in 1 .. L
      BY ONLY <1>2, <1>5, <2>2, <3>1, <3>2
    <3>3. CASE n = L + 1
      BY ONLY <1>2, <1>4, <1>5, <2>2, <3>1, <3>3
    <3> QED BY <1>7, <3>2, <3>3
  <2> QED BY <1>6, <2>1, <2>2
<1>10. ASSUME NEW k \in 1 .. (S - 1) + m, NEW l \in 1 .. (S - 1) + m, k < l
       PROVE  stack'[k].parent <= stack'[l].parent
  <2>1. CASE k \in 1 .. S - 1 /\ l \in 1 .. S - 1
    <3>1. k \in 1 .. S /\ l \in 1 .. S /\ stack'[k].parent = stack[k].parent /\ stack'[l].parent = stack[l].parent
      BY <1>1, <1>2, <2>1
    <3> QED BY <1>5, <1>10, <3>1
  <2>2. CASE k \in 1 .. S - 1 /\ stack'[l].parent = L + 1
    <3>1. k \in 1 .. S /\ stack'[k].parent = stack[k].parent
      BY <1>1, <1>2, <2>2
    <3> QED BY <1>2, <1>3, <2>2, <3>1
  <2>3. CASE k >= S /\ stack'[k].parent = L + 1
    <3>1. l >= S /\ stack'[l].parent = L + 1
      BY <1>1, <1>6, <1>10, <2>3
    <3> QED BY <1>2, <2>3, <3>1
  <2> QED BY <1>6, <2>1, <2>2, <2>3
<1> QED
  BY <1>2, <1>8, <1>9, <1>10 DEF CrossInv

\* Steps that leave the stack and the nodes alone, or start or empty the stack.
LEMMA QuietSteps ==
  ASSUME \/ WalkTree \/ IdTreeRead \/ ParentTreeRead \/ TreeRead
         \/ AssociatePage \/ ContentRead \/ AssociateObjects \/ Built \/ UNCHANGED structure_vars
  PROVE  /\ UNCHANGED <<doc, nodes, visited, truncated>>
         /\ \/ stack' = stack
            \/ stack' = <<>> /\ (ParentTreeRead \/ TreeRead)
            \/ /\ stack' = <<[value |-> doc.k, parent |-> 0, page |-> None, depth |-> 0]>>
               /\ doc.k # NoValue /\ ParentTreeRead
<1>1. WalkTree \/ IdTreeRead \/ AssociatePage \/ ContentRead \/ AssociateObjects \/ Built
        \/ UNCHANGED structure_vars => UNCHANGED <<doc, nodes, visited, truncated, stack>>
  BY DEF WalkTree, IdTreeRead, AssociatePage, ContentRead, AssociateObjects, Built, structure_vars
<1>2. TreeRead => stack' = <<>> /\ UNCHANGED <<doc, nodes, visited, truncated>>
  BY DEF TreeRead
<1>3. ParentTreeRead =>
        /\ UNCHANGED <<doc, nodes, visited, truncated>>
        /\ \/ stack' = <<>>
           \/ /\ stack' = <<[value |-> doc.k, parent |-> 0, page |-> None, depth |-> 0]>>
              /\ doc.k # NoValue
  BY DEF ParentTreeRead
<1> QED
  BY <1>1, <1>2, <1>3

\* Every step keeps the lines apart.
LEMMA NextCross == TreeInv /\ CrossInv /\ [Next]_structure_vars => CrossInv'
<1> SUFFICES ASSUME TreeInv, CrossInv, [Next]_structure_vars PROVE CrossInv'
  OBVIOUS
<1>1. CASE VisitElement
  BY <1>1, CrossVisit
<1>2. CASE OpenArray
  <2>1. Turn /\ UNCHANGED nodes
    BY <1>2 DEF OpenArray, InDepth
  <2> DEFINE m == Len(Reverse(Top.value[2]))
  <2>2. /\ m \in Nat /\ DOMAIN stack' = 1 .. (Len(stack) - 1) + m
        /\ \A k \in 1 .. Len(stack) - 1 : stack'[k] = stack[k]
        /\ \A i \in 1 .. m : stack'[(Len(stack) - 1) + i].parent = Top.parent
    BY <1>2, OpenParts
  <2> HIDE DEF m
  <2> QED BY <2>1, <2>2, CrossMoves
<1>3. CASE TooDeep \/ SkipOther \/ SkipSeen \/ TooMany
  <2>1. Turn /\ UNCHANGED nodes /\ stack' = Front(stack)
    BY <1>3 DEF TooDeep, SkipOther, SkipSeen, TooMany, Skip, InDepth
  <2>2. /\ DOMAIN stack' = 1 .. Len(stack) - 1 /\ Len(stack) \in Nat \ {0}
        /\ \A k \in 1 .. Len(stack) - 1 : stack'[k] = stack[k]
    BY <2>1, PopParts, StackTop
  <2>3. DOMAIN stack' = 1 .. (Len(stack) - 1) + 0 /\ 1 .. 0 = {}
    BY <2>2
  <2> QED BY <2>1, <2>2, <2>3, CrossMoves
<1>4. CASE \/ WalkTree \/ IdTreeRead \/ ParentTreeRead \/ TreeRead
           \/ AssociatePage \/ ContentRead \/ AssociateObjects \/ Built \/ UNCHANGED structure_vars
  <2>1. UNCHANGED nodes
    BY <1>4, QuietSteps
  <2>2. CASE stack' = stack
    BY <2>1, <2>2 DEF CrossInv, LinesDoNotCross
  <2>3. CASE stack' = <<>>
    BY <2>1, <2>3 DEF CrossInv, LinesDoNotCross
  <2>4. CASE stack' = <<[value |-> doc.k, parent |-> 0, page |-> None, depth |-> 0]>>
    <3>1. DOMAIN stack' = {1} /\ stack'[1].parent = 0
      BY <2>4
    <3>2. \A n \in DOMAIN nodes : nodes[n].parent \in Nat
      BY Numbers
    <3> QED BY <2>1, <3>1, <3>2 DEF CrossInv, LinesDoNotCross
  <2> QED BY <1>4, <2>2, <2>3, <2>4, QuietSteps
<1> QED
  BY <1>1, <1>2, <1>3, <1>4 DEF Next

\* The dictionary of a node is one of the document's.
DictsKnown == \A n \in DOMAIN nodes : nodes[n].dict \in DOMAIN doc.dict

\* What a node put on the stack, and where it is written.
LEMMA PushedPlaces ==
  ASSUME TreeInv, DictsKnown, NEW p \in 0 .. Len(nodes)
  PROVE  /\ DictOf(p) \in Owning /\ Pushes[p] = Source(DictOf(p))
         /\ (p = 0) = (DictOf(p) = None)
         /\ Pushes[p] \in Seq(Values) /\ DOMAIN Pushes[p] = 1 .. Len(Pushes[p]) /\ Len(Pushes[p]) \in Nat
         /\ \E h : SourceFits(DictOf(p), h)
         /\ p # 0 => \A j \in DOMAIN Pushes[p] : IsElement(Pushes[p][j])
<1>1. doc \in Documents /\ None \notin DOMAIN doc.dict
  BY DocumentShape DEF TreeInv
<1>2. DOMAIN nodes = 1 .. Len(nodes)
  BY Numbers
<1>3. DictOf(p) \in Owning /\ (p = 0) = (DictOf(p) = None)
  <2>1. CASE p = 0
    BY <2>1 DEF DictOf, Owning
  <2>2. CASE p # 0
    <3>1. p \in DOMAIN nodes
      BY <1>2, <2>2
    <3> QED BY <1>1, <2>2, <3>1 DEF DictOf, Owning, DictsKnown
  <2> QED BY <2>1, <2>2
<1> DEFINE e == DictOf(p)
<1>4. Pushes[p] = Source(e)
  BY <1>3 DEF Pushes, Sources
<1> HIDE DEF e
<1>5. /\ Source(e) \in Seq(Values) /\ \E h : SourceFits(e, h)
      /\ e # None => \A j \in DOMAIN Source(e) : IsElement(Source(e)[j])
  BY <1>1, <1>3, SourcePlaces DEF e
<1> DEFINE s == Pushes[p]
<1>6. s \in Seq(Values)
  BY <1>4, <1>5
<1> HIDE DEF s
<1>7. DOMAIN s = 1 .. Len(s) /\ Len(s) \in Nat
  BY <1>6
<1> QED
  BY <1>3, <1>4, <1>5, <1>6, <1>7 DEF e, s

\* An element has a name, which is its key if it is given by reference.
LEMMA ElementNames ==
  ASSUME TreeInv, NEW v, IsElement(v)
  PROVE  /\ v[1] \in {"ref", "dict"} /\ v[2] \in DOMAIN doc.dict /\ doc.dict[v[2]].is = "elem"
         /\ v[2] # None /\ v[1] # "array"
         /\ v[1] = "ref" => KeyOf(v) = v[2]
         /\ v[1] = "dict" => KeyOf(v) = None
<1>1. None \notin DOMAIN doc.dict
  BY DocumentShape DEF TreeInv
<1> QED
  BY <1>1 DEF IsElement, structure_dictionary, IsDict, Dict, KeyOf

\* A dictionary in place was put on the stack at one place only.
LEMMA InPlaceOnce ==
  ASSUME TreeInv, DictsKnown, DictsOnce,
         NEW p \in 0 .. Len(nodes), NEW q \in 0 .. Len(nodes),
         NEW i \in DOMAIN Pushes[p], NEW j \in DOMAIN Pushes[q],
         Pushes[p][i][1] = "dict", IsElement(Pushes[q][j]), Pushes[p][i][2] = Pushes[q][j][2]
  PROVE  p = q /\ i = j
<1> DEFINE e == DictOf(p)
           f == DictOf(q)
<1>1. PICK g : SourceFits(e, g)
  BY PushedPlaces
<1>2. PICK h : SourceFits(f, h)
  BY PushedPlaces
<1>3. /\ Pushes[p] = Source(e) /\ Pushes[q] = Source(f) /\ e \in Owning /\ f \in Owning
      /\ (p = 0) = (e = None) /\ (q = 0) = (f = None)
      /\ DOMAIN Pushes[p] = 1 .. Len(Pushes[p]) /\ Len(Pushes[p]) \in Nat
      /\ DOMAIN Pushes[q] = 1 .. Len(Pushes[q]) /\ Len(Pushes[q]) \in Nat
  BY PushedPlaces
<1>4. doc \in Documents /\ DOMAIN nodes = 1 .. Len(nodes)
  BY Numbers DEF TreeInv
<1>5. g[i] \in DOMAIN Written(doc, e) /\ Pushes[p][i] = Written(doc, e)[g[i]]
  BY <1>1, <1>3 DEF SourceFits
<1>6. h[j] \in DOMAIN Written(doc, f) /\ Pushes[q][j] = Written(doc, f)[h[j]]
  BY <1>2, <1>3 DEF SourceFits
<1>7. IsDict(Pushes[q][j])
  BY ElementNames DEF IsDict
<1>8. e = f /\ g[i] = h[j]
  <2> HIDE DEF e, f
  <2>1. e \in DOMAIN doc.dict \cup {None} /\ f \in DOMAIN doc.dict \cup {None}
    BY <1>3 DEF Owning
  <2> QED BY <1>4, <1>5, <1>6, <1>7, <2>1, InPlace
<1>9. p = q
  <2>1. CASE p = 0
    BY <1>3, <1>8, <2>1
  <2>2. CASE p # 0
    <3>1. q # 0
      BY <1>3, <1>8, <2>2
    <3>2. p \in DOMAIN nodes /\ q \in DOMAIN nodes
      BY <1>4, <2>2, <3>1
    <3>3. nodes[p].dict = nodes[q].dict
      BY <1>8, <2>2, <3>1 DEF DictOf
    <3> QED BY <3>2, <3>3 DEF DictsOnce
  <2> QED BY <2>1, <2>2
<1>10. i = j
  <2>1. j \in DOMAIN Source(e) /\ i \in DOMAIN Source(e) /\ e \in DOMAIN doc.dict \cup {None}
    BY <1>3, <1>9 DEF Owning
  <2>2. g[j] \in DOMAIN Written(doc, e) /\ Pushes[q][j] = Written(doc, e)[g[j]]
    BY <1>1, <1>3, <1>9, <2>1 DEF SourceFits
  <2>3. g[i] = g[j]
    <3> HIDE DEF e
    <3> QED BY <1>4, <1>5, <1>7, <2>1, <2>2, InPlace
  <2>4. \A a, b \in DOMAIN Source(e) : a < b => g[b] < g[a]
    BY <1>1 DEF SourceFits
  <2>5. ~(i < j) /\ ~(j < i)
    <3>1. \A a \in DOMAIN Source(e) : ~(g[i] < g[i])
      <4>1. Written(doc, e) \in Seq(Values)
        BY <1>3, <1>4, SourcePlaces
      <4>2. g[i] \in Int
        BY <1>5, <4>1
      <4> QED BY <4>2
    <3> QED BY <2>1, <2>3, <2>4, <3>1
  <2>6. i \in Int /\ j \in Int
    BY <1>3
  <2> QED BY <2>5, <2>6
<1> QED
  BY <1>9, <1>10

\* The nodes there are keep what they put on the stack.
LEMMA PushedStay ==
  ASSUME TreeInv, doc' = doc, Len(nodes') \in Nat, Len(nodes) <= Len(nodes'),
         \A n \in DOMAIN nodes : nodes'[n].dict = nodes[n].dict
  PROVE  \A p \in 0 .. Len(nodes) : Pushes'[p] = Pushes[p]
<1> SUFFICES ASSUME NEW p \in 0 .. Len(nodes) PROVE Pushes'[p] = Pushes[p]
  OBVIOUS
<1>1. Len(nodes) \in Nat /\ (p = 0 \/ p \in DOMAIN nodes)
  BY Numbers
<1>2. p \in 0 .. Len(nodes')
  BY <1>1
<1>3. DictOf(p)' = DictOf(p)
  BY <1>1 DEF DictOf
<1> QED
  BY <1>2, <1>3, SameSources DEF Pushes

\* The top is taken: whatever waited and was not the top waits on.
LEMMA PopFits ==
  ASSUME TreeInv, DictsKnown, Turn, NEW base, NEW place, Fits(base, place),
         UNCHANGED <<doc, nodes>>, stack' = Front(stack), warnings \subseteq warnings',
         \/ truncated'
         \/ /\ IsElement(Top.value) =>
                 /\ Top.value[1] = "ref" /\ "cycle" \in warnings'
                 /\ \E n \in DOMAIN nodes : nodes[n].key = Top.value[2]
            /\ \A name \in visited' \ visited :
                 ~(name \in DOMAIN doc.dict /\ doc.dict[name].is = "elem")
  PROVE  Fits(base, place)'
<1> DEFINE S == Len(stack)
           L == Len(nodes)
<1>1. /\ S \in Nat \ {0} /\ DOMAIN stack = 1 .. S /\ Top = stack[S]
      /\ DOMAIN stack' = 1 .. S - 1 /\ \A k \in 1 .. S - 1 : stack'[k] = stack[k]
  BY StackTop, PopParts
<1>2. \A p \in 0 .. L : Pushes'[p] = Pushes[p]
  BY PushedStay
<1>3. StackFits(base) /\ PlacesFit(base, place) /\ GoneFits(base, place) /\ ~truncated
  BY DEF Fits, Turn
<1>4. base \in [0 .. L -> Nat] /\ DOMAIN nodes = 1 .. L /\ L \in Nat
  BY <1>3, Numbers DEF StackFits
<1>5. \A p, j : Waits(base, p, j)' => Waits(base, p, j)
  BY <1>1 DEF Waits
<1>6. ASSUME NEW p, NEW j, Waits(base, p, j), ~Waits(base, p, j)'
      PROVE  p = Top.parent /\ base[p] + j = S
  BY <1>1, <1>6 DEF Waits
<1> HIDE DEF S, L
<1>7. StackFits(base)'
  <2>1. ASSUME NEW k \in 1 .. S - 1, NEW p, p = stack[k].parent
        PROVE  /\ p \in 0 .. L /\ k - base[p] \in DOMAIN Pushes[p]
               /\ stack[k].value = Pushes[p][k - base[p]]
               /\ \A j \in base[p] + 1 .. k : stack'[j].parent = p
    <3>1. k \in DOMAIN stack /\ stack'[k] = stack[k]
      BY <1>1
    <3>2. /\ p \in 0 .. L /\ k - base[p] \in DOMAIN Pushes[p]
          /\ stack[k].value = Pushes[p][k - base[p]]
          /\ \A j \in base[p] + 1 .. k : stack[j].parent = p
      BY <1>3, <2>1, <3>1 DEF StackFits, L
    <3>3. base[p] \in Nat
      BY <1>4, <3>2
    <3>4. \A j \in base[p] + 1 .. k : j \in 1 .. S - 1
      BY <1>1, <3>3
    <3>5. \A j \in base[p] + 1 .. k : stack'[j].parent = p
      BY <1>1, <3>2, <3>4
    <3> QED BY <3>2, <3>5
  <2>2. nodes' = nodes /\ Len(nodes') = L /\ Sources' = Sources
    BY SameSources DEF L
  <2> QED BY <1>1, <1>4, <2>1, <2>2 DEF StackFits, Pushes, DictOf
<1>8. \A n \in DOMAIN nodes : nodes[n].parent \in 0 .. L
  BY <1>4, Numbers
<1>9. PlacesFit(base, place)'
  <2>1. ASSUME NEW n \in DOMAIN nodes PROVE NodeStood(base, place, n)'
    <3>1. NodeStood(base, place, n)
      BY <1>3, <2>1 DEF PlacesFit
    <3>2. Pushes'[nodes[n].parent] = Pushes[nodes[n].parent]
      BY <1>8, SameSources DEF Pushes, DictOf
    <3>3. ElementValues' = ElementValues
      BY SameSources
    <3> QED BY <1>5, <3>1, <3>2, <3>3 DEF NodeStood
  <2> QED BY <1>3, <2>1 DEF PlacesFit
<1>10. GoneFits(base, place)'
  <2>1. ASSUME ~truncated', NEW p \in 0 .. L, NEW j \in DOMAIN Pushes[p],
               Pushes[p][j] \in ElementValues, ~Waits(base, p, j)'
        PROVE  \/ \E n \in DOMAIN nodes : nodes[n].parent = p /\ place[n] = j
               \/ /\ Pushes[p][j][1] = "ref" /\ "cycle" \in warnings'
                  /\ \E n \in DOMAIN nodes : nodes[n].key = Pushes[p][j][2]
    <3>1. CASE ~Waits(base, p, j)
      <4>1. IsGone(place, p, j)
        BY <1>3, <2>1, <3>1 DEF GoneFits, L
      <4> QED BY <4>1 DEF IsGone
    <3>2. CASE Waits(base, p, j)
      <4>1. p = Top.parent /\ base[p] + j = S
        BY <1>6, <2>1, <3>2
      <4>2. base[p] \in Nat /\ j \in Int
        <5>1. DOMAIN Pushes[p] = 1 .. Len(Pushes[p]) /\ Len(Pushes[p]) \in Nat
          BY PushedPlaces DEF L
        <5> QED BY <1>4, <5>1
      <4>3. S - base[p] = j
        BY <1>1, <4>1, <4>2
      <4>4. Top.value = Pushes[p][j]
        BY <1>3, <4>1, <4>3, TopPlace DEF S
      <4> QED BY <2>1, <4>4 DEF ElementValues
    <3> QED BY <3>1, <3>2
  <2>2. ASSUME ~truncated', NEW name \in visited', name \in DOMAIN doc.dict, doc.dict[name].is = "elem"
        PROVE  \E n \in DOMAIN nodes : nodes[n].key = name
    BY <1>3, <2>2 DEF GoneFits
  <2>3. ElementValues' = ElementValues /\ nodes' = nodes /\ Len(nodes') = L
    BY SameSources DEF L
  <2> QED BY <1>2, <2>1, <2>2, <2>3 DEF GoneFits, IsGone
<1> QED
  BY <1>7, <1>9, <1>10 DEF Fits

\* The element on top that was not seen is no node yet, and nothing its siblings wrote
\* before it is the same.
LEMMA TopIsNew ==
  ASSUME TreeInv, DictsKnown, DictsOnce, Turn, NEW base, NEW place, Fits(base, place),
         IsNew, IsElement(Top.value)
  PROVE  /\ \A m \in DOMAIN nodes : nodes[m].dict # Top.value[2]
         /\ \A j \in DOMAIN Pushes[Top.parent] :
              j > Len(stack) - base[Top.parent] /\ Pushes[Top.parent][j] \in ElementValues
                => Pushes[Top.parent][j][2] # Top.value[2]
<1> DEFINE p == Top.parent
           J == Len(stack) - base[Top.parent]
           v == Top.value
<1>1. /\ p \in 0 .. Len(nodes) /\ J \in DOMAIN Pushes[p] /\ v = Pushes[p][J]
      /\ Waits(base, p, J) /\ \A j : Waits(base, p, j) /\ j \in Int => j <= J
  BY TopPlace DEF Fits
<1>2. /\ v[1] \in {"ref", "dict"} /\ v[2] \in DOMAIN doc.dict /\ v[2] # None
      /\ v[1] = "ref" => KeyOf(v) = v[2]
  BY ElementNames
<1>3. v[1] = "ref" => v[2] \notin visited
  BY <1>2 DEF IsNew, Seen
<1>4. \A n \in DOMAIN nodes : nodes[n].key = None \/ nodes[n].key \in visited
  BY DEF TreeInv, NodesFit
<1>5. J \in Int /\ \A j \in DOMAIN Pushes[p] : j \in Int
  <2>1. DOMAIN Pushes[p] = 1 .. Len(Pushes[p]) /\ Len(Pushes[p]) \in Nat
    BY <1>1, PushedPlaces
  <2> QED BY <1>1, <2>1
<1>6. IsElement(v)
  OBVIOUS
<1> HIDE DEF p, J, v
<1>7. ASSUME NEW m \in DOMAIN nodes, nodes[m].dict = v[2] PROVE FALSE
  <2> DEFINE q == nodes[m].parent
             w == Pushes[q][place[m]]
  <2>1. /\ q \in 0 .. Len(nodes) /\ place[m] \in DOMAIN Pushes[q] /\ w \in ElementValues
        /\ w[2] = nodes[m].dict /\ nodes[m].key = KeyOf(w)
        /\ \A j \in DOMAIN Pushes[q] : Waits(base, q, j) => j < place[m]
    <3>1. q \in 0 .. m - 1 /\ Len(nodes) \in Nat /\ m \in 1 .. Len(nodes)
      BY Numbers
    <3>2. q \in 0 .. Len(nodes)
      <4> HIDE DEF q
      <4> QED BY <3>1
    <3>3. NodeStood(base, place, m)
      BY DEF Fits, PlacesFit
    <3> QED BY <3>2, <3>3 DEF NodeStood
  <2> HIDE DEF q
  <2>2. IsElement(w)
    BY <2>1 DEF ElementValues
  <2> HIDE DEF w
  <2>3. w[1] \in {"ref", "dict"} /\ (w[1] = "ref" => KeyOf(w) = w[2])
    BY <2>2, ElementNames
  <2>4. w[2] = v[2]
    BY <1>7, <2>1
  <2>5. ASSUME q = p, place[m] = J PROVE FALSE
    <3>1. J < J
      BY <1>1, <2>1, <2>5
    <3> QED BY <1>5, <3>1
  <2>6. CASE w[1] = "dict"
    <3>1. q = p /\ place[m] = J
      BY <1>1, <1>6, <2>1, <2>4, <2>6, InPlaceOnce DEF w
    <3> QED BY <2>5, <3>1
  <2>7. CASE v[1] = "dict"
    <3>1. p = q /\ J = place[m]
      BY <1>1, <2>1, <2>2, <2>4, <2>7, InPlaceOnce DEF w
    <3> QED BY <2>5, <3>1
  <2>8. CASE w[1] = "ref" /\ v[1] = "ref"
    <3>1. nodes[m].key = v[2]
      BY <2>1, <2>3, <2>4, <2>8
    <3> QED BY <1>2, <1>3, <1>4, <2>8, <3>1
  <2> QED BY <1>2, <2>3, <2>6, <2>7, <2>8
<1>8. ASSUME NEW j \in DOMAIN Pushes[p], j > J, Pushes[p][j] \in ElementValues, Pushes[p][j][2] = v[2]
      PROVE  FALSE
  <2> DEFINE w == Pushes[p][j]
  <2>1. IsElement(w)
    BY <1>8 DEF ElementValues
  <2>2. w[1] \in {"ref", "dict"} /\ (w[1] = "ref" => KeyOf(w) = w[2])
    BY <2>1, ElementNames
  <2>3. j # J
    BY <1>5, <1>8
  <2>4. CASE w[1] = "dict"
    BY <1>1, <1>6, <1>8, <2>3, <2>4, InPlaceOnce
  <2>5. CASE v[1] = "dict"
    BY <1>1, <1>8, <2>1, <2>3, <2>5, InPlaceOnce
  <2>6. CASE w[1] = "ref" /\ v[1] = "ref"
    <3>1. ~Waits(base, p, j)
      BY <1>1, <1>5, <1>8
    <3>2. IsGone(place, p, j)
      BY <1>1, <1>8, <3>1 DEF Fits, GoneFits, Turn
    <3>3. CASE \E n \in DOMAIN nodes : nodes[n].key = w[2]
      BY <1>2, <1>3, <1>4, <1>8, <2>6, <3>3
    <3>4. CASE \E n \in DOMAIN nodes : nodes[n].parent = p /\ place[n] = j
      <4>1. PICK n \in DOMAIN nodes : nodes[n].parent = p /\ place[n] = j
        BY <3>4
      <4>2. nodes[n].key = KeyOf(w)
        BY <4>1 DEF Fits, PlacesFit, NodeStood
      <4> QED BY <1>2, <1>3, <1>4, <1>8, <2>2, <2>6, <4>2
    <3> QED BY <3>2, <3>3, <3>4 DEF IsGone
  <2> QED BY <1>2, <2>2, <2>4, <2>5, <2>6
<1> QED
  BY <1>7, <1>8 DEF p, J, v

\* Where the new node stood, and where its kids wait.
BaseAfter(base) ==
  [q \in 0 .. Len(nodes) + 1 |-> IF q = Len(nodes) + 1 THEN Len(stack) - 1 ELSE base[q]]
PlaceAfter(base, place) ==
  [n \in 1 .. Len(nodes) + 1 |->
     IF n = Len(nodes) + 1 THEN Len(stack) - base[Top.parent] ELSE place[n]]

LEMMA VisitFits ==
  ASSUME TreeInv, DictsKnown, DictsOnce, NEW base, NEW place, Fits(base, place), VisitElement,
         NEW b, b = BaseAfter(base), NEW pl, pl = PlaceAfter(base, place)
  PROVE  Fits(b, pl)' /\ DictsKnown' /\ DictsOnce'
<1> DEFINE S == Len(stack)
           L == Len(nodes)
           p == Top.parent
           J == Len(stack) - base[Top.parent]
           v == Top.value
           s == Elements(KidsOf(Dict(Top.value)))
           N == Len(Elements(KidsOf(Dict(Top.value))))
<1>1. Turn /\ IsNew /\ IsElement(v) /\ UNCHANGED <<doc, truncated>> /\ warnings' = warnings /\ ~truncated
      /\ visited' = IF KeyOf(v) = None THEN visited ELSE visited \cup {KeyOf(v)}
  BY DEF VisitElement, InDepth, Turn, TreeOnly, AddNode, Note
<1>2. S \in Nat \ {0} /\ DOMAIN stack = 1 .. S
  BY <1>1, StackTop
<1>3. /\ L \in Nat /\ DOMAIN nodes = 1 .. L /\ DOMAIN nodes' = 1 .. L + 1 /\ Len(nodes') = L + 1
      /\ \A n \in 1 .. L : /\ nodes'[n].parent = nodes[n].parent
                           /\ nodes'[n].key = nodes[n].key /\ nodes'[n].dict = nodes[n].dict
      /\ nodes'[L + 1].parent = p /\ nodes'[L + 1].key = KeyOf(v) /\ nodes'[L + 1].dict = v[2]
  BY VisitParts
<1>4. /\ s \in Seq(Values) /\ N \in Nat /\ DOMAIN stack' = 1 .. (S - 1) + N
      /\ \A k \in 1 .. S - 1 : stack'[k] = stack[k]
      /\ \A i \in 1 .. N : stack'[(S - 1) + i].value = s[i] /\ stack'[(S - 1) + i].parent = L + 1
  BY VisitParts
<1>5. v[2] \in DOMAIN doc.dict /\ v[2] # None /\ (KeyOf(v) = None \/ KeyOf(v) = v[2])
  BY <1>1, ElementNames DEF v
<1>6. \A m \in 1 .. L : nodes[m].dict # v[2]
  BY <1>1, <1>3, TopIsNew
<1>7. \A j \in DOMAIN Pushes[p] : j > J /\ Pushes[p][j] \in ElementValues => Pushes[p][j][2] # v[2]
  BY <1>1, TopIsNew
<1>8. /\ p \in 0 .. L /\ base[p] \in Nat /\ J \in DOMAIN Pushes[p] /\ v = Pushes[p][J]
      /\ Waits(base, p, J) /\ \A j : Waits(base, p, j) /\ j \in Int => j <= J
  BY <1>1, TopPlace DEF Fits
<1>9. \A q \in 0 .. L : Pushes'[q] = Pushes[q]
  <2>1. Len(nodes') \in Nat /\ L <= Len(nodes')
    BY <1>3
  <2> QED BY <1>1, <1>3, <2>1, PushedStay
<1>10. Pushes'[L + 1] = s /\ DOMAIN s = 1 .. N
  <2>1. L + 1 # 0 /\ L + 1 \in 0 .. Len(nodes') /\ nodes'[L + 1].dict = v[2]
    BY <1>3
  <2>2. Pushes'[L + 1] = Sources'[v[2]] /\ Sources' = Sources
    <3>1. Sources' = Sources
      BY <1>1, SameSources
    <3> HIDE DEF v, L
    <3> QED BY <2>1, <3>1 DEF Pushes, DictOf
  <2>3. Sources[v[2]] = Elements(KidsOf(doc.dict[v[2]]))
    BY <1>5 DEF Sources, Owning, Source
  <2>4. Pushes'[L + 1] = s
    BY <2>2, <2>3 DEF Dict
  <2> QED BY <1>4, <2>4
<1>11. StackFits(base) /\ PlacesFit(base, place) /\ GoneFits(base, place)
  BY DEF Fits
<1>12. base \in [0 .. L -> Nat] /\ place \in [1 .. L -> Nat]
  BY <1>3, <1>11 DEF StackFits, PlacesFit
<1>13. /\ b \in [0 .. L + 1 -> Nat] /\ b[L + 1] = S - 1 /\ \A q \in 0 .. L : b[q] = base[q]
  <2>1. b = [q \in 0 .. L + 1 |-> IF q = L + 1 THEN S - 1 ELSE base[q]]
    BY DEF BaseAfter
  <2> HIDE DEF S, L
  <2> QED BY <1>2, <1>3, <1>12, <2>1
<1>14. J \in Nat /\ \A q \in 0 .. L : \A j \in DOMAIN Pushes[q] : j \in Nat
  <2>1. \A q \in 0 .. L : DOMAIN Pushes[q] = 1 .. Len(Pushes[q]) /\ Len(Pushes[q]) \in Nat
    BY PushedPlaces
  <2> QED BY <1>8, <2>1
<1>15. pl \in [1 .. L + 1 -> Nat] /\ pl[L + 1] = J /\ \A n \in 1 .. L : pl[n] = place[n]
  <2>1. pl = [n \in 1 .. L + 1 |-> IF n = L + 1 THEN J ELSE place[n]]
    BY DEF PlaceAfter
  <2> HIDE DEF L, J
  <2> QED BY <1>3, <1>12, <1>14, <2>1
<1>16. ElementValues' = ElementValues /\ Sources' = Sources
  BY <1>1, SameSources
<1>17. S = base[p] + J /\ v \in ElementValues
  <2>1. v \in Values
    BY <1>1, TopWaits DEF Waiting
  <2> QED BY <1>1, <1>2, <1>8, <2>1 DEF ElementValues
<1>18. \A n \in 1 .. L : nodes[n].parent \in 0 .. L
  <2>1. \A n \in DOMAIN nodes : nodes[n].parent \in 0 .. n - 1
    BY Numbers
  <2> QED BY <1>3, <2>1
<1>19. stack[S].parent = p
  BY <1>1, StackTop
<1> HIDE DEF S, L, p, J, v, s, N
<1>20. ASSUME NEW q \in 0 .. L, NEW j, j \in Nat, Waits(b, q, j)'
       PROVE  Waits(base, q, j) /\ base[q] + j <= S - 1
  <2>1. base[q] + j \in 1 .. (S - 1) + N /\ stack'[base[q] + j].parent = q
    BY <1>4, <1>13, <1>20 DEF Waits
  <2>2. base[q] + j \in 1 .. S - 1
    <3> SUFFICES ASSUME base[q] + j >= S PROVE FALSE
      BY <1>2, <1>12, <2>1
    <3>1. (base[q] + j) - (S - 1) \in 1 .. N /\ (S - 1) + ((base[q] + j) - (S - 1)) = base[q] + j
      BY <1>2, <1>4, <1>12, <2>1
    <3>2. stack'[base[q] + j].parent = L + 1
      BY <1>4, <3>1
    <3> QED BY <1>3, <2>1, <3>2
  <2> QED BY <1>2, <1>4, <2>1, <2>2 DEF Waits
<1>21. ASSUME NEW q \in 0 .. L, NEW j, j \in Nat, Waits(base, q, j), ~Waits(b, q, j)'
       PROVE  q = p /\ j = J
  <2>1. base[q] + j \in 1 .. S /\ stack[base[q] + j].parent = q
    BY <1>2, <1>21 DEF Waits
  <2>2. CASE base[q] + j \in 1 .. S - 1
    <3>1. base[q] + j \in 1 .. (S - 1) + N /\ stack'[base[q] + j].parent = q
      BY <1>2, <1>4, <2>1, <2>2
    <3> QED BY <1>4, <1>13, <1>21, <3>1 DEF Waits
  <2>3. CASE base[q] + j = S
    <3>1. q = p
      BY <1>19, <2>1, <2>3
    <3>2. base[p] + j = base[p] + J
      BY <1>17, <2>3, <3>1
    <3>3. base[p] \in Nat /\ J \in Nat
      BY <1>8, <1>14
    <3>4. j = J
      BY ONLY <3>2, <3>3, j \in Nat
    <3> QED BY <3>1, <3>4
  <2> QED BY <1>2, <2>1, <2>2, <2>3
<1>22. StackFits(b)'
  <2>1. ASSUME NEW k \in 1 .. (S - 1) + N, NEW q, q = stack'[k].parent
        PROVE  /\ q \in 0 .. L + 1 /\ k - b[q] \in DOMAIN Pushes'[q]
               /\ stack'[k].value = Pushes'[q][k - b[q]]
               /\ \A j \in b[q] + 1 .. k : stack'[j].parent = q
    <3>1. CASE k \in 1 .. S - 1
      <4>1. k \in DOMAIN stack /\ stack'[k] = stack[k]
        BY <1>2, <1>4, <3>1
      <4>2. /\ q \in 0 .. L /\ k - base[q] \in DOMAIN Pushes[q]
            /\ stack[k].value = Pushes[q][k - base[q]]
            /\ \A j \in base[q] + 1 .. k : stack[j].parent = q
        BY <1>11, <2>1, <4>1 DEF StackFits, L
      <4>3. b[q] = base[q] /\ base[q] \in Nat /\ q \in 0 .. L + 1
        BY <1>3, <1>12, <1>13, <4>2
      <4>4. \A j \in base[q] + 1 .. k : j \in 1 .. S - 1
        BY <1>2, <3>1, <4>3
      <4>5. \A j \in base[q] + 1 .. k : stack'[j].parent = q
        BY <1>4, <4>2, <4>4
      <4>6. Pushes'[q] = Pushes[q]
        BY <1>9, <4>2
      <4> QED BY <4>1, <4>2, <4>3, <4>5, <4>6
    <3>2. CASE k >= S
      <4>1. k - (S - 1) \in 1 .. N /\ (S - 1) + (k - (S - 1)) = k
        BY <1>2, <1>4, <3>2
      <4>2. q = L + 1 /\ stack'[k].value = s[k - (S - 1)]
        BY <1>4, <2>1, <4>1
      <4>3. b[q] = S - 1 /\ q \in 0 .. L + 1
        BY <1>3, <1>13, <4>2
      <4>4. ASSUME NEW j \in b[q] + 1 .. k PROVE stack'[j].parent = q
        <5>1. j \in S .. k /\ k - (S - 1) \in 1 .. N /\ S \in Nat
          BY ONLY <1>2, <4>1, <4>3, j \in b[q] + 1 .. k
        <5>2. j - (S - 1) \in 1 .. N /\ (S - 1) + (j - (S - 1)) = j
          BY ONLY <1>4, <5>1, k \in 1 .. (S - 1) + N
        <5> QED BY <1>4, <4>2, <5>2
      <4> QED BY <1>10, <4>1, <4>2, <4>3, <4>4
    <3> QED BY <1>2, <3>1, <3>2
  <2>2. ASSUME NEW k \in DOMAIN stack'
        PROVE  /\ stack'[k].parent \in 0 .. Len(nodes')
               /\ k - b[stack'[k].parent] \in DOMAIN Pushes'[stack'[k].parent]
               /\ stack'[k].value = Pushes'[stack'[k].parent][k - b[stack'[k].parent]]
               /\ \A j \in b[stack'[k].parent] + 1 .. k : stack'[j].parent = stack'[k].parent
    BY <1>3, <1>4, <2>1
  <2>3. b \in [0 .. Len(nodes') -> Nat]
    BY <1>3, <1>13
  <2> QED BY <2>2, <2>3 DEF StackFits
<1>23. PlacesFit(b, pl)'
  <2>1. ASSUME NEW n \in 1 .. L PROVE NodeStood(b, pl, n)'
    <3>1. NodeStood(base, place, n)
      BY <1>3, <1>11 DEF PlacesFit
    <3> DEFINE q == nodes[n].parent
    <3>2. q \in 0 .. L /\ nodes'[n].parent = q /\ nodes'[n].dict = nodes[n].dict /\ nodes'[n].key = nodes[n].key
      BY <1>3, <1>18
    <3> DEFINE t == Pushes[q]
    <3>3. /\ place[n] \in DOMAIN t /\ t[place[n]] \in ElementValues /\ t[place[n]][2] = nodes[n].dict
          /\ nodes[n].key = KeyOf(t[place[n]])
          /\ \A j \in DOMAIN t : Waits(base, q, j) => j < place[n]
          /\ \A j \in DOMAIN t : j > place[n] /\ t[j] \in ElementValues => t[j][2] # nodes[n].dict
      BY <3>1 DEF NodeStood
    <3>4. Pushes'[q] = t
      BY <1>9, <3>2
    <3>5. \A j \in DOMAIN t : j \in Nat
      BY <1>14, <3>2
    <3>6. pl[n] = place[n]
      BY <1>15
    <3> HIDE DEF q, t
    <3>7. ASSUME NEW j \in DOMAIN t, NEW r, r = q, Waits(b, r, j)' PROVE j < place[n]
      <4>1. j \in Nat /\ r \in 0 .. L
        BY <3>2, <3>5, <3>7
      <4>2. Waits(base, r, j)
        BY <1>20, <3>7, <4>1
      <4> QED BY <3>3, <3>7, <4>2
    <3>8. \A j \in DOMAIN t :
            b[q] + j \in DOMAIN stack' /\ stack'[b[q] + j].parent = q => j < place[n]
      BY <3>7 DEF Waits
    <3> QED BY <1>16, <3>2, <3>3, <3>4, <3>6, <3>8 DEF NodeStood, Waits
  <2>2. ASSUME NEW n, n = L + 1 PROVE NodeStood(b, pl, n)'
    <3>1. /\ nodes'[n].parent = p /\ nodes'[n].dict = v[2] /\ nodes'[n].key = KeyOf(v)
          /\ pl[n] = J /\ Pushes'[p] = Pushes[p] /\ ElementValues' = ElementValues
      BY <1>3, <1>8, <1>9, <1>15, <1>16, <2>2
    <3>2. ASSUME NEW j \in DOMAIN Pushes[p], NEW r, r = p, Waits(b, r, j)' PROVE j < J
      <4>1. j \in Nat /\ r \in 0 .. L
        BY <1>8, <1>14, <3>2
      <4>2. Waits(base, r, j) /\ base[p] + j <= S - 1
        BY <1>20, <3>2, <4>1
      <4>3. base[p] + j < base[p] + J
        BY ONLY <1>2, <1>8, <1>17, <4>1, <4>2
      <4> QED BY ONLY <1>8, <1>14, <4>1, <4>3
    <3>3. \A j \in DOMAIN Pushes[p] :
            b[p] + j \in DOMAIN stack' /\ stack'[b[p] + j].parent = p => j < J
      BY <3>2 DEF Waits
    <3> QED BY <1>7, <1>8, <1>17, <3>1, <3>3 DEF NodeStood, Waits
  <2>3. ASSUME NEW m \in 1 .. L + 1, NEW n \in 1 .. L + 1, m < n, nodes'[m].parent = nodes'[n].parent
        PROVE  pl[n] < pl[m]
    <3>1. m \in 1 .. L /\ pl[m] = place[m] /\ nodes'[m].parent = nodes[m].parent
      BY <1>3, <1>15, <2>3
    <3>2. CASE n \in 1 .. L
      <4>1. place[n] < place[m]
        BY <1>3, <1>11, <2>3, <3>1, <3>2 DEF PlacesFit
      <4> QED BY <1>15, <3>1, <3>2, <4>1
    <3>3. CASE n = L + 1
      <4>1. nodes[m].parent = p /\ pl[n] = J
        BY <1>3, <1>15, <2>3, <3>1, <3>3
      <4>2. NodeStood(base, place, m)
        BY <1>3, <1>11, <3>1 DEF PlacesFit
      <4>3. J < place[m]
        BY <1>8, <4>1, <4>2 DEF NodeStood
      <4> QED BY <3>1, <4>1, <4>3
    <3> QED BY <1>3, <3>2, <3>3
  <2>4. \A n \in 1 .. L + 1 : n \in 1 .. L \/ n = L + 1
    BY <1>3
  <2>5. ASSUME NEW n \in 1 .. L + 1 PROVE NodeStood(b, pl, n)'
    BY <2>1, <2>2, <2>4
  <2> QED BY <1>3, <1>15, <2>3, <2>5 DEF PlacesFit
<1>24. GoneFits(b, pl)'
  <2>1. ASSUME NEW q, NEW j, IsGone(place, q, j), q \in 0 .. L
        PROVE  \/ \E n \in 1 .. L + 1 : nodes'[n].parent = q /\ pl[n] = j
               \/ /\ Pushes[q][j][1] = "ref" /\ "cycle" \in warnings'
                  /\ \E n \in 1 .. L + 1 : nodes'[n].key = Pushes[q][j][2]
    <3>1. \A n \in 1 .. L :
            /\ n \in 1 .. L + 1 /\ nodes'[n].parent = nodes[n].parent /\ pl[n] = place[n]
            /\ nodes'[n].key = nodes[n].key
      BY <1>3, <1>15
    <3> QED BY <1>1, <1>3, <2>1, <3>1 DEF IsGone
  <2>2. ASSUME NEW q \in 0 .. L, NEW j \in DOMAIN Pushes[q],
               Pushes[q][j] \in ElementValues, ~Waits(b, q, j)'
        PROVE  \/ \E n \in 1 .. L + 1 : nodes'[n].parent = q /\ pl[n] = j
               \/ /\ Pushes[q][j][1] = "ref" /\ "cycle" \in warnings'
                  /\ \E n \in 1 .. L + 1 : nodes'[n].key = Pushes[q][j][2]
    <3>1. CASE ~Waits(base, q, j)
      <4>1. IsGone(place, q, j)
        BY <1>1, <1>11, <2>2, <3>1 DEF GoneFits, L
      <4> QED BY <2>1, <4>1
    <3>2. CASE Waits(base, q, j)
      <4>1. q = p /\ j = J
        BY <1>14, <1>21, <2>2, <3>2
      <4> QED BY <1>3, <1>15, <4>1
    <3> QED BY <3>1, <3>2
  <2>3. ASSUME NEW q, q = L + 1, NEW j \in 1 .. N PROVE Waits(b, q, j)'
    <3>1. b[q] + j = (S - 1) + j /\ (S - 1) + j \in 1 .. (S - 1) + N
      BY <1>2, <1>4, <1>13, <2>3
    <3> QED BY <1>4, <2>3, <3>1 DEF Waits
  <2>4. ASSUME NEW name \in visited', name \in DOMAIN doc.dict, doc.dict[name].is = "elem"
        PROVE  \E n \in 1 .. L + 1 : nodes'[n].key = name
    <3>1. CASE name \in visited
      <4>1. PICK n \in 1 .. L : nodes[n].key = name
        BY <1>1, <1>3, <1>11, <2>4, <3>1 DEF GoneFits
      <4> QED BY <1>3, <4>1
    <3>2. CASE name = KeyOf(v)
      BY <1>3, <3>2
    <3> QED BY <1>1, <2>4, <3>1, <3>2
  <2>5. ASSUME NEW q \in 0 .. Len(nodes'), NEW j \in DOMAIN Pushes'[q],
               Pushes'[q][j] \in ElementValues, ~Waits(b, q, j)'
        PROVE  IsGone(pl, q, j)'
    <3>1. CASE q \in 0 .. L
      <4>1. \/ \E n \in 1 .. L + 1 : nodes'[n].parent = q /\ pl[n] = j
            \/ /\ Pushes[q][j][1] = "ref" /\ "cycle" \in warnings'
               /\ \E n \in 1 .. L + 1 : nodes'[n].key = Pushes[q][j][2]
        BY <1>9, <2>2, <2>5, <3>1
      <4> QED BY <1>3, <1>9, <3>1, <4>1 DEF IsGone
    <3>2. CASE q = L + 1
      <4>1. j \in 1 .. N
        BY <1>10, <2>5, <3>2
      <4> QED BY <2>3, <2>5, <3>2, <4>1
    <3> QED BY <1>3, <3>1, <3>2
  <2> QED BY <1>1, <1>3, <1>16, <2>4, <2>5 DEF GoneFits
<1>25. DictsKnown'
  BY <1>1, <1>3, <1>5 DEF DictsKnown
<1>26. DictsOnce'
  <2> SUFFICES ASSUME NEW m \in 1 .. L + 1, NEW n \in 1 .. L + 1, m # n
               PROVE  nodes'[m].dict # nodes'[n].dict
    BY <1>3 DEF DictsOnce
  <2>1. CASE m \in 1 .. L /\ n \in 1 .. L
    BY <1>3, <2>1 DEF DictsOnce
  <2>2. CASE m = L + 1 /\ n \in 1 .. L
    BY <1>3, <1>6, <2>2
  <2>3. CASE m \in 1 .. L /\ n = L + 1
    BY <1>3, <1>6, <2>3
  <2> QED BY <1>3, <2>1, <2>2, <2>3
<1> QED
  BY <1>22, <1>23, <1>24, <1>25, <1>26 DEF Fits

\* Before the walk, and when the root's array is on the stack.
Fresh == nodes = <<>> /\ visited = {} /\ ~truncated
Unopened ==
  /\ phase = "tree" /\ doc.k[1] = "array"
  /\ stack = <<[value |-> doc.k, parent |-> 0, page |-> None, depth |-> 0]>>
OrderInv ==
  /\ phase \in {"ids", "parents"} => Fresh /\ stack = <<>>
  /\ phase \in {"content", "objects", "done"} => stack = <<>>
  /\ PlainRoot /\ phase \notin {"ids", "parents"} =>
       \/ Fresh /\ Unopened
       \/ DictsKnown /\ DictsOnce /\ \E base, place : Fits(base, place)

\* The kids of the root are on the stack.
LEMMA StartFits ==
  ASSUME doc \in Documents, doc' = doc, nodes' = <<>>, visited' = {},
         DOMAIN stack' = 1 .. Len(KidsOf(doc)),
         \A k \in 1 .. Len(KidsOf(doc)) : stack'[k].value = KidsOf(doc)[k] /\ stack'[k].parent = 0
  PROVE  DictsKnown' /\ DictsOnce' /\ \E base, place : Fits(base, place)'
<1> DEFINE s == KidsOf(doc)
           n == Len(s)
<1>1. n \in Nat /\ DOMAIN s = 1 .. n
  <2>1. s \in Seq(Values)
    BY KidsAreValues, DocumentShape
  <2> HIDE DEF s
  <2> QED BY <2>1
<1>2. Len(nodes') = 0 /\ DOMAIN nodes' = {} /\ 0 .. 0 = {0}
  OBVIOUS
<1>3. Pushes'[0] = s
  <2>1. Sources' = Sources
    BY SameSources
  <2>2. Sources[None] = s
    BY DEF Sources, Owning, Source
  <2> HIDE DEF s
  <2> QED BY <1>2, <2>1, <2>2 DEF Pushes, DictOf
<1>4. /\ DOMAIN stack' = 1 .. n
      /\ \A k \in 1 .. n : stack'[k].value = s[k] /\ stack'[k].parent = 0
  OBVIOUS
<1> HIDE DEF s, n
<1> DEFINE base == [q \in {0} |-> 0]
           place == [m \in {} |-> 0]
<1>5. base \in [{0} -> Nat] /\ base[0] = 0 /\ place \in [{} -> Nat]
  OBVIOUS
<1> HIDE DEF base, place
<1>6. StackFits(base)'
  <2>1. ASSUME NEW k \in 1 .. n
        PROVE  /\ stack'[k].parent = 0 /\ k - base[0] = k /\ k \in DOMAIN Pushes'[0]
               /\ stack'[k].value = Pushes'[0][k]
               /\ \A j \in base[0] + 1 .. k : stack'[j].parent = 0
    BY <1>1, <1>3, <1>4, <1>5
  <2>2. ASSUME NEW k \in DOMAIN stack'
        PROVE  /\ stack'[k].parent \in 0 .. Len(nodes')
               /\ k - base[stack'[k].parent] \in DOMAIN Pushes'[stack'[k].parent]
               /\ stack'[k].value = Pushes'[stack'[k].parent][k - base[stack'[k].parent]]
               /\ \A j \in base[stack'[k].parent] + 1 .. k : stack'[j].parent = stack'[k].parent
    <3>1. k \in 1 .. n
      BY <1>4
    <3>2. stack'[k].parent = 0 /\ 0 \in 0 .. Len(nodes')
      BY <1>2, <2>1, <3>1
    <3>3. /\ k - base[0] \in DOMAIN Pushes'[0] /\ stack'[k].value = Pushes'[0][k - base[0]]
          /\ \A j \in base[0] + 1 .. k : stack'[j].parent = 0
      BY <2>1, <3>1
    <3> QED BY ONLY <3>2, <3>3
  <2>3. base \in [0 .. Len(nodes') -> Nat]
    BY <1>2, <1>5
  <2> QED BY <2>2, <2>3 DEF StackFits
<1>7. PlacesFit(base, place)'
  BY <1>2, <1>5 DEF PlacesFit
<1>8. GoneFits(base, place)'
  <2>1. ASSUME NEW j \in DOMAIN Pushes'[0] PROVE Waits(base, 0, j)'
    <3>1. j \in 1 .. n /\ base[0] + j = j
      BY <1>1, <1>3, <1>5
    <3> QED BY <1>4, <3>1 DEF Waits
  <2> QED BY <1>2, <2>1 DEF GoneFits
<1>9. DictsKnown' /\ DictsOnce'
  BY <1>2 DEF DictsKnown, DictsOnce
<1> QED
  BY <1>6, <1>7, <1>8, <1>9 DEF Fits

\* Nothing happens to the nodes, and the stack stays or is dropped when the tree was
\* cut off.
LEMMA StayFits ==
  ASSUME NEW base, NEW place, Fits(base, place), UNCHANGED <<doc, nodes, visited, truncated>>,
         warnings \subseteq warnings', stack' = stack \/ (truncated /\ stack' = <<>>)
  PROVE  Fits(base, place)'
<1>1. Sources' = Sources /\ ElementValues' = ElementValues
  BY SameSources
<1>2. Pushes' = Pushes
  BY <1>1 DEF Pushes, DictOf
<1>3. StackFits(base) /\ PlacesFit(base, place) /\ GoneFits(base, place)
  BY DEF Fits
<1>4. CASE stack' = stack
  <2>1. StackFits(base)' /\ PlacesFit(base, place)'
    BY <1>1, <1>2, <1>3, <1>4 DEF StackFits, PlacesFit, NodeStood, Waits
  <2>2. GoneFits(base, place)'
    BY <1>1, <1>2, <1>3, <1>4 DEF GoneFits, IsGone, Waits
  <2> QED BY <2>1, <2>2 DEF Fits
<1>5. CASE truncated /\ stack' = <<>>
  <2>1. StackFits(base)'
    BY <1>3, <1>5 DEF StackFits
  <2>2. PlacesFit(base, place)'
    BY <1>1, <1>2, <1>3, <1>5 DEF PlacesFit, NodeStood, Waits
  <2>3. GoneFits(base, place)'
    BY <1>5 DEF GoneFits
  <2> QED BY <2>1, <2>2, <2>3 DEF Fits
<1> QED
  BY <1>4, <1>5

\* The root's array is opened.
LEMMA OpenRoot ==
  ASSUME TreeInv, Fresh, Unopened, OpenArray
  PROVE  DictsKnown' /\ DictsOnce' /\ \E base, place : Fits(base, place)'
<1>1. doc' = doc /\ UNCHANGED <<nodes, visited>>
  BY DEF OpenArray, TreeOnly
<1>2. Len(stack) = 1 /\ Top = stack[1] /\ Top.value = doc.k /\ Top.parent = 0
  BY DEF Unopened, Top, Last
<1>3. KidsOf(doc) = Reverse(Top.value[2])
  <2>1. doc.k # NoValue
    BY DEF Unopened, NoValue
  <2> QED BY <1>2, <2>1 DEF KidsOf, Unopened
<1> DEFINE r == Reverse(Top.value[2])
<1>4. /\ Len(r) \in Nat /\ DOMAIN stack' = 1 .. 0 + Len(r)
      /\ \A i \in 1 .. Len(r) : stack'[0 + i].value = r[i] /\ stack'[0 + i].parent = 0
  BY <1>2, OpenParts
<1> HIDE DEF r
<1>5. /\ DOMAIN stack' = 1 .. Len(r)
      /\ \A i \in 1 .. Len(r) : stack'[i].value = r[i] /\ stack'[i].parent = 0
  <2>1. 0 + Len(r) = Len(r) /\ \A i \in 1 .. Len(r) : 0 + i = i
    BY <1>4
  <2>2. ASSUME NEW i \in 1 .. Len(r) PROVE stack'[i].value = r[i] /\ stack'[i].parent = 0
    <3>1. stack'[0 + i].value = r[i] /\ stack'[0 + i].parent = 0 /\ 0 + i = i
      BY <1>4, <2>1
    <3> QED BY ONLY <3>1
  <2> QED BY <1>4, <2>1, <2>2
<1> QED
  BY <1>1, <1>3, <1>5, StartFits DEF r, TreeInv, Fresh

\* No other array is opened.
LEMMA NoOtherArray ==
  ASSUME TreeInv, PlainRoot, DictsKnown, Turn, NEW base, NEW place, Fits(base, place)
  PROVE  Top.value[1] # "array"
<1> DEFINE p == Top.parent
           J == Len(stack) - base[Top.parent]
<1>1. p \in 0 .. Len(nodes) /\ J \in DOMAIN Pushes[p] /\ Top.value = Pushes[p][J]
  BY TopPlace DEF Fits
<1> HIDE DEF p, J
<1>2. CASE p = 0
  <2>1. PICK h : SourceFits(DictOf(p), h)
    BY <1>1, PushedPlaces
  <2>2. DictOf(p) = None /\ Pushes[p] = Source(DictOf(p))
    BY <1>1, <1>2, PushedPlaces
  <2>3. h[J] \in DOMAIN Written(doc, None) /\ Top.value = Written(doc, None)[h[J]]
    BY <1>1, <2>1, <2>2 DEF SourceFits
  <2> QED BY <2>3 DEF PlainRoot
<1>3. CASE p # 0
  <2>1. IsElement(Top.value)
    BY <1>1, <1>3, PushedPlaces
  <2> QED BY <2>1, ElementNames
<1> QED
  BY <1>2, <1>3

\* The top is no element, was seen, or is the last that was looked at.
LEMMA SkipFits ==
  ASSUME TreeInv, DictsKnown, NEW base, NEW place, Fits(base, place),
         TooDeep \/ SkipOther \/ SkipSeen \/ TooMany
  PROVE  Fits(base, place)'
<1> DEFINE v == Top.value
<1>1. Turn /\ UNCHANGED <<doc, nodes>> /\ stack' = Front(stack) /\ warnings \subseteq warnings' /\ ~truncated
  BY DEF TooDeep, SkipOther, SkipSeen, TooMany, Skip, InDepth, Turn, TreeOnly
<1>2. CASE TooDeep \/ TooMany
  <2>1. truncated'
    BY <1>2 DEF TooDeep, TooMany
  <2> QED BY <1>1, <2>1, PopFits
<1>3. CASE SkipOther
  <2>1. ~IsElement(v)
    BY <1>3 DEF SkipOther, IsElement
  <2>2. ASSUME NEW name \in visited' \ visited
        PROVE  ~(name \in DOMAIN doc.dict /\ doc.dict[name].is = "elem")
    <3>1. structure_dictionary(v) /\ KeyOf(v) # None /\ name = KeyOf(v)
      BY <1>3 DEF SkipOther, IsNew, Note
    <3>2. name = v[2]
      BY <3>1 DEF KeyOf
    <3> QED BY <2>1, <3>1, <3>2 DEF IsElement, Dict
  <2> QED BY <1>1, <2>1, <2>2, PopFits
<1>4. CASE SkipSeen
  <2>1. "cycle" \in warnings' /\ visited' = visited
    BY <1>4 DEF SkipSeen, Skip
  <2>2. ASSUME IsElement(v) PROVE v[1] = "ref" /\ \E n \in DOMAIN nodes : nodes[n].key = v[2]
    <3>1. KeyOf(v) # None /\ KeyOf(v) \in visited
      BY <1>4 DEF SkipSeen, Seen
    <3>2. v[1] = "ref" /\ KeyOf(v) = v[2]
      BY <3>1 DEF KeyOf
    <3>3. v[2] \in DOMAIN doc.dict /\ doc.dict[v[2]].is = "elem"
      BY <2>2, ElementNames
    <3> QED BY <1>1, <3>1, <3>2, <3>3 DEF Fits, GoneFits
  <2> QED BY <1>1, <2>1, <2>2, PopFits
<1> QED
  BY <1>2, <1>3, <1>4

\* Every step keeps the order.
LEMMA NextOrder ==
  ASSUME TreeInv, OrderInv, [Next]_structure_vars
  PROVE  OrderInv'
<1> DEFINE Good == DictsKnown /\ DictsOnce /\ \E base, place : Fits(base, place)
<1>1. CASE Turn /\ (TooDeep \/ OpenArray \/ SkipOther \/ SkipSeen \/ TooMany \/ VisitElement)
  <2>1. phase = "tree" /\ phase' = phase /\ doc' = doc
    BY <1>1 DEF Turn, TooDeep, OpenArray, SkipOther, SkipSeen, TooMany, VisitElement, TreeOnly
  <2>2. PlainRoot' = PlainRoot
    BY <2>1, SameDocument
  <2>3. SUFFICES ASSUME PlainRoot PROVE Good'
    BY <2>1, <2>2 DEF OrderInv
  <2>4. CASE Fresh /\ Unopened
    <3>1. Top.value = doc.k /\ Top.depth = 0 /\ doc.k[1] = "array"
      BY <2>4 DEF Unopened, Top, Last
    <3>2. ~TooDeep
      <4>1. ~(Top.depth > MaxDepth)
        BY <3>1, StructureBounds
      <4> QED BY <4>1 DEF TooDeep
    <3>3. ~structure_dictionary(Top.value)
      BY <3>1 DEF structure_dictionary, IsDict
    <3>4. OpenArray
      BY <1>1, <3>1, <3>2, <3>3 DEF SkipOther, SkipSeen, TooMany, VisitElement, IsNew
    <3> QED BY <2>4, <3>4, OpenRoot
  <2>5. CASE Good
    <3>1. PICK base, place : Fits(base, place)
      BY <2>5
    <3>2. CASE OpenArray
      BY <1>1, <2>3, <2>5, <3>1, <3>2, NoOtherArray DEF OpenArray
    <3>3. CASE VisitElement
      <4>1. PICK b, pl : b = BaseAfter(base) /\ pl = PlaceAfter(base, place)
        OBVIOUS
      <4>2. Fits(b, pl)' /\ DictsKnown' /\ DictsOnce'
        BY <2>5, <3>1, <3>3, <4>1, VisitFits
      <4> QED BY <4>2
    <3>4. CASE TooDeep \/ SkipOther \/ SkipSeen \/ TooMany
      <4>1. Fits(base, place)'
        BY <2>5, <3>1, <3>4, SkipFits
      <4>2. nodes' = nodes
        BY <3>4 DEF TooDeep, SkipOther, SkipSeen, TooMany, Skip
      <4> QED BY <2>1, <2>5, <4>1, <4>2 DEF DictsKnown, DictsOnce
    <3> QED BY <1>1, <3>2, <3>3, <3>4
  <2> QED BY <2>1, <2>3, <2>4, <2>5 DEF OrderInv
<1>2. CASE ParentTreeRead
  <2>1. /\ phase = "parents" /\ phase' = "tree" /\ UNCHANGED <<doc, nodes, visited, truncated>>
        /\ stack' = IF doc.k = NoValue THEN <<>>
                    ELSE <<[value |-> doc.k, parent |-> 0, page |-> None, depth |-> 0]>>
    BY <1>2 DEF ParentTreeRead
  <2>2. Fresh'
    BY <2>1 DEF OrderInv, Fresh
  <2>3. CASE doc.k # NoValue /\ doc.k[1] = "array"
    BY <2>1, <2>2, <2>3 DEF OrderInv, Unopened
  <2>4. CASE doc.k = NoValue \/ doc.k[1] # "array"
    <3> DEFINE s == KidsOf(doc)
    <3>1. DOMAIN stack' = 1 .. Len(s) /\ \A k \in 1 .. Len(s) : stack'[k].value = s[k] /\ stack'[k].parent = 0
      <4>1. CASE doc.k = NoValue
        <5>1. s = <<>> /\ stack' = <<>>
          BY <2>1, <4>1 DEF KidsOf, NoValue
        <5> HIDE DEF s
        <5> QED BY <5>1
      <4>2. CASE doc.k # NoValue
        <5>1. s = <<doc.k>> /\ stack' = <<[value |-> doc.k, parent |-> 0, page |-> None, depth |-> 0]>>
          BY <2>1, <2>4, <4>2 DEF KidsOf
        <5> HIDE DEF s
        <5>2. Len(s) = 1 /\ s[1] = doc.k /\ DOMAIN stack' = 1 .. 1
          BY <5>1
        <5> QED BY <5>1, <5>2
      <4> QED BY <4>1, <4>2
    <3>2. Good'
      BY <2>1, <2>2, <3>1, StartFits DEF TreeInv, Fresh
    <3> QED BY <2>1, <3>2 DEF OrderInv
  <2> QED BY <2>3, <2>4
<1>3. CASE WalkTree \/ IdTreeRead
  <2>1. /\ phase \in {"ids", "parents"} /\ phase' \in {"ids", "parents"}
        /\ UNCHANGED <<stack, nodes, visited, truncated>>
    BY <1>3 DEF WalkTree, IdTreeRead
  <2> QED BY <2>1 DEF OrderInv, Fresh
<1>4. CASE UNCHANGED structure_vars \/ Built
  <2>1. UNCHANGED structure_vars
    BY <1>4 DEF Built
  <2>2. UNCHANGED <<doc, phase, stack, visited, nodes, truncated, warnings>>
    BY <2>1 DEF structure_vars
  <2>3. PlainRoot' = PlainRoot
    BY <2>2, SameDocument
  <2>4. Fresh' = Fresh /\ Unopened' = Unopened /\ DictsKnown' = DictsKnown /\ DictsOnce' = DictsOnce
    BY <2>2 DEF Fresh, Unopened, DictsKnown, DictsOnce
  <2>5. ASSUME NEW base, NEW place, Fits(base, place) PROVE Fits(base, place)'
    BY <2>2, <2>5, StayFits
  <2> QED BY <2>2, <2>3, <2>4, <2>5 DEF OrderInv
<1>5. CASE TreeRead \/ AssociatePage \/ ContentRead \/ AssociateObjects
  <2>1. /\ phase \in {"tree", "content", "objects"} /\ phase' \in {"content", "objects", "done"}
        /\ UNCHANGED <<doc, visited, nodes, truncated>>
        /\ \/ stack' = stack /\ phase # "tree"
           \/ stack' = <<>> /\ phase = "tree" /\ (stack = <<>> \/ truncated)
    BY <1>5 DEF TreeRead, AssociatePage, ContentRead, AssociateObjects
  <2>2. warnings \subseteq warnings'
    <3>1. TreeRead \/ ContentRead => warnings' = warnings
      BY DEF TreeRead, ContentRead
    <3>2. AssociatePage => warnings \subseteq warnings'
      BY DEF AssociatePage
    <3>3. AssociateObjects => warnings \subseteq warnings'
      BY DEF AssociateObjects
    <3> QED BY <1>5, <3>1, <3>2, <3>3
  <2>3. PlainRoot' = PlainRoot
    BY <2>1, SameDocument
  <2>4. stack' = <<>> /\ phase' \notin {"ids", "parents"} /\ phase \notin {"ids", "parents"}
    BY <2>1 DEF OrderInv
  <2> SUFFICES ASSUME PlainRoot PROVE Good'
    BY <2>1, <2>3, <2>4 DEF OrderInv
  <2>5. ~(Fresh /\ Unopened)
    <3> SUFFICES ASSUME Fresh, Unopened PROVE FALSE
      OBVIOUS
    <3>1. stack # <<>> /\ ~truncated /\ phase = "tree"
      BY DEF Fresh, Unopened
    <3> QED BY <2>1, <3>1
  <2>6. Good
    BY <2>4, <2>5 DEF OrderInv
  <2>7. PICK base, place : Fits(base, place)
    BY <2>6
  <2>8. Fits(base, place)'
    BY <2>1, <2>2, <2>7, StayFits
  <2> QED BY <2>1, <2>6, <2>8 DEF DictsKnown, DictsOnce
<1>6. TooDeep \/ OpenArray \/ SkipOther \/ SkipSeen \/ TooMany \/ VisitElement => Turn
  BY DEF TooDeep, OpenArray, SkipOther, SkipSeen, TooMany, VisitElement, InDepth
<1> QED
  BY <1>1, <1>2, <1>3, <1>4, <1>5, <1>6 DEF Next

\* The first place of a node among the kids of its parent is where it stood.
LEMMA StoodFirst ==
  ASSUME TreeInv, DictsKnown, NEW base, NEW place, Fits(base, place), NEW n \in DOMAIN nodes,
         NEW h, SourceFits(DictOf(nodes[n].parent), h)
  PROVE  /\ StandsAt(n, FirstPlace(n)) /\ FirstPlace(n) = h[place[n]]
         /\ nodes[n].parent \in 0 .. Len(nodes) /\ place[n] \in DOMAIN Source(DictOf(nodes[n].parent))
<1> DEFINE q == nodes[n].parent
           e == DictOf(q)
           w == Written(doc, e)
           x == place[n]
           s == Source(e)
<1>1. q \in 0 .. Len(nodes)
  <2>1. q \in 0 .. n - 1 /\ n \in 1 .. Len(nodes) /\ Len(nodes) \in Nat
    BY Numbers
  <2> HIDE DEF q
  <2> QED BY <2>1
<1>2. /\ e \in Owning /\ Pushes[q] = s /\ s \in Seq(Values) /\ DOMAIN s = 1 .. Len(s) /\ Len(s) \in Nat
  BY <1>1, PushedPlaces
<1>3. /\ x \in DOMAIN s /\ IsElement(s[x]) /\ s[x][2] = nodes[n].dict
      /\ \A j \in DOMAIN s : j > x /\ s[j] \in ElementValues => s[j][2] # nodes[n].dict
  BY <1>2 DEF Fits, PlacesFit, NodeStood, ElementValues
<1>4. w \in Seq(Values) /\ DOMAIN w = 1 .. Len(w) /\ Len(w) \in Nat
  <2>1. w \in Seq(Values)
    BY <1>2, SourcePlaces DEF TreeInv
  <2> HIDE DEF w
  <2> QED BY <2>1
<1>5. /\ h \in [DOMAIN s -> DOMAIN w]
      /\ \A i, j \in DOMAIN s : i < j => h[j] < h[i]
      /\ \A j \in DOMAIN s : s[j] = w[h[j]]
      /\ \A i \in DOMAIN w : IsPlace(e, i) => \E j \in DOMAIN s : h[j] = i
  BY DEF SourceFits
<1> HIDE DEF s, x, w, e, q
<1>6. \A i : StandsAt(n, i) <=> IsPlace(e, i) /\ w[i][2] = nodes[n].dict
  BY DEF StandsAt, e, q, w
<1>7. \A i : IsPlace(e, i) <=> i \in DOMAIN w /\ IsElement(w[i])
  BY DEF IsPlace, w
<1>8. h[x] \in DOMAIN w /\ StandsAt(n, h[x])
  BY <1>3, <1>5, <1>6, <1>7
<1>9. ASSUME NEW i \in DOMAIN w, StandsAt(n, i) PROVE h[x] <= i
  <2>1. PICK j \in DOMAIN s : h[j] = i
    BY <1>5, <1>6, <1>9
  <2>2. s[j] \in ElementValues /\ s[j][2] = nodes[n].dict
    <3>1. s[j] = w[i] /\ s[j] \in Values
      BY <1>2, <1>5, <2>1
    <3> QED BY <1>6, <1>7, <1>9, <3>1 DEF ElementValues
  <2>3. ~(j > x)
    BY <1>3, <2>2
  <2>4. h[x] \in Int /\ i \in Int /\ x \in Int /\ j \in Int
    BY <1>2, <1>3, <1>4, <1>8, <2>1
  <2>5. CASE j < x
    <3>1. h[x] < h[j]
      BY <1>3, <1>5, <2>5
    <3> QED BY <2>1, <2>4, <3>1
  <2>6. CASE j = x
    BY <2>1, <2>4, <2>6
  <2> QED BY <2>3, <2>4, <2>5, <2>6
<1> DEFINE f == FirstPlace(n)
           Fst(i) == StandsAt(n, i) /\ \A j \in DOMAIN w : StandsAt(n, j) => i <= j
<1>10. f = CHOOSE i \in DOMAIN w : Fst(i)
  BY DEF FirstPlace, w, e, q
<1>11. f \in DOMAIN w /\ Fst(f)
  <2>1. Fst(h[x])
    BY <1>8, <1>9
  <2> HIDE DEF f, Fst
  <2> QED BY <1>8, <1>10, <2>1
<1>12. f <= h[x] /\ h[x] <= f
  BY <1>8, <1>9, <1>11
<1>13. f = h[x]
  <2> HIDE DEF f
  <2>1. f \in Int /\ h[x] \in Int
    BY <1>4, <1>8, <1>11
  <2> QED BY ONLY <1>12, <2>1
<1> QED
  BY <1>1, <1>3, <1>11, <1>13 DEF q, e, s, x

\* The nodes that fit stand as they are written.
LEMMA FitsInOrder ==
  ASSUME TreeInv, DictsKnown, NEW base, NEW place, Fits(base, place)
  PROVE  SiblingsAsWritten
<1>1. ASSUME NEW n \in DOMAIN nodes PROVE \E h : SourceFits(DictOf(nodes[n].parent), h)
  <2>1. nodes[n].parent \in 0 .. Len(nodes)
    <3>1. nodes[n].parent \in 0 .. n - 1 /\ n \in 1 .. Len(nodes) /\ Len(nodes) \in Nat
      BY Numbers
    <3> QED BY <3>1
  <2> QED BY <2>1, PushedPlaces
<1>2. \A n \in DOMAIN nodes : StandsAt(n, FirstPlace(n))
  BY <1>1, StoodFirst
<1>3. ASSUME NEW m \in DOMAIN nodes, NEW n \in DOMAIN nodes, m < n, nodes[m].parent = nodes[n].parent
      PROVE  FirstPlace(m) < FirstPlace(n)
  <2>1. PICK h : SourceFits(DictOf(nodes[n].parent), h)
    BY <1>1
  <2>2. FirstPlace(n) = h[place[n]] /\ place[n] \in DOMAIN Source(DictOf(nodes[n].parent))
    BY <2>1, StoodFirst
  <2>3. FirstPlace(m) = h[place[m]] /\ place[m] \in DOMAIN Source(DictOf(nodes[n].parent))
    <3>1. SourceFits(DictOf(nodes[m].parent), h)
      BY <1>3, <2>1
    <3>2. FirstPlace(m) = h[place[m]] /\ place[m] \in DOMAIN Source(DictOf(nodes[m].parent))
      BY <3>1, StoodFirst
    <3> QED BY <1>3, <3>2
  <2>4. place[n] < place[m]
    BY <1>3 DEF Fits, PlacesFit
  <2>5. h[place[m]] < h[place[n]]
    BY <2>1, <2>2, <2>3, <2>4 DEF SourceFits
  <2> QED BY <2>2, <2>3, <2>5
<1> QED
  BY <1>2, <1>3 DEF SiblingsAsWritten

\* The beginning, and what follows.
GraphInv == TreeInv /\ CrossInv /\ OrderInv

LEMMA GraphStarts == Init => GraphInv
<1> SUFFICES ASSUME Init PROVE GraphInv
  OBVIOUS
<1>1. /\ doc \in Documents /\ stack = <<>> /\ nodes = <<>> /\ truncated = FALSE /\ visited = {}
      /\ phase = "ids"
  BY DEF Init
<1>2. TreeInv
  BY TreeStarts
<1>3. CrossInv
  BY <1>1 DEF CrossInv, LinesDoNotCross
<1>4. OrderInv
  BY <1>1 DEF OrderInv, Fresh
<1> QED
  BY <1>2, <1>3, <1>4 DEF GraphInv

LEMMA GraphStays == GraphInv /\ [Next]_structure_vars => GraphInv'
BY NextTree, NextCross, NextOrder DEF GraphInv

\* For every document whose root holds its kids plainly, however elements are shared,
\* nested or lead back: the nodes build_accessibility_graph makes stand in document
\* order, each node directly below the element it is written in, in the order of its
\* first place in /K, and no dictionary is two nodes. Parents come first, children agree
\* with parents, and lines do not cross, whatever the root holds.
THEOREM ReadingOrderAlways == Spec => []ReadingOrder
<1>1. GraphInv => ReadingOrder
  <2> SUFFICES ASSUME GraphInv PROVE ReadingOrder
    OBVIOUS
  <2>1. ParentsFirst /\ ChildrenExact /\ LinesDoNotCross
    BY DEF GraphInv, TreeInv, NodesFormTree, CrossInv
  <2>2. ASSUME PlainRoot PROVE SiblingsAsWritten /\ DictsOnce
    <3>1. CASE nodes = <<>>
      BY <3>1 DEF SiblingsAsWritten, DictsOnce
    <3>2. CASE DictsKnown /\ DictsOnce /\ \E base, place : Fits(base, place)
      BY <3>2, FitsInOrder DEF GraphInv
    <3> QED BY <2>2, <3>1, <3>2 DEF GraphInv, OrderInv, Fresh
  <2> QED BY <2>1, <2>2 DEF ReadingOrder
<1> QED
  BY <1>1, GraphStarts, GraphStays, PTL DEF Spec

-----------------------------------------------------------------------------
(* Nothing is lost. *)

\* The streams of the pages that were read, and what was said of them.
StreamsTold ==
  /\ pages_done \in Nat
  /\ phase \in {"objects", "done"} => pages_done = Len(doc.pages)
  /\ \A i \in DOMAIN doc.pages : i <= pages_done =>
       (\A j \in DOMAIN doc.pages[i].streams : doc.pages[i].streams[j].ok) \/ "stream skipped" \in warnings

LEMMA NextStreams == TreeInv /\ StreamsTold /\ [Next]_structure_vars => StreamsTold'
<1> SUFFICES ASSUME TreeInv, StreamsTold, [Next]_structure_vars PROVE StreamsTold'
  OBVIOUS
<1>1. DOMAIN doc.pages = 1 .. Len(doc.pages)
  BY DocumentShape DEF TreeInv
<1>2. CASE AssociatePage
  <2>1. /\ phase' = "content" /\ doc' = doc /\ pages_done' = pages_done + 1
        /\ warnings' = IF \A j \in DOMAIN doc.pages[pages_done + 1].streams :
                            doc.pages[pages_done + 1].streams[j].ok
                       THEN warnings ELSE warnings \cup {"stream skipped"}
    BY <1>2 DEF AssociatePage
  <2>2. pages_done \in Nat /\ pages_done + 1 \in Nat
    <3>1. pages_done \in Nat
      BY DEF StreamsTold
    <3> QED BY ONLY <3>1
  <2>3. ASSUME NEW i \in DOMAIN doc.pages, i <= pages_done + 1
        PROVE  \/ \A j \in DOMAIN doc.pages[i].streams : doc.pages[i].streams[j].ok
               \/ "stream skipped" \in warnings'
    <3>1. i \in Int
      BY <1>1
    <3>2. CASE i <= pages_done
      BY <2>1, <3>2 DEF StreamsTold
    <3>3. CASE i = pages_done + 1
      BY <2>1, <3>3
    <3>4. i <= pages_done \/ i = pages_done + 1
      BY ONLY <2>2, <2>3, <3>1
    <3> QED BY <3>2, <3>3, <3>4
  <2> QED BY <2>1, <2>2, <2>3 DEF StreamsTold
<1>3. CASE UNCHANGED <<doc, pages_done>> /\ warnings \subseteq warnings'
           /\ (phase' \in {"objects", "done"} => phase \in {"objects", "done"} \/ pages_done = Len(doc.pages))
  BY <1>3 DEF StreamsTold
<1>4. CASE WalkTree \/ IdTreeRead \/ ParentTreeRead \/ TreeRead
  <2>1. UNCHANGED <<doc, pages_done>> /\ phase' \notin {"objects", "done"}
    BY <1>4 DEF WalkTree, IdTreeRead, ParentTreeRead, TreeRead
  <2>2. warnings \subseteq warnings'
    <3>1. CASE WalkTree
      <4>1. \E more : warnings' = warnings \/ warnings' = warnings \cup more
        BY <3>1 DEF WalkTree
      <4> QED BY <4>1
    <3>2. CASE IdTreeRead \/ ParentTreeRead \/ TreeRead
      BY <3>2 DEF IdTreeRead, ParentTreeRead, TreeRead
    <3> QED BY <1>4, <3>1, <3>2
  <2> QED BY <1>3, <2>1, <2>2
<1>5. CASE TooDeep \/ OpenArray \/ SkipOther \/ SkipSeen \/ TooMany \/ VisitElement
  <2>1. UNCHANGED <<doc, pages_done, phase>>
    BY <1>5 DEF TooDeep, OpenArray, SkipOther, SkipSeen, TooMany, VisitElement, TreeOnly
  <2>2. warnings \subseteq warnings'
    BY <1>5 DEF TooDeep, OpenArray, SkipOther, SkipSeen, TooMany, VisitElement, Skip, AddNode
  <2> QED BY <1>3, <2>1, <2>2
<1>6. CASE ContentRead \/ AssociateObjects \/ Built \/ UNCHANGED structure_vars
  <2>1. UNCHANGED <<doc, pages_done>>
    BY <1>6 DEF ContentRead, AssociateObjects, Built, structure_vars
  <2>2. phase' \in {"objects", "done"} => phase \in {"objects", "done"} \/ pages_done = Len(doc.pages)
    BY <1>6 DEF ContentRead, AssociateObjects, Built, structure_vars
  <2>3. warnings \subseteq warnings'
    <3>1. ContentRead \/ Built \/ UNCHANGED structure_vars => warnings' = warnings
      BY DEF ContentRead, Built, structure_vars
    <3>2. AssociateObjects => warnings \subseteq warnings'
      BY DEF AssociateObjects
    <3> QED BY <1>6, <3>1, <3>2
  <2> QED BY <1>3, <2>1, <2>2, <2>3
<1> QED
  BY <1>2, <1>4, <1>5, <1>6 DEF Next

\* When nothing waits and the tree was not cut off, every element a node or the root
\* holds is a node: at that place, or at another that is warned of.
LEMMA HeldIsNode ==
  ASSUME TreeInv, DictsKnown, NEW base, NEW place, Fits(base, place), stack = <<>>, ~truncated,
         NEW p \in 0 .. Len(nodes), NEW h, SourceFits(DictOf(p), h),
         NEW i, IsPlace(DictOf(p), i)
  PROVE  \E j \in DOMAIN Pushes[p] :
           /\ h[j] = i /\ Pushes[p][j] = Written(doc, DictOf(p))[i] /\ IsElement(Pushes[p][j])
           /\ IsGone(place, p, j)
           /\ \E n \in DOMAIN nodes : nodes[n].dict = Pushes[p][j][2]
<1>1. Pushes[p] = Source(DictOf(p)) /\ Pushes[p] \in Seq(Values)
  BY PushedPlaces
<1>2. PICK j \in DOMAIN Pushes[p] : h[j] = i
  BY <1>1 DEF SourceFits, IsPlace
<1> DEFINE v == Pushes[p][j]
<1>3. v = Written(doc, DictOf(p))[i] /\ IsElement(v)
  BY <1>1, <1>2 DEF SourceFits, IsPlace
<1>4. v \in ElementValues
  <2>1. v \in Values
    BY <1>1, <1>2
  <2> QED BY <1>3, <2>1 DEF ElementValues
<1>5. ~Waits(base, p, j)
  BY DEF Waits
<1>6. IsGone(place, p, j)
  BY <1>2, <1>4, <1>5 DEF Fits, GoneFits
<1>7. \E n \in DOMAIN nodes : nodes[n].dict = v[2]
  <2>1. CASE \E n \in DOMAIN nodes : nodes[n].parent = p /\ place[n] = j
    <3>1. PICK n \in DOMAIN nodes : nodes[n].parent = p /\ place[n] = j
      BY <2>1
    <3>2. NodeStood(base, place, n)
      BY DEF Fits, PlacesFit
    <3> QED BY <3>1, <3>2 DEF NodeStood
  <2>2. CASE v[1] = "ref" /\ \E n \in DOMAIN nodes : nodes[n].key = v[2]
    <3>1. PICK n \in DOMAIN nodes : nodes[n].key = v[2]
      BY <2>2
    <3>2. NodeStood(base, place, n)
      BY DEF Fits, PlacesFit
    <3>3. \E w : nodes[n].dict = w[2] /\ nodes[n].key = KeyOf(w)
      BY <3>2 DEF NodeStood
    <3>4. v[2] # None
      BY <1>3, ElementNames
    <3>5. nodes[n].dict = v[2]
      BY <3>1, <3>3, <3>4 DEF KeyOf
    <3> QED BY <3>5
  <2> QED BY <1>6, <2>1, <2>2 DEF IsGone
<1> QED
  BY <1>2, <1>3, <1>6, <1>7

\* The elements the walk can meet: those that are written in place.
BelowInPlace(name) ==
  {Written(doc, name)[i][2] : i \in {j \in DOMAIN Written(doc, name) : IsPlace(name, j)}}
Walkable ==
  LET names == DOMAIN doc.dict
      below == [name \in names \cup {None} |-> BelowInPlace(name)]
      closed == {S \in SUBSET names : below[None] \subseteq S /\ \A name \in S : below[name] \subseteq S}
  IN {name \in names : \A S \in closed : name \in S}

\* They are elements of the document, and all of them if no kids are behind a
\* reference to an array.
LEMMA WalkableInDocument ==
  ASSUME doc \in Documents
  PROVE  Walkable \subseteq InDocument /\ (KidsInPlace => Walkable = InDocument)
<1> DEFINE names == DOMAIN doc.dict
           Closed(below, S) == below[None] \subseteq S /\ \A name \in S : below[name] \subseteq S
           walked == [name \in names \cup {None} |-> BelowInPlace(name)]
           given == [name \in names \cup {None} |-> Below(name)]
<1>1. ASSUME NEW name \in names \cup {None}, ~LeadsToArray(K(doc, name))
      PROVE  BelowInPlace(name) = Below(name)
  <2>1. KidsGiven(name) = Written(doc, name)
    BY <1>1 DEF KidsGiven
  <2>2. \A v : v \in ToSet(Written(doc, name)) <=> \E i \in DOMAIN Written(doc, name) : v = Written(doc, name)[i]
    BY DEF ToSet
  <2> QED BY <2>1, <2>2 DEF BelowInPlace, Below, IsPlace
<1>2. ASSUME NEW name \in names \cup {None}, LeadsToArray(K(doc, name))
      PROVE  BelowInPlace(name) = {}
  <2> DEFINE k == K(doc, name)
  <2>1. k # NoValue /\ k[1] # "array"
    BY <1>2 DEF LeadsToArray, NoValue
  <2>2. Written(doc, name) = <<k>>
    BY <2>1 DEF Written
  <2>3. ~IsElement(k)
    BY <1>2, DocumentShape DEF LeadsToArray, IsElement, structure_dictionary
  <2> HIDE DEF k
  <2>4. \A i \in DOMAIN Written(doc, name) : ~IsPlace(name, i)
    BY <2>2, <2>3 DEF IsPlace
  <2> QED BY <2>4 DEF BelowInPlace
<1>3. /\ Walkable = {name \in names : \A S \in SUBSET names : Closed(walked, S) => name \in S}
      /\ InDocument = {name \in names : \A S \in SUBSET names : Closed(given, S) => name \in S}
  BY DEF Walkable, InDocument
<1>4. \A name \in names \cup {None} : walked[name] = BelowInPlace(name) /\ given[name] = Below(name)
  OBVIOUS
<1>5. \A name \in names \cup {None} : walked[name] \subseteq given[name]
  BY <1>1, <1>2, <1>4
<1>6. ASSUME KidsInPlace PROVE walked = given
  BY <1>1, <1>6 DEF KidsInPlace
<1> HIDE DEF walked, given
<1>7. ASSUME NEW S \in SUBSET names, Closed(given, S) PROVE Closed(walked, S)
  BY <1>5, <1>7
<1> HIDE DEF Closed, names
<1> QED
  BY <1>3, <1>6, <1>7

\* The nodes are elements that can be met, and all of them when nothing waits.
LEMMA NodesAreElements ==
  ASSUME TreeInv, DictsKnown, SiblingsAsWritten, NEW base, NEW place, Fits(base, place),
         stack = <<>>
  PROVE  NodeDicts \subseteq Walkable /\ (~truncated => NodeDicts = Walkable)
<1> DEFINE names == DOMAIN doc.dict
           below == [name \in names \cup {None} |-> BelowInPlace(name)]
           Closed(S) == below[None] \subseteq S /\ \A name \in S : below[name] \subseteq S
<1>1. Walkable = {name \in names : \A S \in SUBSET names : Closed(S) => name \in S}
  BY DEF Walkable
<1>2. NodeDicts \subseteq names
  BY DEF NodeDicts, DictsKnown
<1>3. \A name \in names \cup {None} : below[name] = BelowInPlace(name)
  OBVIOUS
<1>4. DOMAIN nodes = 1 .. Len(nodes) /\ Len(nodes) \in Nat /\ \A n \in DOMAIN nodes : nodes[n].parent \in 0 .. n - 1
  BY Numbers
<1> HIDE DEF below, names
<1>5. ASSUME ~truncated, NEW p \in 0 .. Len(nodes) PROVE BelowInPlace(DictOf(p)) \subseteq NodeDicts
  <2>1. PICK h : SourceFits(DictOf(p), h)
    BY PushedPlaces
  <2> SUFFICES ASSUME NEW i, IsPlace(DictOf(p), i)
               PROVE  Written(doc, DictOf(p))[i][2] \in NodeDicts
    BY DEF BelowInPlace
  <2>2. \E n \in DOMAIN nodes : nodes[n].dict = Written(doc, DictOf(p))[i][2]
    BY <1>5, <2>1, HeldIsNode
  <2> QED BY <2>2 DEF NodeDicts
<1>6. ASSUME ~truncated PROVE Closed(NodeDicts)
  <2>1. BelowInPlace(None) \subseteq NodeDicts
    <3>1. 0 \in 0 .. Len(nodes) /\ DictOf(0) = None
      BY <1>4 DEF DictOf
    <3> QED BY <1>5, <1>6, <3>1
  <2>2. ASSUME NEW name \in NodeDicts PROVE BelowInPlace(name) \subseteq NodeDicts
    <3>1. PICK n \in DOMAIN nodes : nodes[n].dict = name
      BY DEF NodeDicts
    <3>2. n \in 0 .. Len(nodes) /\ DictOf(n) = name
      BY <1>4, <3>1 DEF DictOf
    <3> QED BY <1>5, <1>6, <3>2
  <2>3. NodeDicts \subseteq names \cup {None} /\ None \in names \cup {None}
    BY <1>2
  <2> QED BY <1>3, <2>1, <2>2, <2>3
<1>7. ASSUME ~truncated PROVE Walkable \subseteq NodeDicts
  <2> HIDE DEF Closed
  <2> QED BY <1>1, <1>2, <1>6, <1>7
<1>8. ASSUME NEW S \in SUBSET names, Closed(S), NEW m \in DOMAIN nodes, nodes[m].dict \notin S
      PROVE  FALSE
  <2> DEFINE T == {n \in DOMAIN nodes : nodes[n].dict \notin S}
  <2>1. T \subseteq Nat /\ T # {}
    BY <1>4, <1>8
  <2>2. PICK n \in T : \A k \in T : n <= k
    <3> HIDE DEF T
    <3> QED BY <2>1, LeastNumber
  <2> DEFINE q == nodes[n].parent
  <2>3. n \in DOMAIN nodes /\ nodes[n].dict \notin S /\ q \in 0 .. n - 1
    BY <1>4, <2>2
  <2>4. StandsAt(n, FirstPlace(n))
    BY <2>3 DEF SiblingsAsWritten
  <2>5. nodes[n].dict \in BelowInPlace(DictOf(q))
    <3>1. \E i : StandsAt(n, i)
      BY <2>4
    <3>2. PICK i : IsPlace(DictOf(q), i) /\ Written(doc, DictOf(q))[i][2] = nodes[n].dict
      BY <3>1 DEF StandsAt
    <3>3. i \in DOMAIN Written(doc, DictOf(q))
      BY <3>2 DEF IsPlace
    <3> QED BY <3>2, <3>3 DEF BelowInPlace
  <2>6. BelowInPlace(DictOf(q)) \subseteq S
    <3>1. CASE q = 0
      <4>1. DictOf(q) = None /\ None \in names \cup {None}
        BY <3>1 DEF DictOf
      <4> QED BY <1>3, <1>8, <4>1
    <3>2. CASE q # 0
      <4>1. q \in DOMAIN nodes /\ q < n
        BY <1>4, <2>3, <3>2
      <4>2. nodes[q].dict \in S
        BY <1>4, <2>2, <4>1
      <4>3. DictOf(q) \in S /\ DictOf(q) \in names \cup {None}
        BY <3>2, <4>2 DEF DictOf
      <4> QED BY <1>3, <1>8, <4>3
    <3> QED BY <3>1, <3>2
  <2> QED BY <2>3, <2>5, <2>6
<1>9. NodeDicts \subseteq Walkable
  <2> HIDE DEF Closed
  <2> QED BY <1>1, <1>2, <1>8 DEF NodeDicts
<1> QED
  BY <1>7, <1>9

\* And without a warning no element is reached by two references.
LEMMA NoWarningOnce ==
  ASSUME TreeInv, DictsKnown, SiblingsAsWritten, NEW base, NEW place, Fits(base, place),
         stack = <<>>, ~truncated, warnings = {}, KidsInPlace
  PROVE  ReachedOnce
<1>1. ASSUME NEW e \in InDocument \cup {None} PROVE \E p \in 0 .. Len(nodes) : DictOf(p) = e
  <2>1. Len(nodes) \in Nat /\ DOMAIN nodes = 1 .. Len(nodes)
    BY Numbers
  <2>2. CASE e = None
    BY <2>1, <2>2 DEF DictOf
  <2>3. CASE e \in NodeDicts
    <3>1. PICK n \in DOMAIN nodes : nodes[n].dict = e
      BY <2>3 DEF NodeDicts
    <3>2. n \in 0 .. Len(nodes) /\ DictOf(n) = e
      BY <2>1, <3>1 DEF DictOf
    <3> QED BY <3>2
  <2>4. InDocument = NodeDicts
    BY NodesAreElements, WalkableInDocument DEF TreeInv
  <2> QED BY <2>2, <2>3, <2>4
<1> SUFFICES ASSUME NEW e \in InDocument \cup {None}, NEW f \in InDocument \cup {None},
                    NEW i, NEW j, IsPlace(e, i), IsPlace(f, j), <<e, i>> # <<f, j>>,
                    Written(doc, e)[i] = Written(doc, f)[j], Written(doc, e)[i][1] = "ref"
             PROVE  FALSE
  BY DEF ReachedOnce
<1> DEFINE v == Written(doc, e)[i]
<1>2. PICK p \in 0 .. Len(nodes) : DictOf(p) = e
  BY <1>1
<1>3. PICK q \in 0 .. Len(nodes) : DictOf(q) = f
  BY <1>1
<1>4. PICK g : SourceFits(e, g)
  BY <1>2, PushedPlaces
<1>5. PICK h : SourceFits(f, h) /\ (e = f => h = g)
  BY <1>3, <1>4, PushedPlaces
<1>6. PICK a \in DOMAIN Pushes[p] : g[a] = i /\ Pushes[p][a] = v /\ IsElement(v) /\ IsGone(place, p, a)
  BY <1>2, <1>4, HeldIsNode
<1>7. PICK b \in DOMAIN Pushes[q] : h[b] = j /\ Pushes[q][b] = v /\ IsGone(place, q, b)
  BY <1>3, <1>5, HeldIsNode
<1>8. KeyOf(v) = v[2] /\ v[2] # None
  BY <1>6, ElementNames
<1>9. PICK m \in DOMAIN nodes : nodes[m].parent = p /\ place[m] = a
  BY <1>6 DEF IsGone
<1>10. PICK n \in DOMAIN nodes : nodes[n].parent = q /\ place[n] = b
  BY <1>7 DEF IsGone
<1>11. nodes[m].key = v[2]
  <2>1. NodeStood(base, place, m)
    BY DEF Fits, PlacesFit
  <2> QED BY <1>6, <1>8, <1>9, <2>1 DEF NodeStood
<1>12. nodes[n].key = v[2]
  <2>1. NodeStood(base, place, n)
    BY DEF Fits, PlacesFit
  <2> QED BY <1>7, <1>8, <1>10, <2>1 DEF NodeStood
<1>13. m = n
  BY <1>8, <1>11, <1>12 DEF TreeInv, NodesFormTree, KeysOnce
<1>14. e = f /\ i = j
  BY <1>2, <1>3, <1>5, <1>6, <1>7, <1>9, <1>10, <1>13
<1> QED
  BY <1>14

\* For every document and every limit: when build_accessibility_graph is done, every
\* element of a document whose root holds its kids plainly is a node, and nothing else
\* is, unless the graph says it was truncated; and if it warns of nothing, then it was
\* not truncated, no element is reached by two references and no content stream of any
\* page was left out. That all are nodes holds if no /K is a reference to an array; that
\* only they are holds of every document, and even of a graph that was truncated.
THEOREM NothingLostAlways == Spec => []NothingLostSilently
<1> DEFINE Inv == GraphInv /\ StreamsTold
<1>1. Init => Inv
  <2> SUFFICES ASSUME Init PROVE StreamsTold
    BY GraphStarts
  <2>1. pages_done = 0 /\ phase = "ids" /\ doc \in Documents
    BY DEF Init
  <2>2. DOMAIN doc.pages = 1 .. Len(doc.pages)
    BY <2>1, DocumentShape
  <2>3. \A i \in DOMAIN doc.pages : ~(i <= pages_done)
    BY <2>1, <2>2
  <2> QED BY <2>1, <2>3 DEF StreamsTold
<1>2. Inv /\ [Next]_structure_vars => Inv'
  BY GraphStays, NextStreams DEF GraphInv
<1>3. Inv => NothingLostSilently
  <2> SUFFICES ASSUME Inv, phase = "done"
               PROVE  /\ PlainRoot => NodeDicts \subseteq InDocument
                      /\ ~truncated /\ PlainRoot /\ KidsInPlace => NodeDicts = InDocument
                      /\ warnings = {} =>
                           /\ ~truncated
                           /\ PlainRoot /\ KidsInPlace => ReachedOnce
                           /\ \A i \in DOMAIN doc.pages :
                                \A j \in DOMAIN doc.pages[i].streams : doc.pages[i].streams[j].ok
    BY DEF NothingLostSilently
  <2>1. TreeInv /\ stack = <<>>
    BY DEF GraphInv, OrderInv
  <2>2. ASSUME PlainRoot PROVE /\ DictsKnown /\ SiblingsAsWritten
                               /\ \E base, place : Fits(base, place)
    <3>1. DictsKnown /\ \E base, place : Fits(base, place)
      BY <2>2 DEF GraphInv, OrderInv, Unopened
    <3> QED BY <2>1, <3>1, FitsInOrder
  <2>3. PlainRoot => /\ NodeDicts \subseteq InDocument
                     /\ ~truncated /\ KidsInPlace => NodeDicts = InDocument
    BY <2>1, <2>2, NodesAreElements, WalkableInDocument DEF TreeInv
  <2>4. warnings = {} => ~truncated
    BY <2>1 DEF TreeInv, CutIsTold
  <2>5. warnings = {} /\ PlainRoot /\ KidsInPlace => ReachedOnce
    BY <2>1, <2>2, <2>4, NoWarningOnce
  <2>6. ASSUME warnings = {}, NEW i \in DOMAIN doc.pages
        PROVE  \A j \in DOMAIN doc.pages[i].streams : doc.pages[i].streams[j].ok
    <3>1. DOMAIN doc.pages = 1 .. Len(doc.pages)
      BY <2>1, DocumentShape DEF TreeInv
    <3>2. pages_done = Len(doc.pages) /\ pages_done \in Nat
      BY DEF StreamsTold
    <3>3. i <= pages_done
      BY <3>1, <3>2
    <3> QED BY <2>6, <3>3 DEF StreamsTold
  <2> QED BY <2>3, <2>4, <2>5, <2>6
<1> QED
  BY <1>1, <1>2, <1>3, PTL DEF Spec

-----------------------------------------------------------------------------
(* Sequences made of others. *)

\* What is in a sequence of sequences is in the sequence made of it, and nothing else.
LEMMA FlattenFact ==
  ASSUME NEW S, NEW ss \in Seq(Seq(S))
  PROVE  /\ FlattenSeq(ss) \in Seq(S)
         /\ \A k \in DOMAIN FlattenSeq(ss) :
              \E i \in DOMAIN ss : \E j \in DOMAIN ss[i] : ss[i][j] = FlattenSeq(ss)[k]
         /\ \A i \in DOMAIN ss : \A j \in DOMAIN ss[i] :
              \E k \in DOMAIN FlattenSeq(ss) : FlattenSeq(ss)[k] = ss[i][j]
<1> DEFINE N == Len(ss)
           step == [p \in (1 .. N) \X Seq(S) |-> p[2] \o ss[p[1]]]
           flat == CHOOSE g : g = [i \in 1 .. N |-> IF i = 1 THEN ss[i] ELSE g[i - 1] \o ss[i]]
<1>1. N \in Nat /\ DOMAIN ss = 1 .. N /\ <<>> \in Seq(S) /\ \A i \in 1 .. N : ss[i] \in Seq(S)
  OBVIOUS
<1>2. CASE N = 0
  <2>1. FlattenSeq(ss) = ss /\ ss = <<>>
    BY <1>1, <1>2 DEF FlattenSeq
  <2> QED BY <2>1
<1>3. CASE N # 0
  <2>1. FlattenSeq(ss) = flat[N]
    BY <1>3 DEF FlattenSeq
  <2>2. ASSUME NEW i \in 1 .. N, NEW s \in Seq(S)
        PROVE  s \o ss[i] \in Seq(S) /\ step[<<i, s>>] = s \o ss[i]
    <3>1. ss[i] \in Seq(S)
      BY <1>1
    <3>2. s \o ss[i] \in Seq(S)
      BY <3>1
    <3> HIDE DEF N
    <3>3. <<i, s>> \in (1 .. N) \X Seq(S) /\ <<i, s>>[1] = i /\ <<i, s>>[2] = s
      OBVIOUS
    <3> QED BY <3>2, <3>3
  <2>3. PICK f : f = [i \in 0 .. N |-> IF i = 0 THEN <<>> ELSE step[<<i, f[i - 1]>>]]
    <3>1. PICK f : Iterates(f, N, <<>>, step)
      <4> HIDE DEF N, step
      <4> QED BY <1>1, IterationExists, Zenon
    <3> HIDE DEF step
    <3> QED BY <3>1 DEF Iterates
  <2> HIDE DEF step, flat, N
  <2> DEFINE G == {i \in 0 .. N : f[i] \in Seq(S)}
  <2>4. 0 .. N \subseteq G
    <3>1. 0 \in G
      BY <1>1, <2>3
    <3>2. ASSUME NEW i \in 0 .. N - 1, i \in G PROVE i + 1 \in G
      <4>1. i + 1 \in 0 .. N /\ i + 1 \in 1 .. N /\ i + 1 # 0 /\ (i + 1) - 1 = i
        BY <1>1
      <4>2. f[i + 1] = step[<<i + 1, f[i]>>]
        BY <4>1, <2>3
      <4>3. f[i] \in Seq(S)
        BY <3>2
      <4> QED BY <2>2, <4>1, <4>2, <4>3
    <3> HIDE DEF G
    <3> QED BY <1>1, <3>1, <3>2, InductionUpTo
  <2>5. ASSUME NEW i \in 1 .. N PROVE f[i] = IF i = 1 THEN ss[i] ELSE f[i - 1] \o ss[i]
    <3>1. i - 1 \in 0 .. N /\ i \in 0 .. N /\ i # 0
      BY <1>1
    <3>2. f[i - 1] \in Seq(S)
      BY <2>4, <3>1
    <3>3. f[i] = f[i - 1] \o ss[i]
      BY <2>2, <2>3, <3>1, <3>2
    <3>4. ASSUME i = 1 PROVE f[i - 1] \o ss[i] = ss[i]
      <4>1. f[i - 1] = <<>> /\ ss[i] \in Seq(S)
        BY <1>1, <2>3, <3>4
      <4> QED BY <4>1
    <3> QED BY <3>3, <3>4
  <2>6. flat = [i \in 1 .. N |-> IF i = 1 THEN ss[i] ELSE flat[i - 1] \o ss[i]]
    <3> DEFINE g == [i \in 1 .. N |-> f[i]]
    <3>1. ASSUME NEW i \in 1 .. N PROVE g[i] = IF i = 1 THEN ss[i] ELSE g[i - 1] \o ss[i]
      <4>1. i = 1 \/ i - 1 \in 1 .. N
        BY <1>1
      <4> QED BY <2>5, <4>1
    <3>2. g = [i \in 1 .. N |-> g[i]]
      OBVIOUS
    <3> HIDE DEF g
    <3>3. g = [i \in 1 .. N |-> IF i = 1 THEN ss[i] ELSE g[i - 1] \o ss[i]]
      BY <3>1, <3>2
    <3> QED BY <3>3 DEF flat
  <2> DEFINE Kept(n) == /\ flat[n] \in Seq(S)
                        /\ \A x \in S : (\E k \in DOMAIN flat[n] : flat[n][k] = x)
                                          <=> \E i \in 1 .. n : \E j \in DOMAIN ss[i] : ss[i][j] = x
             Upto == {n \in 0 .. N - 1 : Kept(n + 1)}
  <2>7. Kept(1)
    <3>1. 1 \in 1 .. N /\ 1 .. 1 = {1}
      BY <1>1, <1>3
    <3>2. flat[1] = ss[1]
      BY <2>6, <3>1
    <3> QED BY <1>1, <3>1, <3>2
  <2>8. ASSUME NEW n \in 1 .. N - 1, Kept(n) PROVE Kept(n + 1)
    <3>1. n + 1 \in 1 .. N /\ n + 1 # 1 /\ (n + 1) - 1 = n /\ n \in 1 .. N
          /\ \A i : i \in 1 .. n + 1 <=> i \in 1 .. n \/ i = n + 1
      BY <1>1
    <3> DEFINE s == flat[n]
               t == ss[n + 1]
               u == flat[n + 1]
    <3>2. s \in Seq(S) /\ t \in Seq(S)
      BY <1>1, <2>8, <3>1
    <3>3. u = s \o t
      BY <2>6, <3>1
    <3>4. /\ u \in Seq(S) /\ DOMAIN u = 1 .. Len(s) + Len(t)
          /\ Len(s) \in Nat /\ Len(t) \in Nat /\ DOMAIN s = 1 .. Len(s) /\ DOMAIN t = 1 .. Len(t)
          /\ \A k \in 1 .. Len(s) : u[k] = s[k]
          /\ \A k \in 1 .. Len(t) : u[Len(s) + k] = t[k]
      <4> HIDE DEF s, t, u
      <4> QED BY <3>2, <3>3
    <3>5. ASSUME NEW x
          PROVE  (\E k \in DOMAIN u : u[k] = x)
                   <=> (\E k \in DOMAIN s : s[k] = x) \/ \E k \in DOMAIN t : t[k] = x
      <4> HIDE DEF s, t, u
      <4>1. ASSUME NEW k \in DOMAIN u
            PROVE  (k \in DOMAIN s /\ u[k] = s[k]) \/ (k - Len(s) \in DOMAIN t /\ u[k] = t[k - Len(s)])
        <5>1. CASE k <= Len(s)
          BY <3>4, <5>1
        <5>2. CASE k > Len(s)
          <6>1. k - Len(s) \in 1 .. Len(t) /\ Len(s) + (k - Len(s)) = k
            BY <3>4, <5>2
          <6> QED BY <3>4, <6>1
        <5> QED BY <3>4, <5>1, <5>2
      <4>2. \A k \in DOMAIN s : k \in DOMAIN u
        BY <3>4
      <4>3. \A k \in DOMAIN t : Len(s) + k \in DOMAIN u
        BY <3>4
      <4> QED BY <3>4, <4>1, <4>2, <4>3
    <3>6. ASSUME NEW x \in S
          PROVE  (\E i \in 1 .. n + 1 : \E j \in DOMAIN ss[i] : ss[i][j] = x)
                   <=> (\E i \in 1 .. n : \E j \in DOMAIN ss[i] : ss[i][j] = x)
                       \/ \E j \in DOMAIN t : t[j] = x
      BY <3>1
    <3> HIDE DEF u, s
    <3> QED BY <2>8, <3>4, <3>5, <3>6 DEF u, s
  <2>9. Kept(N)
    <3> HIDE DEF Kept
    <3>1. 0 \in Upto
      BY <1>1, <1>3, <2>7
    <3>2. ASSUME NEW i \in 0 .. (N - 1) - 1, i \in Upto PROVE i + 1 \in Upto
      <4>1. i + 1 \in 1 .. N - 1 /\ i + 1 \in 0 .. N - 1
        BY <1>1
      <4>2. Kept(i + 1)
        BY <3>2
      <4> QED BY <2>8, <4>1, <4>2
    <3>3. N - 1 \in Nat /\ N - 1 \in 0 .. N - 1 /\ (N - 1) + 1 = N
      BY <1>1, <1>3
    <3> HIDE DEF Upto
    <3>4. 0 .. N - 1 \subseteq Upto
      BY <3>1, <3>2, <3>3, InductionUpTo
    <3>5. N - 1 \in Upto
      BY <3>3, <3>4
    <3> QED BY <3>3, <3>5 DEF Upto
  <2> HIDE DEF Upto
  <2>10. ASSUME NEW k \in DOMAIN flat[N]
         PROVE  \E i \in DOMAIN ss : \E j \in DOMAIN ss[i] : ss[i][j] = flat[N][k]
    <3>1. flat[N][k] \in S
      BY <2>9, <2>10
    <3> QED BY <1>1, <2>9, <3>1
  <2>11. ASSUME NEW i \in DOMAIN ss, NEW j \in DOMAIN ss[i]
         PROVE  \E k \in DOMAIN flat[N] : flat[N][k] = ss[i][j]
    <3>1. ss[i][j] \in S
      BY <1>1
    <3> QED BY <1>1, <2>9, <3>1
  <2> QED BY <2>1, <2>9, <2>10, <2>11
<1> QED
  BY <1>2, <1>3

\* Taking entries makes a sequence of a sequence.
LEMMA TakenIsSequence ==
  ASSUME NEW P, NEW pairs \in Seq(P), NEW more \in Seq(P)
  PROVE  Taken(pairs, more) \in Seq(P)
<1> DEFINE N == Len(more)
           Next1(i, s) == IF Count(s) >= MaxEntries THEN s ELSE Append(s, more[i])
           step == [p \in (1 .. N) \X Seq(P) |-> Next1(p[1], p[2])]
           take == CHOOSE g : g = [i \in 0 .. N |-> IF i = 0 THEN pairs ELSE Next1(i, g[i - 1])]
<1>1. N \in Nat /\ DOMAIN more = 1 .. N
  OBVIOUS
<1>2. ASSUME NEW i \in 1 .. N, NEW s \in Seq(P)
      PROVE  Next1(i, s) \in Seq(P) /\ step[<<i, s>>] = Next1(i, s)
  <2>1. more[i] \in P
    BY <1>1
  <2>2. Append(s, more[i]) \in Seq(P)
    BY <2>1
  <2> HIDE DEF N
  <2>3. <<i, s>> \in (1 .. N) \X Seq(P) /\ <<i, s>>[1] = i /\ <<i, s>>[2] = s
    OBVIOUS
  <2>4. Next1(i, s) \in Seq(P)
    BY <2>2
  <2> HIDE DEF Next1
  <2>5. step[<<i, s>>] = Next1(<<i, s>>[1], <<i, s>>[2])
    BY ONLY <2>3 DEF step
  <2> QED BY <2>3, <2>4, <2>5
<1>3. PICK f : f = [i \in 0 .. N |-> IF i = 0 THEN pairs ELSE step[<<i, f[i - 1]>>]]
  <2>1. PICK f : Iterates(f, N, pairs, step)
    <3> HIDE DEF N, step
    <3> QED BY <1>1, IterationExists, Zenon
  <2> HIDE DEF step
  <2> QED BY <2>1 DEF Iterates
<1> HIDE DEF step, N, Next1
<1>4. ASSUME NEW g, g[0] = pairs, \A i \in 1 .. N : g[i - 1] \in Seq(P) => g[i] \in Seq(P)
      PROVE  \A i \in 0 .. N : g[i] \in Seq(P)
  <2> DEFINE G == {i \in 0 .. N : g[i] \in Seq(P)}
  <2>1. 0 \in G
    BY <1>1, <1>4
  <2>2. ASSUME NEW i \in 0 .. N - 1, i \in G PROVE i + 1 \in G
    <3>1. i + 1 \in 0 .. N /\ i + 1 \in 1 .. N /\ (i + 1) - 1 = i
      BY <1>1
    <3> QED BY <1>4, <2>2, <3>1
  <2> HIDE DEF G
  <2>3. 0 .. N \subseteq G
    BY <1>1, <2>1, <2>2, InductionUpTo
  <2> QED BY <2>3 DEF G
<1>5. /\ 0 \in 0 .. N /\ N \in 0 .. N
      /\ \A i \in 1 .. N : i \in 0 .. N /\ i # 0 /\ i - 1 \in 0 .. N
  BY <1>1
<1>6. \A i \in 0 .. N : f[i] \in Seq(P)
  <2>1. f[0] = pairs
    BY <1>3, <1>5
  <2>2. ASSUME NEW i \in 1 .. N, f[i - 1] \in Seq(P) PROVE f[i] \in Seq(P)
    <3>1. f[i] = step[<<i, f[i - 1]>>]
      BY <1>3, <1>5
    <3> QED BY <1>2, <2>2, <3>1
  <2> QED BY <1>4, <2>1, <2>2
<1>7. f = [i \in 0 .. N |-> IF i = 0 THEN pairs ELSE Next1(i, f[i - 1])]
  <2>1. ASSUME NEW i \in 0 .. N, i # 0 PROVE step[<<i, f[i - 1]>>] = Next1(i, f[i - 1])
    <3>1. i \in 1 .. N /\ i - 1 \in 0 .. N
      BY <1>1, <2>1
    <3> QED BY <1>2, <1>6, <3>1
  <2> QED BY <1>3, <2>1
<1>8. take = [i \in 0 .. N |-> IF i = 0 THEN pairs ELSE Next1(i, take[i - 1])]
  BY <1>7
<1> HIDE DEF take
<1>9. \A i \in 0 .. N : take[i] \in Seq(P)
  <2>1. take[0] = pairs
    BY <1>8, <1>5
  <2>2. ASSUME NEW i \in 1 .. N, take[i - 1] \in Seq(P) PROVE take[i] \in Seq(P)
    <3>1. take[i] = Next1(i, take[i - 1])
      BY <1>8, <1>5
    <3> QED BY <1>2, <2>2, <3>1
  <2> QED BY <1>4, <2>1, <2>2
<1>10. Taken(pairs, more) = take[N]
  BY DEF Taken, take, N, Next1
<1> QED
  BY <1>5, <1>9, <1>10

\* The entries of the parent tree are a sequence, and when the tree was read, they were
\* made into the maps.
ParentTreeFits ==
  /\ "pairs" \in DOMAIN walk
  /\ phase # "ids" =>
       walk.pairs \in Seq(ToSet(walk.pairs)) /\ \A pair \in ToSet(walk.pairs) : pair[2] \in Values
  /\ phase \notin {"ids", "parents"} => parent_tree = NumberTree(walk.pairs)

\* A sequence over something is one over what is in it.
LEMMA OverItsElements ==
  ASSUME NEW P, NEW s \in Seq(P)
  PROVE  s \in Seq(ToSet(s))
<1>1. s = [i \in 1 .. Len(s) |-> s[i]] /\ Len(s) \in Nat
  OBVIOUS
<1>2. s \in Seq({s[i] : i \in DOMAIN s})
  BY <1>1, OverItself
<1> QED BY <1>2 DEF ToSet

LEMMA SameNumberTree ==
  ASSUME doc' = doc, walk' = walk
  PROVE  NumberTree(walk.pairs)' = NumberTree(walk.pairs)
<1>1. Owners' = Owners /\ PageKeys' = PageKeys
  BY DEF Owners, PageKeys
<1>2. \A n : PageOf(n)' = PageOf(n)
  BY DEF PageOf
<1>3. \A n, v : Associations(n, v)' = Associations(n, v)
  BY <1>1, <1>2 DEF Associations
<1> QED BY <1>3 DEF NumberTree

LEMMA NextParentTree ==
  TreeInv /\ ParentTreeFits /\ [Next]_structure_vars => ParentTreeFits'
<1> SUFFICES ASSUME TreeInv, ParentTreeFits, [Next]_structure_vars PROVE ParentTreeFits'
  OBVIOUS
<1>1. CASE WalkTree
  <2>1. phase' = phase /\ phase \in {"ids", "parents"}
    BY <1>1 DEF WalkTree
  <2>0. \/ walk' = [walk EXCEPT !.stack = Front(walk.stack)]
        \/ /\ Last(walk.stack)[2] \in DOMAIN Tree.node
           /\ \E st, seen : walk' = [stack |-> st, seen |-> seen,
                                    pairs |-> Taken(walk.pairs, Tree.node[Last(walk.stack)[2]].pairs)]
    BY <1>1 DEF WalkTree
  <2>2. ASSUME phase = "parents" 
      PROVE  walk'.pairs \in Seq(ToSet(walk'.pairs)) /\ \A pair \in ToSet(walk'.pairs) : pair[2] \in Values
    <3> DEFINE top == Last(walk.stack)
               more == doc.nums.node[top[2]].pairs
               taken == Taken(walk.pairs, more)
    <3>1. \/ walk'.pairs = walk.pairs
          \/ top[2] \in DOMAIN doc.nums.node /\ walk'.pairs = taken
      <4>1. Tree = doc.nums
        BY <2>2 DEF Tree
      <4>2. /\ "pairs" \in DOMAIN walk
            /\ \/ walk' = [walk EXCEPT !.stack = Front(walk.stack)]
               \/ top[2] \in DOMAIN Tree.node /\ walk'.pairs = Taken(walk.pairs, Tree.node[top[2]].pairs)
        BY <2>0 DEF ParentTreeFits
      <4> QED BY <4>1, <4>2
    <3>2. ASSUME top[2] \in DOMAIN doc.nums.node 
          PROVE  taken \in Seq(ToSet(taken)) /\ \A pair \in ToSet(taken) : pair[2] \in Values
      <4> DEFINE P == ToSet(walk.pairs) \cup ToSet(more)
      <4>1. /\ more \in Seq(ToSet(more)) /\ walk.pairs \in Seq(ToSet(walk.pairs))
            /\ \A pair \in P : pair[2] \in Values
        BY <2>2, <3>2, DocumentShape DEF TreeInv, TreeShape, ParentTreeFits
      <4> HIDE DEF taken, more
      <4>2. more \in Seq(P) /\ walk.pairs \in Seq(P)
        BY <4>1
      <4> HIDE DEF P
      <4>3. taken \in Seq(P)
        BY <4>2, TakenIsSequence DEF taken
      <4>4. ToSet(taken) \subseteq P
        BY <4>3 DEF ToSet
      <4> QED BY <4>1, <4>3, <4>4, OverItsElements
    <3> QED BY <2>2, <3>1, <3>2 DEF ParentTreeFits
  <2>3. "pairs" \in DOMAIN walk'
    BY <2>0 DEF ParentTreeFits
  <2> QED BY <2>1, <2>2, <2>3 DEF ParentTreeFits
<1>2. CASE IdTreeRead
  <2>1. phase' = "parents" /\ walk'.pairs = <<>> /\ "pairs" \in DOMAIN walk'
    BY <1>2 DEF IdTreeRead, StartWalk
  <2>2. <<>> \in Seq(ToSet(<<>>)) /\ ToSet(<<>>) = {}
    BY DEF ToSet
  <2> QED BY <2>1, <2>2 DEF ParentTreeFits
<1>3. CASE ParentTreeRead
  <2>1. /\ phase = "parents" /\ UNCHANGED <<doc, walk>>
        /\ parent_tree' = NumberTree(walk.pairs)
    BY <1>3 DEF ParentTreeRead
  <2>2. NumberTree(walk.pairs)' = NumberTree(walk.pairs)
    BY <2>1, SameNumberTree
  <2>3. "pairs" \in DOMAIN walk'
    BY <2>1 DEF ParentTreeFits
  <2> QED BY <2>1, <2>2, <2>3 DEF ParentTreeFits
<1>4. CASE UNCHANGED <<doc, walk, parent_tree>> /\ (phase' = phase \/ (phase \notin {"ids", "parents"}))
  <2>1. NumberTree(walk.pairs)' = NumberTree(walk.pairs)
    BY <1>4, SameNumberTree
  <2> QED BY <1>4, <2>1 DEF ParentTreeFits
<1>5. TooDeep \/ OpenArray \/ SkipOther \/ SkipSeen \/ TooMany \/ VisitElement
        => UNCHANGED <<doc, walk, parent_tree, phase>>
  BY DEF TooDeep, OpenArray, SkipOther, SkipSeen, TooMany, VisitElement, TreeOnly
<1>6. TreeRead \/ ContentRead \/ AssociatePage \/ AssociateObjects \/ Built \/ UNCHANGED structure_vars
        => UNCHANGED <<doc, walk, parent_tree>> /\ (phase' = phase \/ (phase \notin {"ids", "parents"}))
  BY DEF TreeRead, ContentRead, AssociatePage, AssociateObjects, Built, structure_vars
<1> QED
  BY <1>1, <1>2, <1>3, <1>4, <1>5, <1>6 DEF Next

\* A key of merged maps has the value of one of them.
LEMMA MergedFact ==
  ASSUME NEW maps, NEW n \in Nat, DOMAIN maps = 1 .. n, NEW key
  PROVE  /\ key \in DOMAIN Merged(maps) <=> \E i \in DOMAIN maps : key \in DOMAIN maps[i]
         /\ key \in DOMAIN Merged(maps) =>
              \E i \in DOMAIN maps : key \in DOMAIN maps[i] /\ Merged(maps)[key] = maps[i][key]
<1> DEFINE Having == {i \in DOMAIN maps : key \in DOMAIN maps[i]}
           Chosen(i) == /\ i \in DOMAIN maps /\ key \in DOMAIN maps[i]
                        /\ \A j \in DOMAIN maps : key \in DOMAIN maps[j] => j <= i
           last == CHOOSE i \in DOMAIN maps :
                     key \in DOMAIN maps[i] /\ \A j \in DOMAIN maps : key \in DOMAIN maps[j] => j <= i
<1>1. key \in DOMAIN Merged(maps) <=> \E i \in DOMAIN maps : key \in DOMAIN maps[i]
  BY DEF Merged
<1>2. ASSUME Having # {} PROVE \E i : Chosen(i)
  <2> DEFINE S == {n - i : i \in Having}
  <2>1. S \subseteq Nat /\ S # {}
    BY <1>2
  <2>2. PICK m \in S : \A k \in S : m <= k
    <3> HIDE DEF S
    <3> QED BY <2>1, LeastNumber
  <2>3. PICK i \in Having : m = n - i
    BY <2>2
  <2>4. ASSUME NEW j \in Having PROVE j <= i
    <3>1. n - i <= n - j
      BY <2>2, <2>3
    <3>2. i \in 1 .. n /\ j \in 1 .. n
      OBVIOUS
    <3> QED BY <3>1, <3>2
  <2> QED BY <2>3, <2>4
<1>3. ASSUME key \in DOMAIN Merged(maps)
      PROVE  Chosen(last) /\ Merged(maps)[key] = maps[last][key]
  <2>1. Having # {}
    BY <1>1, <1>3
  <2>2. Chosen(last)
    BY <1>2, <2>1
  <2> QED BY <1>3, <2>2 DEF Merged
<1> QED
  BY <1>1, <1>3

-----------------------------------------------------------------------------
(* What the parent tree gives. *)

\* The page of a number: one that says it, and the only one that does.
LEMMA PageOfFact ==
  ASSUME doc \in Documents, NEW p \in DOMAIN doc.pages, NEW number
  PROVE  /\ PageOf(number) = <<"page", doc.pages[p].key>> => doc.pages[p].parent = number
         /\ PageOf(number) = <<"synthetic", doc.pages[p].parent>> => FALSE
         /\ doc.pages[p].parent = number
              /\ (\A q \in DOMAIN doc.pages : doc.pages[q].parent = number => q = p)
            => PageOf(number) = <<"page", doc.pages[p].key>>
<1> DEFINE those == {i \in DOMAIN doc.pages : doc.pages[i].parent = number}
           First1(i) == i \in those /\ \A j \in those : doc.pages[i].rank <= doc.pages[j].rank
           first == CHOOSE i \in those : \A j \in those : doc.pages[i].rank <= doc.pages[j].rank
<1>1. PageOf(number) = IF those = {} THEN <<"synthetic", number>> ELSE <<"page", doc.pages[first].key>>
  BY DEF PageOf
<1>2. /\ \A i \in DOMAIN doc.pages : doc.pages[i].rank \in Nat
      /\ \A i, j \in DOMAIN doc.pages : doc.pages[i].key = doc.pages[j].key => i = j
  BY DocumentShape DEF PageShape
<1>3. ASSUME those # {} PROVE first \in those
  <2> DEFINE S == {doc.pages[i].rank : i \in those}
  <2>1. S \subseteq Nat /\ S # {}
    BY <1>2, <1>3
  <2>2. PICK m \in S : \A k \in S : m <= k
    <3> HIDE DEF S
    <3> QED BY <2>1, LeastNumber
  <2>3. \E i : First1(i)
    BY <2>2
  <2> QED BY <2>3
<1>4. "page" # "synthetic"
  OBVIOUS
<1> HIDE DEF first
<1> QED
  BY <1>1, <1>2, <1>3, <1>4

\* What the parent tree has for marked content is what its entries for the page say,
\* and it has something if they do and the page has its number to itself.
LEMMA ParentTreeSays ==
  ASSUME doc \in Documents, NEW p \in DOMAIN doc.pages, NEW mcid,
         doc.pages[p].parent # None,
         walk.pairs \in Seq(ToSet(walk.pairs)), \A pair \in ToSet(walk.pairs) : pair[2] \in Values
  PROVE  LET map == NumberTree(walk.pairs).mcids
             key == <<<<"page", doc.pages[p].key>>, mcid>>
             given == InParentTree(mcid, doc.pages[p])
         IN /\ key \in DOMAIN map =>
                 map[key] \in given \/ (~EntriesInPlace(doc.pages[p]) /\ map[key] \in DOMAIN doc.arrays)
            /\ <<<<"synthetic", doc.pages[p].parent>>, mcid>> \notin DOMAIN map
            /\ NumberIsItsOwn(p) /\ EntriesInPlace(doc.pages[p]) /\ mcid \in Int /\ given # {}
                 => key \in DOMAIN map
<1> DEFINE pairs == walk.pairs
           page == doc.pages[p]
           map == NumberTree(pairs).mcids
           key == <<<<"page", page.key>>, mcid>>
           given == InParentTree(mcid, page)
           Said(v) == CASE v[1] = "array" -> v[2] [] v[1] = "ref" -> <<v>> [] OTHER -> <<>>
           maps == [i \in DOMAIN pairs |-> Associations(pairs[i][1], pairs[i][2]).mcids]
<1>1. /\ Len(pairs) \in Nat /\ DOMAIN pairs = 1 .. Len(pairs)
      /\ \A i \in DOMAIN pairs : pairs[i][2] \in Values
  BY DEF ToSet
<1>2. map = Merged(maps) /\ DOMAIN maps = 1 .. Len(pairs)
  BY <1>1 DEF NumberTree
<1>3. ASSUME NEW i \in DOMAIN pairs
      PROVE  LET number == pairs[i][1]
                 s == Said(pairs[i][2])
                 owner == At(Owners, number)
                 object == owner # None /\ owner \notin PageKeys
             IN /\ DOMAIN maps[i] = {<<PageOf(number), j - 1>> : j \in {j \in DOMAIN s : ~object /\ s[j][1] = "ref"}}
                /\ \A k \in DOMAIN maps[i] : maps[i][k] = s[k[2] + 1][2]
  BY <1>3 DEF Associations
<1>4. ASSUME NEW v \in Values PROVE Said(v) \in Seq(Values)
  <2>1. v[1] = "array" => v[2] \in Seq(Values)
    BY DocumentShape
  <2>2. <<v>> \in Seq(Values)
    OBVIOUS
  <2> QED BY <2>1, <2>2
<1>5. ASSUME NEW i \in DOMAIN pairs, NEW j \in DOMAIN Said(pairs[i][2]),
             page.parent = pairs[i][1], Said(pairs[i][2])[j][1] = "ref", mcid = j - 1
      PROVE  LET w == Said(pairs[i][2])[j][2]
             IN w \in given \/ (~EntriesInPlace(page) /\ w \in DOMAIN doc.arrays)
  <2> DEFINE v == pairs[i][2]
  <2>1. v \in EntriesFor(page)
    BY <1>5 DEF EntriesFor
  <2>2. DOMAIN Said(v) = 1 .. Len(Said(v)) /\ Len(Said(v)) \in Nat
    <3> HIDE DEF Said
    <3>1. Said(v) \in Seq(Values)
      BY <1>1, <1>4
    <3> QED BY <3>1
  <2>3. j = mcid + 1
    BY <1>5, <2>2
  <2>4. v[1] = "array" \/ (v[1] = "ref" /\ v[1] # "array")
    <3>1. CASE v[1] # "array" /\ v[1] # "ref"
      <4>1. Said(v) = <<>>
        BY <3>1
      <4> QED BY <4>1
    <3> QED BY <3>1
  <2>5. CASE v[1] = "array"
    <3>1. Said(v) = v[2]
      BY <2>5
    <3> HIDE DEF Said
    <3> QED BY <1>5, <2>1, <2>3, <2>5, <3>1 DEF InParentTree
  <2>6. CASE v[1] = "ref" /\ v[1] # "array"
    <3>1. Said(v) = <<v>>
      BY <2>6
    <3>2. j = 1 /\ Said(v)[j] = v /\ mcid = 0
      BY <1>5, <3>1
    <3> HIDE DEF Said
    <3>3. CASE LeadsToArray(v)
      BY <2>1, <3>2, <3>3 DEF EntriesInPlace, LeadsToArray
    <3>4. CASE ~LeadsToArray(v)
      BY <1>5, <2>1, <2>6, <3>2, <3>4 DEF InParentTree
    <3> QED BY <3>3, <3>4
  <2> QED BY <2>4, <2>5, <2>6
<1>6. ASSUME key \in DOMAIN map
      PROVE  map[key] \in given \/ (~EntriesInPlace(page) /\ map[key] \in DOMAIN doc.arrays)
  <2>1. PICK i \in DOMAIN maps : key \in DOMAIN maps[i] /\ map[key] = maps[i][key]
    <3>1. map = Merged(maps) /\ DOMAIN maps = 1 .. Len(pairs) /\ Len(pairs) \in Nat
      BY <1>1, <1>2
    <3>2. key \in DOMAIN map
      BY <1>6
    <3> HIDE DEF maps, key, map, pairs
    <3> QED BY <3>1, <3>2, MergedFact
  <2> DEFINE s == Said(pairs[i][2])
  <2>2. i \in DOMAIN pairs
    BY <1>1, <1>2
  <2>3. PICK j \in DOMAIN s : /\ s[j][1] = "ref"
                              /\ key = <<PageOf(pairs[i][1]), j - 1>>
    <3> HIDE DEF maps, key, Said
    <3> QED BY <1>3, <2>1, <2>2
  <2>4. PageOf(pairs[i][1]) = <<"page", page.key>> /\ mcid = j - 1
    BY <2>3
  <2>5. map[key] = s[(j - 1) + 1][2]
    <3>1. key[2] = j - 1
      BY <2>3
    <3> HIDE DEF maps, key, Said
    <3> QED BY <1>3, <2>1, <2>2, <3>1
  <2>6. j = (j - 1) + 1
    <3>1. s \in Seq(Values)
      BY <1>1, <1>4, <2>2
    <3> HIDE DEF s
    <3> QED BY <3>1
  <2>7. page.parent = pairs[i][1]
    BY <2>4, PageOfFact
  <2> HIDE DEF maps, key, given
  <2> QED BY <1>5, <2>2, <2>3, <2>4, <2>5, <2>6, <2>7
<1>7. ASSUME NEW k, k = <<<<"synthetic", page.parent>>, mcid>>, k \in DOMAIN map PROVE FALSE
  <2>1. PICK i \in DOMAIN maps : k \in DOMAIN maps[i]
    <3> HIDE DEF maps
    <3> QED BY <1>1, <1>2, <1>7, MergedFact
  <2>2. i \in DOMAIN pairs
    BY <1>1, <1>2
  <2>3. PICK j : k = <<PageOf(pairs[i][1]), j - 1>>
    <3> HIDE DEF maps, Said
    <3> QED BY <1>3, <2>1, <2>2
  <2>4. PageOf(pairs[i][1]) = <<"synthetic", page.parent>>
    BY <1>7, <2>3
  <2> QED BY <2>4, PageOfFact
<1>8. ASSUME NumberIsItsOwn(p), EntriesInPlace(page), mcid \in Int, given # {} PROVE key \in DOMAIN map
  <2>1. PICK i \in DOMAIN pairs :
          /\ pairs[i][1] = page.parent
          /\ LET v == pairs[i][2]
             IN \/ v[1] = "ref" /\ mcid = 0
                \/ v[1] = "array" /\ mcid + 1 \in DOMAIN v[2] /\ v[2][mcid + 1][1] = "ref"
    BY <1>8 DEF InParentTree, EntriesFor, EntriesInPlace
  <2> DEFINE v == pairs[i][2]
  <2>2. mcid + 1 \in DOMAIN Said(v) /\ Said(v)[mcid + 1][1] = "ref"
    <3>1. CASE v[1] = "array"
      BY <2>1, <3>1
    <3>2. CASE v[1] = "ref" /\ v[1] # "array"
      <4>1. Said(v) = <<v>> /\ mcid = 0
        BY <2>1, <3>2
      <4> QED BY <3>2, <4>1
    <3> QED BY <2>1, <3>1, <3>2
  <2>3. PageOf(pairs[i][1]) = <<"page", page.key>>
    BY <1>8, <2>1, PageOfFact DEF NumberIsItsOwn
  <2>4. ~(At(Owners, pairs[i][1]) # None /\ At(Owners, pairs[i][1]) \notin PageKeys)
    BY <1>8, <2>1 DEF NumberIsItsOwn
  <2>5. (mcid + 1) - 1 = mcid
    BY <1>8
  <2>6. key \in DOMAIN maps[i]
    <3> HIDE DEF Said, maps
    <3> DEFINE those == {j \in DOMAIN Said(v) :
                          /\ ~(At(Owners, pairs[i][1]) # None /\ At(Owners, pairs[i][1]) \notin PageKeys)
                          /\ Said(v)[j][1] = "ref"}
    <3>1. mcid + 1 \in those
      BY <2>2, <2>4
    <3>2. DOMAIN maps[i] = {<<PageOf(pairs[i][1]), j - 1>> : j \in those}
      BY <1>3
    <3> HIDE DEF those
    <3>3. <<PageOf(pairs[i][1]), (mcid + 1) - 1>> \in DOMAIN maps[i]
      BY <3>1, <3>2
    <3> QED BY <2>3, <2>5, <3>3
  <2> HIDE DEF maps, key
  <2> QED BY <1>1, <1>2, <2>6, MergedFact
<1> QED
  BY <1>6, <1>7, <1>8

-----------------------------------------------------------------------------
(* The pages of nodes, and what they list. *)

\* A node is on the page its dictionary says, or on the page of its parent, and has the
\* items of its kids there; what waits brings that page with it.
PageAbove(p) == IF p = 0 THEN None ELSE nodes[p].page
NodePaged(n) ==
  /\ nodes[n].dict \in DOMAIN doc.dict /\ nodes[n].key \in {None, nodes[n].dict}
  /\ nodes[n].page = Or(doc.dict[nodes[n].dict].page, PageAbove(nodes[n].parent))
  /\ nodes[n].items = ItemsOf(KidsOf(doc.dict[nodes[n].dict]), nodes[n].page)
WaitPaged(k) ==
  /\ "page" \in DOMAIN stack[k]
  /\ stack[k].parent = 0 => stack[k].page = None
  /\ stack[k].parent # 0 =>
       /\ stack[k].page = Or(Dict(stack[k].value).page, nodes[stack[k].parent].page)
       /\ stack[k].value[1] # "array"
PagesFit == (\A n \in DOMAIN nodes : NodePaged(n)) /\ \A k \in DOMAIN stack : WaitPaged(k)

\* What an element lists depends on the document alone.
LEMMA SameItems ==
  ASSUME doc' = doc
  PROVE  \A kids, page : ItemsOf(kids, page)' = ItemsOf(kids, page)
<1>1. \A v, p : ContentOf(v, p)' = ContentOf(v, p)
  BY DEF ContentOf, structure_dictionary, Dict
<1> QED BY <1>1 DEF ItemsOf

\* What is passed over or read changes nothing of it.
LEMMA PagesStay ==
  ASSUME TreeInv, PagesFit, doc' = doc, nodes' = nodes,
         \A k \in DOMAIN stack' :
           \/ k \in DOMAIN stack /\ stack'[k] = stack[k]
           \/ "page" \in DOMAIN stack'[k] /\ stack'[k].parent = 0 /\ stack'[k].page = None
  PROVE  PagesFit'
<1>1. ASSUME NEW n \in DOMAIN nodes' PROVE NodePaged(n)'
  <2>1. NodePaged(n)
    BY <1>1 DEF PagesFit
  <2>2. ItemsOf(KidsOf(doc.dict[nodes[n].dict]), nodes[n].page)'
          = ItemsOf(KidsOf(doc.dict[nodes[n].dict]), nodes[n].page)
    BY SameItems
  <2> QED BY <2>1, <2>2 DEF NodePaged, PageAbove
<1>2. ASSUME NEW k \in DOMAIN stack' PROVE WaitPaged(k)'
  <2>1. CASE k \in DOMAIN stack /\ stack'[k] = stack[k]
    BY <2>1 DEF PagesFit, WaitPaged, Dict
  <2>2. CASE "page" \in DOMAIN stack'[k] /\ stack'[k].parent = 0 /\ stack'[k].page = None
    BY <2>2 DEF WaitPaged
  <2> QED BY <1>2, <2>1, <2>2
<1> QED
  BY <1>1, <1>2 DEF PagesFit

\* A new node fits, and so does what it puts on the stack.
LEMMA PagesVisit ==
  ASSUME TreeInv, PagesFit, VisitElement
  PROVE  PagesFit'
<1> DEFINE L == Len(nodes)
           B == Len(stack) - 1
           s == Elements(KidsOf(Dict(Top.value)))
           new == NewNode(Top)
           old == WithChild(Top.parent, L + 1)
           more == [i \in DOMAIN s |-> [value |-> s[i], parent |-> L + 1,
                                         page |-> Or(Dict(s[i]).page, new.page),
                                         depth |-> Top.depth + 1]]
<1>1. /\ Turn /\ AddNode(Top) /\ doc' = doc /\ Top.parent \in 0 .. L /\ stack' = Front(stack) \o more
      /\ IsElement(Top.value)
  BY TopWaits DEF VisitElement, InDepth, Waiting, AddNode, TreeOnly
<1>2. /\ Top = stack[Len(stack)] /\ Len(stack) \in DOMAIN stack /\ Len(stack) \in Nat
      /\ DOMAIN stack = 1 .. Len(stack)
  BY <1>1, StackTop
<1>3. /\ s \in Seq(Values) /\ \A i \in 1 .. Len(s) : IsElement(s[i])
  <2>1. KidsOf(Dict(Top.value)) \in Seq(Values)
    BY ElementHasKids DEF TreeInv, VisitElement, IsNew
  <2> QED BY <2>1, ElementsAreKids, ElementsPick DEF Picks
<1>4. /\ new.dict = Top.value[2] /\ new.parent = Top.parent
      /\ new.page = Or(Dict(Top.value).page, Top.page)
      /\ new.items = ItemsOf(KidsOf(Dict(Top.value)), new.page)
      /\ new.key \in {None, new.dict}
  BY DEF NewNode, KeyOf
<1>5. \A n \in DOMAIN nodes : /\ old[n].dict = nodes[n].dict /\ old[n].parent = nodes[n].parent
                              /\ old[n].page = nodes[n].page /\ old[n].items = nodes[n].items
                              /\ old[n].key = nodes[n].key
  BY DEF WithChild
<1> HIDE DEF old, new
<1>6. /\ L \in Nat /\ DOMAIN nodes = 1 .. L /\ DOMAIN nodes' = 1 .. L + 1
      /\ \A n \in 1 .. L : nodes'[n] = old[n]
      /\ nodes'[L + 1] = new
  BY <1>1, NodesGrow DEF TreeInv, NodesFit, old, new
<1>7. \A n \in 1 .. L : /\ nodes'[n].dict = nodes[n].dict /\ nodes'[n].parent = nodes[n].parent
                         /\ nodes'[n].page = nodes[n].page /\ nodes'[n].items = nodes[n].items
                         /\ nodes'[n].key = nodes[n].key
  BY <1>5, <1>6
<1>8. \A n \in 1 .. L : nodes[n].parent \in 0 .. n - 1
  BY <1>6, Numbers
<1> HIDE DEF s, L
<1>9. Len(s) \in Nat /\ DOMAIN s = 1 .. Len(s)
  BY <1>3
<1>10. \A i \in 1 .. Len(s) : /\ more[i].value = s[i] /\ more[i].parent = L + 1
                              /\ "page" \in DOMAIN more[i] /\ more[i].page = Or(Dict(s[i]).page, new.page)
  BY <1>9
<1> DEFINE V == {more[i] : i \in DOMAIN more}
<1>11. more \in Seq(V) /\ Len(more) = Len(s)
  <2>1. more = [i \in 1 .. Len(s) |-> more[i]]
    BY <1>9
  <2> HIDE DEF more
  <2> QED BY <1>9, <2>1, OverItself
<1> HIDE DEF more, V
<1>12. /\ DOMAIN stack' = 1 .. B + Len(s)
       /\ \A k \in 1 .. B : stack'[k] = stack[k]
       /\ \A i \in 1 .. Len(s) : stack'[B + i] = more[i]
  BY <1>1, <1>11, StackPush
<1>13. ASSUME NEW n \in DOMAIN nodes' PROVE NodePaged(n)'
  <2>1. CASE n \in 1 .. L
    <3>1. NodePaged(n) /\ n # L + 1
      BY <1>6, <2>1 DEF PagesFit
    <3>2. ItemsOf(KidsOf(doc.dict[nodes[n].dict]), nodes[n].page)'
            = ItemsOf(KidsOf(doc'.dict[nodes'[n].dict]), nodes'[n].page)
      BY <1>1, SameItems
    <3>3. PageAbove(nodes[n].parent)' = PageAbove(nodes[n].parent)
      <4>1. nodes[n].parent # 0 => nodes[n].parent \in 1 .. L
        BY <1>6, <1>8, <2>1
      <4> QED BY <1>7, <2>1, <4>1 DEF PageAbove
    <3> QED BY <1>1, <1>7, <2>1, <3>1, <3>2, <3>3 DEF NodePaged
  <2>2. CASE n = L + 1
    <3>1. /\ Top.value[2] \in DOMAIN doc.dict /\ Dict(Top.value) = doc.dict[Top.value[2]]
      BY <1>1, ElementNames DEF Dict
    <3>2. ItemsOf(KidsOf(doc.dict[nodes[n].dict]), nodes[n].page)'
            = ItemsOf(KidsOf(doc'.dict[nodes'[n].dict]), nodes'[n].page)
      BY <1>1, SameItems
    <3>3. WaitPaged(Len(stack))
      BY <1>2 DEF PagesFit
    <3>4. new.page = Or(Dict(Top.value).page, PageAbove(Top.parent))
      <4>1. CASE Top.parent = 0
        BY <1>2, <1>4, <3>3, <4>1 DEF WaitPaged, PageAbove
      <4>2. CASE Top.parent # 0
        BY <1>2, <1>4, <3>3, <4>2 DEF WaitPaged, PageAbove, Or
      <4> QED BY <4>1, <4>2
    <3>5. PageAbove(nodes[n].parent)' = PageAbove(Top.parent)
      <4>1. nodes'[n].parent = Top.parent
        BY <1>4, <1>6, <2>2
      <4>2. Top.parent # 0 => Top.parent \in 1 .. L
        BY <1>1, <1>6
      <4> QED BY <1>7, <4>1, <4>2 DEF PageAbove
    <3>6. nodes'[n] = new
      BY <1>6, <2>2
    <3> QED BY <1>1, <1>4, <3>1, <3>2, <3>4, <3>5, <3>6 DEF NodePaged
  <2> QED BY <1>6, <2>1, <2>2
<1>14. ASSUME NEW k \in DOMAIN stack' PROVE WaitPaged(k)'
  <2>1. CASE k \in 1 .. B
    <3>1. k \in DOMAIN stack /\ stack'[k] = stack[k] /\ WaitPaged(k)
      BY <1>2, <1>12, <2>1 DEF PagesFit
    <3>2. stack[k].parent # 0 => stack[k].parent \in 1 .. L
      BY <1>6, <3>1, Numbers
    <3> QED BY <1>1, <1>7, <3>1, <3>2 DEF WaitPaged, Dict
  <2>2. CASE k \in B + 1 .. B + Len(s)
    <3>1. k - B \in 1 .. Len(s) /\ B + (k - B) = k /\ B \in Int
      BY <1>2, <1>9, <2>2
    <3>2. stack'[k] = more[k - B]
      BY <1>12, <3>1
    <3>3. s[k - B][1] # "array"
      BY <1>3, <3>1, ElementNames
    <3>4. L + 1 # 0 /\ nodes'[L + 1].page = new.page
      BY <1>6
    <3> QED BY <1>1, <1>10, <3>1, <3>2, <3>3, <3>4 DEF WaitPaged, Dict
  <2> QED BY <1>2, <1>9, <1>12, <2>1, <2>2
<1> QED
  BY <1>13, <1>14 DEF PagesFit

\* Every step keeps the pages.
LEMMA NextPages == TreeInv /\ PagesFit /\ [Next]_structure_vars => PagesFit'
<1> SUFFICES ASSUME TreeInv, PagesFit, [Next]_structure_vars PROVE PagesFit'
  OBVIOUS
<1>1. CASE VisitElement
  BY <1>1, PagesVisit
<1>2. CASE OpenArray
  <2> DEFINE values == Top.value[2]
             each == [i \in DOMAIN values |-> [Top EXCEPT !.value = values[i]]]
             more == Reverse(each)
             n == Len(values)
  <2>1. /\ Turn /\ Waiting(Top, Len(nodes)) /\ stack' = Front(stack) \o more
        /\ UNCHANGED <<doc, nodes>> /\ Top.value[1] = "array"
    BY <1>2, TopWaits DEF OpenArray, InDepth, TreeOnly
  <2>2. Len(stack) \in DOMAIN stack /\ Top = stack[Len(stack)] /\ DOMAIN stack = 1 .. Len(stack)
    BY <2>1, StackTop
  <2>3. WaitPaged(Len(stack))
    BY <2>2 DEF PagesFit
  <2>4. "page" \in DOMAIN Top /\ "parent" \in DOMAIN Top /\ Top.parent = 0 /\ Top.page = None
    BY <2>1, <2>2, <2>3 DEF WaitPaged, Waiting
  <2>5. values \in Seq(Values)
    BY <2>1, DocumentShape DEF Waiting
  <2> HIDE DEF values
  <2>6. n \in Nat /\ DOMAIN values = 1 .. n
    BY <2>5
  <2> HIDE DEF n
  <2>7. DOMAIN each = 1 .. n /\ Len(each) = n
    BY <2>6
  <2>8. more = [i \in 1 .. n |-> each[(n - i) + 1]]
    BY <2>7 DEF Reverse
  <2>9. ASSUME NEW i \in 1 .. n
        PROVE  "page" \in DOMAIN more[i] /\ more[i].parent = 0 /\ more[i].page = None
    <3>1. (n - i) + 1 \in 1 .. n
      BY <2>6
    <3>2. more[i] = [Top EXCEPT !.value = values[(n - i) + 1]]
      BY <2>6, <2>8, <3>1
    <3> HIDE DEF more
    <3> QED BY <2>4, <3>2
  <2> DEFINE V == {more[i] : i \in DOMAIN more}
  <2>10. more \in Seq(V) /\ Len(more) = n
    <3>1. more = [i \in 1 .. n |-> more[i]]
      BY <2>8
    <3> HIDE DEF more
    <3> QED BY <2>6, <3>1, OverItself
  <2> HIDE DEF more, V
  <2>11. /\ DOMAIN stack' = 1 .. (Len(stack) - 1) + n
         /\ \A k \in 1 .. Len(stack) - 1 : stack'[k] = stack[k]
         /\ \A i \in 1 .. n : stack'[(Len(stack) - 1) + i] = more[i]
    BY <2>1, <2>10, StackPush
  <2>12. ASSUME NEW k \in DOMAIN stack'
         PROVE  \/ k \in DOMAIN stack /\ stack'[k] = stack[k]
                \/ "page" \in DOMAIN stack'[k] /\ stack'[k].parent = 0 /\ stack'[k].page = None
    <3>1. Len(stack) \in Nat
      BY Numbers
    <3>2. k \in 1 .. Len(stack) - 1
            \/ (k - (Len(stack) - 1) \in 1 .. n /\ (Len(stack) - 1) + (k - (Len(stack) - 1)) = k)
      BY <2>6, <2>11, <3>1
    <3>3. CASE k \in 1 .. Len(stack) - 1
      BY <2>2, <2>11, <3>1, <3>3
    <3>4. CASE k - (Len(stack) - 1) \in 1 .. n /\ (Len(stack) - 1) + (k - (Len(stack) - 1)) = k
      <4>1. stack'[k] = more[k - (Len(stack) - 1)]
        BY <2>11, <3>4
      <4> QED BY <2>9, <3>4, <4>1
    <3> QED BY <3>2, <3>3, <3>4
  <2> QED BY <2>1, <2>12, PagesStay
<1>3. CASE TooDeep \/ SkipOther \/ SkipSeen \/ TooMany
  <2>1. Turn /\ UNCHANGED <<doc, nodes>> /\ stack' = Front(stack)
    BY <1>3 DEF TooDeep, SkipOther, SkipSeen, TooMany, Skip, InDepth, TreeOnly
  <2>2. /\ DOMAIN stack' = 1 .. Len(stack) - 1 /\ DOMAIN stack = 1 .. Len(stack) /\ Len(stack) \in Nat
        /\ \A k \in 1 .. Len(stack) - 1 : stack'[k] = stack[k]
    BY <2>1, PopParts, StackTop
  <2> QED BY <2>1, <2>2, PagesStay
<1>4. CASE \/ WalkTree \/ IdTreeRead \/ ParentTreeRead \/ TreeRead
           \/ AssociatePage \/ ContentRead \/ AssociateObjects \/ Built \/ UNCHANGED structure_vars
  <2>1. UNCHANGED <<doc, nodes>>
    BY <1>4, QuietSteps
  <2>2. CASE stack' = stack
    BY <2>1, <2>2, PagesStay
  <2>3. CASE stack' = <<>>
    BY <2>1, <2>3, PagesStay
  <2>4. CASE stack' = <<[value |-> doc.k, parent |-> 0, page |-> None, depth |-> 0]>>
    <3>1. \A k \in DOMAIN stack' :
            "page" \in DOMAIN stack'[k] /\ stack'[k].parent = 0 /\ stack'[k].page = None
      BY <2>4
    <3> QED BY <2>1, <3>1, PagesStay
  <2> QED BY <1>4, <2>2, <2>3, <2>4, QuietSteps
<1> QED
  BY <1>1, <1>2, <1>3, <1>4 DEF Next

\* Following pages down from the root gives the page each node has.
LEMMA PageSaidFact ==
  ASSUME TreeInv, PagesFit, NEW n \in DOMAIN nodes
  PROVE  PageSaid(n) = nodes[n].page
<1> DEFINE L == Len(nodes)
           own(m) == doc.dict[nodes[m].dict].page
           Says(g) == g = [m \in 0 .. L |-> IF m = 0 THEN None ELSE Or(own(m), g[nodes[m].parent])]
           said == CHOOSE g : Says(g)
           pages == [m \in 0 .. L |-> PageAbove(m)]
<1>1. L \in Nat /\ DOMAIN nodes = 1 .. L /\ \A m \in 1 .. L : nodes[m].parent \in 0 .. m - 1
  BY Numbers
<1>2. \A m \in 1 .. L : nodes[m].page = Or(own(m), PageAbove(nodes[m].parent))
  BY <1>1 DEF PagesFit, NodePaged
<1>3. Says(pages)
  <2>1. ASSUME NEW m \in 0 .. L
        PROVE  pages[m] = IF m = 0 THEN None ELSE Or(own(m), pages[nodes[m].parent])
    <3>1. CASE m = 0
      BY <1>1, <3>1 DEF PageAbove
    <3>2. CASE m \in 1 .. L
      <4>1. nodes[m].parent \in 0 .. L /\ m # 0
        BY <1>1, <3>2
      <4>2. pages[m] = nodes[m].page /\ pages[nodes[m].parent] = PageAbove(nodes[m].parent)
        BY <3>2, <4>1 DEF PageAbove
      <4> QED BY <1>2, <3>2, <4>1, <4>2
    <3> QED BY <1>1, <3>1, <3>2
  <2>2. pages = [m \in 0 .. L |-> pages[m]]
    OBVIOUS
  <2> HIDE DEF pages, own
  <2> QED BY <2>1, <2>2
<1>4. Says(said)
  <2> HIDE DEF Says, pages
  <2> QED BY <1>3
<1> HIDE DEF said
<1>5. ASSUME NEW m \in 0 .. L
      PROVE  said[m] = IF m = 0 THEN None ELSE Or(own(m), said[nodes[m].parent])
  <2> HIDE DEF own
  <2> QED BY <1>4
<1>6. ASSUME NEW m \in 0 .. L, \A k \in 0 .. m - 1 : said[k] = PageAbove(k)
      PROVE  said[m] = PageAbove(m)
  <2>1. CASE m = 0
    BY <1>1, <1>5, <2>1 DEF PageAbove
  <2>2. CASE m \in 1 .. L
    <3>1. m # 0 /\ nodes[m].parent \in 0 .. m - 1
      BY <1>1, <2>2
    <3> HIDE DEF own
    <3>2. said[m] = Or(own(m), PageAbove(nodes[m].parent))
      BY <1>5, <1>6, <3>1
    <3> QED BY <1>2, <2>2, <3>1, <3>2 DEF PageAbove
  <2> QED BY <1>1, <2>1, <2>2
<1>7. \A m \in 0 .. L : said[m] = PageAbove(m)
  <2> DEFINE Wrong == {m \in 0 .. L : said[m] # PageAbove(m)}
  <2>1. ASSUME Wrong # {} PROVE FALSE
    <3>1. Wrong \subseteq Nat
      BY <1>1
    <3>2. PICK m \in Wrong : \A k \in Wrong : m <= k
      <4> HIDE DEF Wrong
      <4> QED BY <2>1, <3>1, LeastNumber
    <3>3. m \in 0 .. L /\ said[m] # PageAbove(m)
      BY <3>2
    <3>4. ASSUME NEW k \in 0 .. m - 1 PROVE said[k] = PageAbove(k)
      <4>1. k \in 0 .. L /\ ~(m <= k)
        BY <1>1, <3>3
      <4> QED BY <3>2, <4>1
    <3> QED BY <1>6, <3>3, <3>4
  <2> QED BY <2>1
<1>8. PageSaid(n) = said[n]
  BY DEF PageSaid, said, Says, own
<1>9. n \in 0 .. L /\ n # 0
  BY <1>1
<1> QED
  BY <1>7, <1>8, <1>9 DEF PageAbove

\* A kid of an element on a page lists a number as marked content on some page.
KidLists(v, own, mcid, page) ==
  \/ v[1] = "int" /\ v[2] = mcid /\ own = page
  \/ structure_dictionary(v) /\ Dict(v).is = "mcr" /\ Dict(v).mcid = mcid /\ Or(Dict(v).page, own) = page
HasMcid(items, mcid, page) == \E i \in DOMAIN items : items[i] = <<"mcid", mcid, page>>

\* The marked content among the items is what the kids list.
LEMMA ItemsSay ==
  ASSUME NEW kids \in Seq(Values), NEW page, NEW mcid, mcid # None, NEW on
  PROVE  HasMcid(ItemsOf(kids, page), mcid, on) <=> \E v \in ToSet(kids) : KidLists(v, page, mcid, on)
<1> DEFINE N == Len(kids)
           contents == [i \in DOMAIN kids |-> ContentOf(kids[i], page)]
           x == <<"mcid", mcid, on>>
           Lists1(v) == KidLists(v, page, mcid, on)
           S == {x} \cup UNION {{ContentOf(kids[i], page)[j] : j \in DOMAIN ContentOf(kids[i], page)} : i \in DOMAIN kids}
<1>1. N \in Nat /\ DOMAIN kids = 1 .. N
  OBVIOUS
<1>2. ASSUME NEW v PROVE \/ ContentOf(v, page) = <<>> /\ ~Lists1(v)
                         \/ \E c : ContentOf(v, page) = <<c>> /\ (c = x <=> Lists1(v))
  <2>1. CASE v[1] = "int"
    <3>2. ~structure_dictionary(v)
      BY <2>1 DEF structure_dictionary, IsDict
    <3>1. ContentOf(v, page) = <<<<"mcid", v[2], page>>>>
      BY <2>1, <3>2 DEF ContentOf
    <3>3. <<"mcid", v[2], page>> = x <=> Lists1(v)
      BY <2>1, <3>2 DEF KidLists
    <3> QED BY <3>1, <3>3
  <2>2. CASE v[1] # "int" /\ ~structure_dictionary(v)
    <3>1. ContentOf(v, page) = <<>>
      BY <2>2 DEF ContentOf
    <3> QED BY <2>2, <3>1 DEF KidLists
  <2>3. CASE v[1] # "int" /\ structure_dictionary(v) /\ Dict(v).is = "mcr" /\ Dict(v).mcid # None
    <3>1. ContentOf(v, page) = <<<<"mcid", Dict(v).mcid, Or(Dict(v).page, page)>>>>
      BY <2>3 DEF ContentOf
    <3>2. <<"mcid", Dict(v).mcid, Or(Dict(v).page, page)>> = x <=> Lists1(v)
      BY <2>3 DEF KidLists
    <3> QED BY <3>1, <3>2
  <2>4. CASE v[1] # "int" /\ structure_dictionary(v) /\ Dict(v).is = "objr"
    <3>1. ContentOf(v, page) = <<<<"object", Dict(v).target, Or(Dict(v).page, page)>>>>
      BY <2>4 DEF ContentOf
    <3>2. <<"object", Dict(v).target, Or(Dict(v).page, page)>> # x /\ ~Lists1(v)
      BY <2>4 DEF KidLists
    <3> QED BY <3>1, <3>2
  <2>5. CASE /\ v[1] # "int" /\ structure_dictionary(v) /\ Dict(v).is # "objr"
             /\ ~(Dict(v).is = "mcr" /\ Dict(v).mcid # None)
    <3>1. ContentOf(v, page) = <<>>
      BY <2>5 DEF ContentOf
    <3>2. ~Lists1(v)
      BY <2>5 DEF KidLists
    <3> QED BY <3>1, <3>2
  <2> QED BY <2>1, <2>2, <2>3, <2>4, <2>5
<1> HIDE DEF Lists1, x
<1>3. ASSUME NEW i \in 1 .. N
      PROVE  /\ contents[i] \in Seq(S)
             /\ (\E j \in DOMAIN contents[i] : contents[i][j] = x) <=> Lists1(kids[i])
  <2>1. contents[i] = ContentOf(kids[i], page)
    BY <1>1
  <2> HIDE DEF contents
  <2>2. ASSUME NEW j \in DOMAIN contents[i] PROVE contents[i][j] \in S
    <3>1. i \in DOMAIN kids /\ j \in DOMAIN ContentOf(kids[i], page)
      BY <1>1, <2>1, <2>2
    <3> QED BY <2>1, <3>1
  <2> HIDE DEF S
  <2>3. CASE contents[i] = <<>> /\ ~Lists1(kids[i])
    BY <2>3
  <2>4. CASE \E c : contents[i] = <<c>> /\ (c = x <=> Lists1(kids[i]))
    <3>1. PICK c : contents[i] = <<c>> /\ (c = x <=> Lists1(kids[i]))
      BY <2>4
    <3>2. DOMAIN contents[i] = {1} /\ contents[i][1] = c
      BY <3>1
    <3>3. c \in S
      BY <2>2, <3>2
    <3>4. <<c>> \in Seq(S)
      BY <3>3
    <3> QED BY <3>1, <3>2, <3>4
  <2> QED BY <1>2, <2>1, <2>3, <2>4
<1>4. contents \in Seq(Seq(S)) /\ DOMAIN contents = 1 .. N
  <2>1. contents = [i \in 1 .. N |-> contents[i]]
    BY <1>1
  <2> HIDE DEF contents, S
  <2> QED BY <1>1, <1>3, <2>1
<1>5. x \in S
  OBVIOUS
<1>6. ItemsOf(kids, page) = FlattenSeq(contents)
  BY DEF ItemsOf
<1> HIDE DEF contents, S
<1>7. (\E k \in DOMAIN ItemsOf(kids, page) : ItemsOf(kids, page)[k] = x)
        <=> \E i \in DOMAIN contents : \E j \in DOMAIN contents[i] : contents[i][j] = x
  <2> DEFINE F == FlattenSeq(contents)
  <2>1. /\ \A k \in DOMAIN F : \E i \in DOMAIN contents : \E j \in DOMAIN contents[i] : contents[i][j] = F[k]
        /\ \A i \in DOMAIN contents : \A j \in DOMAIN contents[i] : \E k \in DOMAIN F : F[k] = contents[i][j]
    BY <1>4, FlattenFact
  <2> HIDE DEF F
  <2>2. (\E k \in DOMAIN F : F[k] = x)
          <=> \E i \in DOMAIN contents : \E j \in DOMAIN contents[i] : contents[i][j] = x
    BY <2>1
  <2> QED BY <1>6, <2>2 DEF F
<1>8. (\E v \in ToSet(kids) : Lists1(v)) <=> \E i \in 1 .. N : Lists1(kids[i])
  BY <1>1 DEF ToSet
<1>9. (\E k \in DOMAIN ItemsOf(kids, page) : ItemsOf(kids, page)[k] = x) <=> \E v \in ToSet(kids) : Lists1(v)
  BY <1>3, <1>4, <1>7, <1>8
<1> QED
  BY <1>9 DEF Lists1, x, HasMcid

\* So the nodes that claim marked content are those whose elements list it.
LEMMA ClaimsAreListed ==
  ASSUME TreeInv, PagesFit, NEW page, NEW mcid, mcid # None
  PROVE  Claims(page, mcid) = {n \in DOMAIN nodes : Lists(n, mcid, page)}
<1> SUFFICES ASSUME NEW n \in DOMAIN nodes PROVE HasMcid(nodes[n].items, mcid, page) <=> Lists(n, mcid, page)
  BY DEF Claims, HasMcid
<1> DEFINE kids == KidsOf(doc.dict[nodes[n].dict])
<1>1. NodePaged(n) /\ PageSaid(n) = nodes[n].page
  BY PageSaidFact DEF PagesFit
<1>2. kids \in Seq(Values)
  <2>1. doc.dict[nodes[n].dict].k \in Values
    BY <1>1, DocumentShape DEF NodePaged, TreeInv
  <2> QED BY <2>1, KidsAreValues
<1>3. nodes[n].items = ItemsOf(kids, nodes[n].page)
  BY <1>1 DEF NodePaged
<1> HIDE DEF kids
<1> QED
  <2>1. HasMcid(ItemsOf(kids, nodes[n].page), mcid, page)
          <=> \E v \in ToSet(kids) : KidLists(v, nodes[n].page, mcid, page)
    BY <1>2, ItemsSay
  <2>2. Lists(n, mcid, page) <=> \E v \in ToSet(kids) : KidLists(v, nodes[n].page, mcid, page)
    BY <1>1 DEF Lists, KidLists, kids
  <2> QED BY <1>3, <2>1, <2>2

\* Of the nodes that have a key, there is one.
LEMMA NodeOfFact ==
  ASSUME TreeInv, NEW key
  PROVE  /\ NodeOf(key) # None => NodeOf(key) \in DOMAIN nodes /\ nodes[NodeOf(key)].key = key
         /\ key # None /\ (\E n \in DOMAIN nodes : nodes[n].key = key) => NodeOf(key) \in DOMAIN nodes
<1> DEFINE those == {id \in DOMAIN nodes : nodes[id].key = key}
<1>1. ASSUME key # None, NEW n \in those PROVE NodeOf(key) = n
  <2>1. those = {n}
    BY <1>1 DEF TreeInv, NodesFormTree, KeysOnce
  <2>2. n \in Int
    BY Numbers
  <2>3. Latest({n}) = n
    BY <2>2 DEF Latest
  <2> QED BY <1>1, <2>1, <2>3 DEF NodeOf
<1>2. key = None \/ those = {} => NodeOf(key) = None
  BY DEF NodeOf
<1> QED
  BY <1>1, <1>2

\* The node that is given marked content is one that lists it, or else the one the
\* parent tree gives.
Owned(p, mcid, node) ==
  LET listed == {n \in DOMAIN nodes : Lists(n, mcid, doc.pages[p].key)}
      given == InParentTree(mcid, doc.pages[p])
  IN /\ listed # {} => node \in listed
     /\ listed = {} /\ node # None => node \in DOMAIN nodes /\ nodes[node].key \in given
     /\ listed = {} /\ NumberIsItsOwn(p) /\ EntriesInPlace(doc.pages[p]) /\ given # {}
          /\ (\A key \in given : \E n \in DOMAIN nodes : nodes[n].key = key)
        => node # None

\* No reference of the parent tree is to nothing.
LEMMA GivenIsNamed ==
  ASSUME doc \in Documents, NEW page, NEW mcid, \A pair \in ToSet(walk.pairs) : pair[2] \in Values
  PROVE  None \notin InParentTree(mcid, page)
<1> SUFFICES ASSUME None \in InParentTree(mcid, page) PROVE FALSE
  OBVIOUS
<1>1. PICK v : /\ v[2] = None /\ v[1] = "ref"
               /\ \/ v \in EntriesFor(page)
                  \/ \E w \in EntriesFor(page) :
                       w[1] = "array" /\ mcid + 1 \in DOMAIN w[2] /\ v = w[2][mcid + 1]
                  \/ \E a \in DOMAIN doc.arrays :
                       mcid + 1 \in DOMAIN doc.arrays[a] /\ v = doc.arrays[a][mcid + 1]
  BY DEF InParentTree, LeadsToArray
<1>2. EntriesFor(page) \subseteq Values
  BY DEF EntriesFor, ToSet
<1>3. CASE \E w \in EntriesFor(page) : w[1] = "array" /\ mcid + 1 \in DOMAIN w[2] /\ v = w[2][mcid + 1]
  <2>1. PICK w \in Values : w[1] = "array" /\ mcid + 1 \in DOMAIN w[2] /\ v = w[2][mcid + 1]
    BY <1>2, <1>3
  <2>2. w[2] \in Seq(Values)
    BY <2>1, DocumentShape
  <2>3. v \in Values
    BY <2>1, <2>2
  <2> QED BY <1>1, <2>3, DocumentShape
<1>4. CASE \E a \in DOMAIN doc.arrays : mcid + 1 \in DOMAIN doc.arrays[a] /\ v = doc.arrays[a][mcid + 1]
  <2>1. PICK a \in DOMAIN doc.arrays : mcid + 1 \in DOMAIN doc.arrays[a] /\ v = doc.arrays[a][mcid + 1]
    BY <1>4
  <2>2. doc.arrays[a] \in Seq(Values)
    BY <2>1, DocumentShape
  <2>3. v \in Values
    BY <2>1, <2>2
  <2> QED BY <1>1, <2>3, DocumentShape
<1>5. CASE v \in EntriesFor(page)
  BY <1>1, <1>2, <1>5, DocumentShape
<1> QED BY <1>1, <1>3, <1>4, <1>5

LEMMA OwnerFits ==
  ASSUME TreeInv, PagesFit, ParentTreeFits, phase \notin {"ids", "parents"},
         NEW p \in DOMAIN doc.pages, NEW mcid \in Int, mcid # None
  PROVE  Owned(p, mcid, OwnerOf(doc.pages[p], mcid))
<1> DEFINE page == doc.pages[p]
           listed == {n \in DOMAIN nodes : Lists(n, mcid, page.key)}
           given == InParentTree(mcid, page)
           map == parent_tree.mcids
           own == <<<<"page", page.key>>, mcid>>
           other == <<<<"synthetic", page.parent>>, mcid>>
           key == Or(At(map, own), IF page.parent > 0 THEN At(map, other) ELSE None)
           node == OwnerOf(page, mcid)
<1>1. Claims(page.key, mcid) = listed
  BY ClaimsAreListed
<1>2. ASSUME listed # {} PROVE node \in listed
  <2>1. listed \subseteq Nat
    BY Numbers
  <2>2. PICK n \in listed : \A m \in listed : n <= m
    <3> HIDE DEF listed
    <3> QED BY <1>2, <2>1, LeastNumber
  <2>3. First(listed) \in listed
    <3> HIDE DEF listed
    <3> QED BY <2>2 DEF First
  <2>4. node = First(listed)
    <3> HIDE DEF listed
    <3> QED BY <1>1, <1>2 DEF OwnerOf
  <2> QED BY <2>3, <2>4
<1>3. CASE listed = {} /\ page.parent = None
  <2>1. node = None
    <3> HIDE DEF listed
    <3> QED BY <1>1, <1>3 DEF OwnerOf
  <2>2. given = {}
    <3>1. EntriesFor(page) = {}
      BY <1>3 DEF EntriesFor
    <3> QED BY <3>1 DEF InParentTree
  <2> QED BY <1>3, <2>1, <2>2 DEF Owned
<1>4. CASE listed = {} /\ page.parent # None
  <2>1. /\ own \in DOMAIN map =>
             map[own] \in given \/ (~EntriesInPlace(page) /\ map[own] \in DOMAIN doc.arrays)
        /\ other \notin DOMAIN map
        /\ NumberIsItsOwn(p) /\ EntriesInPlace(page) /\ given # {} => own \in DOMAIN map
    <3>1. /\ walk.pairs \in Seq(ToSet(walk.pairs)) /\ \A pair \in ToSet(walk.pairs) : pair[2] \in Values
          /\ parent_tree = NumberTree(walk.pairs) /\ doc \in Documents
      BY DEF ParentTreeFits, TreeInv
    <3> QED BY <1>4, <3>1, ParentTreeSays
  <2>2. None \notin given
    BY GivenIsNamed DEF ParentTreeFits, TreeInv
  <2>3. node = NodeOf(key)
    <3> HIDE DEF listed
    <3> QED BY <1>1, <1>4 DEF OwnerOf
  <2>4. key = At(map, own)
    BY <2>1 DEF Or, At
  <2> HIDE DEF key, node, given, map, own
  <2>5. ASSUME node # None PROVE node \in DOMAIN nodes /\ nodes[node].key \in given
    <3>1. node \in DOMAIN nodes /\ nodes[node].key = key
      BY <2>3, <2>5, NodeOfFact
    <3>2. key # None
      BY <2>3, <2>5 DEF NodeOf
    <3>3. key \notin DOMAIN doc.arrays
      BY <3>1, <3>2, DocumentShape DEF PagesFit, NodePaged, TreeInv
    <3> QED BY <2>1, <2>4, <3>1, <3>2, <3>3 DEF At
  <2>6. ASSUME NumberIsItsOwn(p), EntriesInPlace(page), given # {}, \A k \in given : \E n \in DOMAIN nodes : nodes[n].key = k
        PROVE  node # None
    <3>1. key \in given
      BY <2>1, <2>4, <2>6 DEF At
    <3>2. node \in DOMAIN nodes
      BY <2>2, <2>3, <2>6, <3>1, NodeOfFact
    <3>3. None \notin DOMAIN nodes
      BY Numbers, DocumentShape
    <3> QED BY <3>2, <3>3
  <2>7. Owned(p, mcid, node) <=>
          /\ listed # {} => node \in listed
          /\ listed = {} /\ node # None => node \in DOMAIN nodes /\ nodes[node].key \in given
          /\ listed = {} /\ NumberIsItsOwn(p) /\ EntriesInPlace(page) /\ given # {}
               /\ (\A k \in given : \E n \in DOMAIN nodes : nodes[n].key = k)
             => node # None
    BY DEF Owned, given
  <2> HIDE DEF listed
  <2>8. Owned(p, mcid, node)
    BY <1>4, <2>5, <2>6, <2>7
  <2> QED BY <2>8 DEF node
<1>5. page.parent = None \/ page.parent # None
  OBVIOUS
<1> QED
  BY <1>2, <1>3, <1>4 DEF Owned

-----------------------------------------------------------------------------
(* The marked content. *)

\* One sequence after another.
IsBoth(u, s, more) ==
  /\ u \in Seq({u[i] : i \in DOMAIN u})
  /\ \A k \in DOMAIN u : (k \in DOMAIN s /\ u[k] = s[k]) \/ \E i \in DOMAIN more : u[k] = more[i]
LEMMA Appended ==
  ASSUME NEW P, NEW s \in Seq(P), NEW Q, NEW more \in Seq(Q)
  PROVE  IsBoth(s \o more, s, more)
<1> DEFINE n == Len(more)
           L == Len(s)
           u == s \o more
           R == P \cup Q
<1>1. s \in Seq(R) /\ more \in Seq(R)
  OBVIOUS
<1> HIDE DEF R
<1>2. /\ L \in Nat /\ DOMAIN s = 1 .. L /\ DOMAIN u = 1 .. L + n
      /\ n \in Nat /\ DOMAIN more = 1 .. n
      /\ \A k \in 1 .. L : u[k] = s[k]
      /\ \A i \in 1 .. n : u[L + i] = more[i]
      /\ u \in Seq(R)
  BY ONLY <1>1
<1> HIDE DEF L, n, u
<1>3. ASSUME NEW k \in DOMAIN u PROVE (k \in DOMAIN s /\ u[k] = s[k]) \/ \E i \in DOMAIN more : u[k] = more[i]
  <2>1. CASE k <= L
    <3>1. k \in 1 .. L
      BY <1>2, <1>3, <2>1
    <3> QED BY <1>2, <3>1
  <2>2. CASE k > L
    <3>1. k - L \in 1 .. n /\ L + (k - L) = k
      BY ONLY <1>2, <1>3, <2>2
    <3> QED BY ONLY <1>2, <3>1
  <2> QED BY ONLY <1>2, <1>3, <2>1, <2>2
<1>4. u \in Seq({u[k] : k \in DOMAIN u})
  <2>1. u \in Seq(ToSet(u))
    BY ONLY <1>2, OverItsElements
  <2> QED BY <2>1 DEF ToSet
<1> QED
  BY <1>3, <1>4 DEF IsBoth, u

\* Marked content was given to its owner; there is none before the pages are read.
MarkFits(i) ==
  marked[i].mcid # None =>
    /\ marked[i].mcid \in Int
    /\ \E p \in DOMAIN doc.pages :
         marked[i].page = doc.pages[p].key /\ marked[i].node = OwnerOf(doc.pages[p], marked[i].mcid)
MarkedFits ==
  /\ marked \in Seq({marked[i] : i \in DOMAIN marked})
  /\ phase \in {"ids", "parents", "tree"} => marked = <<>>
  /\ \A i \in DOMAIN marked : MarkFits(i)

\* The owner depends on the document, the nodes and the parent tree.
LEMMA SameOwner ==
  ASSUME doc' = doc, nodes' = nodes, parent_tree' = parent_tree
  PROVE  \A page, mcid : OwnerOf(page, mcid)' = OwnerOf(page, mcid)
<1>1. \A page, mcid : Claims(page, mcid)' = Claims(page, mcid)
  BY DEF Claims
<1>2. \A key : NodeOf(key)' = NodeOf(key)
  BY DEF NodeOf
<1> QED
  BY <1>1, <1>2 DEF OwnerOf

\* The marked content of the streams that can be read is a sequence, and has numbers.
LEMMA ReadableFact ==
  ASSUME NEW page, PageShape(page)
  PROVE  /\ Readable(page) \in Seq({Readable(page)[i] : i \in DOMAIN Readable(page)})
         /\ \A i \in DOMAIN Readable(page) : Mcid(Readable(page)[i]) \in {None} \cup Int
<1> DEFINE n == Len(page.streams)
           parts == [j \in DOMAIN page.streams |->
                       IF page.streams[j].ok THEN page.streams[j].spans ELSE <<>>]
           S == UNION {ToSet(page.streams[j].spans) : j \in DOMAIN page.streams}
<1>1. n \in Nat /\ DOMAIN page.streams = 1 .. n
  BY DEF PageShape
<1>2. ASSUME NEW j \in 1 .. n PROVE parts[j] \in Seq(S)
  <2>1. page.streams[j].spans \in Seq(ToSet(page.streams[j].spans))
    BY <1>1 DEF PageShape
  <2>2. ToSet(page.streams[j].spans) \subseteq S
    BY <1>1
  <2> HIDE DEF S
  <2>3. page.streams[j].spans \in Seq(S)
    BY <2>1, <2>2
  <2> QED BY <1>1, <2>3
<1>3. \A span \in S : Mcid(span) \in {None} \cup Int
  BY DEF PageShape, Mcid, Or
<1> HIDE DEF S
<1>4. parts \in Seq(Seq(S))
  <2>1. parts = [j \in 1 .. n |-> parts[j]]
    BY <1>1
  <2> HIDE DEF parts, n
  <2> QED BY <1>1, <1>2, <2>1
<1>5. Readable(page) \in Seq(S)
  <2> HIDE DEF parts
  <2>1. FlattenSeq(parts) \in Seq(S)
    BY <1>4, FlattenFact
  <2> QED BY <2>1 DEF Readable, parts
<1>6. ToSet(Readable(page)) = {Readable(page)[i] : i \in DOMAIN Readable(page)}
  BY DEF ToSet
<1> QED
  BY <1>3, <1>5, <1>6, OverItsElements

\* A page adds the marked content of its streams, each for its owner.
LEMMA MarkedPage ==
  ASSUME TreeInv, StreamsTold, MarkedFits, AssociatePage
  PROVE  MarkedFits'
<1> DEFINE p == pages_done + 1
           page == doc.pages[p]
           spans == Readable(page)
           Mark(span) ==
             LET node == OwnerOf(page, Mcid(span))
             IN [node |-> node, page |-> page.key, tag |-> span.tag, mcid |-> Mcid(span),
                 text |-> span.text,
                 image |-> span.image \/ (node # None /\ nodes[node].normalized_role = "Figure")]
           more == [i \in DOMAIN spans |-> Mark(spans[i])]
<1>1. /\ marked' = marked \o more /\ UNCHANGED <<doc, nodes, parent_tree, phase>> /\ phase = "content"
      /\ pages_done < Len(doc.pages)
  BY DEF AssociatePage
<1>2. p \in DOMAIN doc.pages /\ PageShape(page)
  <2>1. pages_done \in Nat /\ DOMAIN doc.pages = 1 .. Len(doc.pages)
    BY DocumentShape DEF StreamsTold, TreeInv
  <2>2. Len(doc.pages) \in Nat
    BY DocumentShape DEF TreeInv
  <2>3. p \in 1 .. Len(doc.pages)
    <3>1. pages_done < Len(doc.pages)
      BY <1>1
    <3> QED BY ONLY <2>1, <2>2, <3>1
  <2> QED BY <2>1, <2>3, DocumentShape DEF TreeInv
<1> HIDE DEF p
<1>3. spans \in Seq({spans[i] : i \in DOMAIN spans}) /\ \A i \in DOMAIN spans : Mcid(spans[i]) \in {None} \cup Int
  BY <1>2, ReadableFact
<1> HIDE DEF spans
<1>4. /\ more = [i \in 1 .. Len(spans) |-> more[i]] /\ Len(spans) \in Nat
      /\ \A i \in 1 .. Len(spans) :
           /\ more[i].mcid \in {None} \cup Int /\ more[i].page = page.key
           /\ more[i].node = OwnerOf(page, more[i].mcid)
  BY <1>3
<1> HIDE DEF more
<1>5. IsBoth(marked', marked, more)
  <2>1. marked \in Seq({marked[i] : i \in DOMAIN marked})
    BY DEF MarkedFits
  <2>2. more \in Seq({more[i] : i \in DOMAIN more}) /\ marked' = marked \o more
    BY <1>1, <1>4, OverItself
  <2> DEFINE P == {marked[i] : i \in DOMAIN marked}
             Q == {more[i] : i \in DOMAIN more}
  <2> HIDE DEF P, Q
  <2>3. marked \in Seq(P) /\ more \in Seq(Q)
    BY <2>1, <2>2 DEF P, Q
  <2> QED BY ONLY <2>2, <2>3, Appended
<1>6. ASSUME NEW k \in DOMAIN marked' PROVE MarkFits(k)'
  <2>1. CASE k \in DOMAIN marked /\ marked'[k] = marked[k]
    BY <1>1, <2>1, SameOwner DEF MarkedFits, MarkFits
  <2>2. CASE \E i \in DOMAIN more : marked'[k] = more[i]
    BY <1>1, <1>2, <1>4, <2>2, SameOwner DEF MarkFits
  <2> QED BY <1>5, <2>1, <2>2 DEF IsBoth
<1>7. marked' \in Seq({marked'[i] : i \in DOMAIN marked'})
  BY <1>5 DEF IsBoth
<1> QED
  BY <1>1, <1>6, <1>7 DEF MarkedFits

\* A finite set as a sequence.
LEMMA SetToSeqFact ==
  ASSUME NEW S, IsFiniteSet(S)
  PROVE  SetToSeq(S) \in Seq(S)
<1> DEFINE n == Cardinality(S)
<1>1. n \in Nat /\ ExistsBijection(1 .. n, S)
  BY FS_CardinalityType
<1> HIDE DEF n
<1>2. \E f \in [1 .. n -> S] : IsInjective(f)
  BY <1>1 DEF ExistsBijection, Bijection, Injection, IsInjective
<1>3. SetToSeq(S) \in [1 .. n -> S]
  BY <1>2 DEF SetToSeq, n
<1> QED
  BY <1>1, <1>3

\* What is added for the objects of the parent tree has no number.
LEMMA MarkedObjects ==
  ASSUME TreeInv, MarkedFits, AssociateObjects
  PROVE  MarkedFits'
<1> DEFINE Node(o) == NodeOf(At(parent_tree.objects, o))
           known == {o \in DOMAIN doc.dict : Node(o) # None}
           pictures == {o \in known : doc.dict[o].is = "image"}
           images == SetToSeq(pictures)
           more == [i \in DOMAIN images |->
                      [node |-> Node(images[i]), page |-> None,
                       tag |-> nodes[Node(images[i])].normalized_role,
                       mcid |-> None, text |-> FALSE, image |-> TRUE]]
<1>1. /\ marked' = marked \o more /\ UNCHANGED <<doc, nodes, parent_tree>> /\ phase' = "done"
  BY DEF AssociateObjects
<1>2. IsFiniteSet(pictures)
  <2>1. IsFiniteSet(DOMAIN doc.dict) /\ pictures \subseteq DOMAIN doc.dict
    BY DocumentShape DEF TreeInv
  <2> HIDE DEF pictures
  <2> QED BY <2>1, FS_Subset
<1> HIDE DEF pictures
<1>3. images \in Seq(pictures)
  BY <1>2, SetToSeqFact
<1> HIDE DEF images
<1>4. /\ more = [i \in 1 .. Len(images) |-> more[i]] /\ Len(images) \in Nat
      /\ \A i \in DOMAIN more : more[i].mcid = None
  BY <1>3
<1> HIDE DEF more
<1>5. IsBoth(marked', marked, more)
  <2>1. marked \in Seq({marked[i] : i \in DOMAIN marked})
    BY DEF MarkedFits
  <2>2. more \in Seq({more[i] : i \in DOMAIN more}) /\ marked' = marked \o more
    BY <1>1, <1>4, OverItself
  <2> DEFINE P == {marked[i] : i \in DOMAIN marked}
             Q == {more[i] : i \in DOMAIN more}
  <2> HIDE DEF P, Q
  <2>3. marked \in Seq(P) /\ more \in Seq(Q)
    BY <2>1, <2>2 DEF P, Q
  <2> QED BY ONLY <2>2, <2>3, Appended
<1>6. ASSUME NEW k \in DOMAIN marked' PROVE MarkFits(k)'
  <2>1. CASE k \in DOMAIN marked /\ marked'[k] = marked[k]
    BY <1>1, <2>1, SameOwner DEF MarkedFits, MarkFits
  <2>2. CASE \E i \in DOMAIN more : marked'[k] = more[i]
    BY <1>4, <2>2 DEF MarkFits
  <2> QED BY <1>5, <2>1, <2>2 DEF IsBoth
<1>7. marked' \in Seq({marked'[i] : i \in DOMAIN marked'})
  BY <1>5 DEF IsBoth
<1> QED
  BY <1>1, <1>6, <1>7 DEF MarkedFits

\* Every step keeps the marked content with its owners.
LEMMA NextMarked == TreeInv /\ StreamsTold /\ MarkedFits /\ [Next]_structure_vars => MarkedFits'
<1> SUFFICES ASSUME TreeInv, StreamsTold, MarkedFits, [Next]_structure_vars PROVE MarkedFits'
  OBVIOUS
<1>1. CASE AssociatePage
  BY <1>1, MarkedPage
<1>2. CASE AssociateObjects
  BY <1>2, MarkedObjects
<1>3. CASE marked = <<>> /\ marked' = <<>>
  <2>1. <<>> \in Seq({<<>>[i] : i \in DOMAIN <<>>}) /\ DOMAIN <<>> = {}
    OBVIOUS
  <2> QED BY <1>3, <2>1 DEF MarkedFits
<1>4. CASE /\ phase \in {"ids", "parents", "tree"} /\ marked' = marked
  BY <1>3, <1>4 DEF MarkedFits
<1>5. CASE /\ UNCHANGED <<doc, nodes, parent_tree, marked>>
           /\ phase' \in {"ids", "parents", "tree"} => phase \in {"ids", "parents", "tree"}
  <2>1. ASSUME NEW k \in DOMAIN marked' PROVE MarkFits(k)'
    BY <1>5, <2>1, SameOwner DEF MarkedFits, MarkFits
  <2> QED BY <1>5, <2>1 DEF MarkedFits
<1>6. WalkTree \/ IdTreeRead \/ ParentTreeRead \/ TreeRead
        => phase \in {"ids", "parents", "tree"} /\ marked' = marked
  BY DEF WalkTree, IdTreeRead, ParentTreeRead, TreeRead
<1>7. TooDeep \/ OpenArray \/ SkipOther \/ SkipSeen \/ TooMany \/ VisitElement
        => phase \in {"ids", "parents", "tree"} /\ marked' = marked
  BY DEF TooDeep, OpenArray, SkipOther, SkipSeen, TooMany, VisitElement, TreeOnly, InDepth, Turn
<1>8. ContentRead \/ Built \/ UNCHANGED structure_vars =>
        /\ UNCHANGED <<doc, nodes, parent_tree, marked>>
        /\ phase' \in {"ids", "parents", "tree"} => phase \in {"ids", "parents", "tree"}
  BY DEF ContentRead, Built, structure_vars
<1> QED
  BY <1>1, <1>2, <1>4, <1>5, <1>6, <1>7, <1>8 DEF Next

ContentInv == TreeInv /\ StreamsTold /\ PagesFit /\ ParentTreeFits /\ MarkedFits

LEMMA ContentStarts == Init => ContentInv
<1> SUFFICES ASSUME Init PROVE ContentInv
  OBVIOUS
<1>1. TreeInv
  BY TreeStarts
<1>2. /\ phase = "ids" /\ walk = StartWalk(doc.ids) /\ stack = <<>> /\ nodes = <<>> /\ marked = <<>>
      /\ pages_done = 0
  BY DEF Init
<1>3. StreamsTold
  <2>1. DOMAIN doc.pages = 1 .. Len(doc.pages) /\ Len(doc.pages) \in Nat
    BY <1>1, DocumentShape DEF TreeInv
  <2>2. \A i \in DOMAIN doc.pages : ~(i <= pages_done)
    BY <1>2, <2>1
  <2> QED BY <1>2, <2>2 DEF StreamsTold
<1>4. PagesFit
  BY <1>2 DEF PagesFit
<1>5. ParentTreeFits
  <2>1. "pairs" \in DOMAIN walk
    BY <1>2 DEF StartWalk
  <2> QED BY <1>2, <2>1 DEF ParentTreeFits
<1>6. MarkedFits
  <2>1. <<>> \in Seq({<<>>[i] : i \in DOMAIN <<>>}) /\ DOMAIN <<>> = {}
    OBVIOUS
  <2> QED BY <1>2, <2>1 DEF MarkedFits
<1> QED
  BY <1>1, <1>3, <1>4, <1>5, <1>6 DEF ContentInv

LEMMA ContentStays == ContentInv /\ [Next]_structure_vars => ContentInv'
BY NextTree, NextStreams, NextPages, NextParentTree, NextMarked DEF ContentInv

\* Whatever the structure tree, the parent tree and the pages hold: marked content goes to
\* an element that lists it on its page; content that none lists goes to an element the
\* parent tree gives for the number of its page or to none, and not to none when the page
\* has its number to itself and what the parent tree gives, none of it an array by
\* reference, are elements.
THEOREM ContentHasItsElementAlways == Spec => []ContentHasItsElement
<1>1. ASSUME ContentInv PROVE ContentHasItsElement
  <2>1. SUFFICES ASSUME NEW i \in DOMAIN marked, NEW p \in DOMAIN doc.pages,
                        marked[i].page = doc.pages[p].key, marked[i].mcid # None
                 PROVE  Owned(p, marked[i].mcid, marked[i].node)
    BY DEF ContentHasItsElement, Owned
  <2>2. phase \notin {"ids", "parents"}
    BY <1>1 DEF ContentInv, MarkedFits
  <2>3. PICK q \in DOMAIN doc.pages :
          /\ marked[i].page = doc.pages[q].key /\ marked[i].node = OwnerOf(doc.pages[q], marked[i].mcid)
          /\ marked[i].mcid \in Int
    BY <1>1, <2>1 DEF ContentInv, MarkedFits, MarkFits
  <2>4. p = q
    BY <1>1, <2>1, <2>3, DocumentShape DEF ContentInv, TreeInv
  <2> QED BY <1>1, <2>1, <2>2, <2>3, <2>4, OwnerFits DEF ContentInv
<1> QED
  BY <1>1, ContentStarts, ContentStays, PTL DEF Spec

=============================================================================
