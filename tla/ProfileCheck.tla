----------------------------- MODULE ProfileCheck -----------------------------
(***************************************************************************)
(* What validating a document against one profile promises, without the    *)
(* work stack, the identity keys, the budget or the counters: every rule   *)
(* that applies to an object reachable from the document object is         *)
(* evaluated on it exactly once, deferred rules only when no immediate     *)
(* check is outstanding, and either every check is made or the run ends    *)
(* with an error and no report.                                            *)
(***************************************************************************)
EXTENDS Naturals

CONSTANTS
    Objects,            \* model objects of the document (ModelObjectRef values)
    Root,               \* the document object
    Rules,              \* rules of the profile
    DeferredRules,      \* the rules marked deferred
    Applicable          \* the pairs <<o, r>> with r executable and for o's type

VARIABLES
    links,              \* [Objects -> sequence of linked objects], never changes
    verdicts,           \* set of <<object, rule, outcome>> made so far
    phase               \* "checking", "done" or "error"

absVars == <<links, verdicts, phase>>

Closed(S) ==
    /\ Root \in S
    /\ \A o \in S : \A i \in DOMAIN links[o] : links[o][i] \in S

\* The least set that holds the document object and is closed under links.
Reachable ==
    {o \in Objects : \A S \in SUBSET Objects : Closed(S) => o \in S}

Due == {p \in Applicable : p[1] \in Reachable}

Made == {<<v[1], v[2]>> : v \in verdicts}

AbsInit ==
    /\ verdicts = {}
    /\ phase = "checking"

AbsCheck(o, r, outcome) ==
    /\ phase = "checking"
    /\ verdicts' = verdicts \cup {<<o, r, outcome>>}
    /\ UNCHANGED <<links, phase>>
    /\ <<o, r>> \in Due \ Made
    /\ r \in DeferredRules => \A p \in Due \ Made : p[2] \in DeferredRules

AbsFinish ==
    /\ phase = "checking"
    /\ phase' = "done"
    /\ UNCHANGED <<links, verdicts>>
    /\ Due = Made

AbsAbort ==
    /\ phase = "checking"
    /\ phase' = "error"
    /\ UNCHANGED <<links, verdicts>>

AbsNext ==
    \/ \E o \in Objects, r \in Rules, outcome \in {"passed", "failed", "unsupported"} :
            AbsCheck(o, r, outcome)
    \/ AbsFinish
    \/ AbsAbort

AbsSpec == AbsInit /\ [][AbsNext]_absVars
===============================================================================
