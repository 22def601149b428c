-------------------------- MODULE MCFeatureExtraction --------------------------
(***************************************************************************)
(* A document object and two pages.  The policy looks at pages; the caller *)
(* may have asked for nothing, everything or the document object only.     *)
(***************************************************************************)
EXTENDS FeatureExtraction, TLC

CONSTANTS o1, o2, o3

MCObjects == {o1, o2, o3}
MCKeyOf == o1 :> "k1" @@ o2 :> "k2" @@ o3 :> "k3"
MCLinkLists == {<<>>, <<o3>>, <<o2, o2>>, <<o1, o3, o2>>}
MCFamilyOf == o1 :> "document" @@ o2 :> "page" @@ o3 :> "page"

Value(t, n) == [type |-> t, value |-> n]
MCValueChoices == {NoProperty, Value("number", 1), Value("number", 2), Value("string", 1)}

MCSelections ==
    {[mode |-> "None", families |-> {}], [mode |-> "All", families |-> {}],
     [mode |-> "Families", families |-> {"document"}]}
Rule(op, v) == [family |-> "page", operator |-> op, value |-> v]
MCRules ==
    {{}} \cup {{Rule(op, Value("number", 2))} : op \in Operators}
         \cup {{Rule(op, Value("string", 1))} : op \in {"Equals", "NotEquals"}}
===============================================================================
