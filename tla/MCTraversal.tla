------------------------------ MODULE MCTraversal ------------------------------
(***************************************************************************)
(* Instances of Traversal.  o1 is the document object; o2 and o3 are of    *)
(* type "page" with supertype "object".  The profile has an immediate rule *)
(* on pages, a deferred one on their supertype and one on the document     *)
(* object; UnsupportedPresent adds a statically unsupported rule.  Every   *)
(* graph whose objects have at most MaxLinks links is a start state,       *)
(* cycles, self links and repeated links included.                         *)
(***************************************************************************)
EXTENDS Traversal, TLC

CONSTANTS o1, o2, o3, MaxLinks, UnsupportedPresent, SharedId

MCObjects == {o1, o2, o3}
MCKeys == {"k1", "k2", "k3"}
MCKeyOf == o1 :> "k1" @@ o2 :> "k2" @@ o3 :> "k3"
MCLinkLists == UNION {[1 .. n -> MCObjects] : n \in 0 .. MaxLinks}
MCTypes == {"document", "page", "object"}
MCTypesOf == o1 :> <<"document">>
          @@ o2 :> <<"page", "object">> @@ o3 :> <<"page", "object">>
MCRules == {"now", "later", "first", "unparsed"}
MCRuleIds == {"id1", "id2", "id3"}
MCIdOf == "now" :> "id1" @@ "later" :> (IF SharedId THEN "id1" ELSE "id2")
       @@ "first" :> "id2" @@ "unparsed" :> "id3"
MCProfile == IF UnsupportedPresent THEN <<"later", "unparsed", "now", "first">>
                                   ELSE <<"later", "now", "first">>
MCRuleType == "now" :> "page" @@ "later" :> "object" @@ "first" :> "document"
           @@ "unparsed" :> "page"
===============================================================================
