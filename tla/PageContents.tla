---------------------------- MODULE PageContents ----------------------------
(***************************************************************************)
(* From the page tree to the resources a content stream uses: the walk     *)
(* that finds the pages (PageModel::from_catalog), the fonts of one page,  *)
(* the summary of one of its streams or of the stream of a form XObject    *)
(* (ContentStream), and the resolution of the names it uses.  The session  *)
(* does these steps lazily, in this order; the page or form and the stream *)
(* are chosen freely.                                                      *)
(*                                                                         *)
(* A document maps object keys to dictionaries: type, subtype, kids,       *)
(* parent, hasResources (the entry is present), resources (the dictionary  *)
(* the entry resolves to, or None) and contents (the streams one can look  *)
(* at).  A resource dictionary maps the categories it has to records:      *)
(* direct tells whether the category stands in place or is a reference,    *)
(* names is what it defines.  A value is a key; one outside the document   *)
(* is any value that is no dictionary.                                     *)
(***************************************************************************)
EXTENDS ContentStream, FiniteSetsExt, SequencesExt

CONSTANTS Docs,                \* the documents
          Root,                \* the key the catalog names as Pages
          MaxPages,            \* objects the session may still make
          MaxObjects,          \* limits.max_objects
          MaxResourceContexts  \* limits.max_resource_contexts

VARIABLES doc,        \* the document
          stack,      \* page-tree nodes still to visit, last first
          visited,    \* nodes visited
          pages,      \* the pages found, in order
          phase,      \* "walk", "pick", "read", "done" or "limit"
          owner,      \* the page or the form XObject picked
          page_fonts, \* the fonts of a page: records [name, value]
          resolved    \* one status per resource use of the stream

page_vars == <<doc, stack, visited, pages, phase, owner, page_fonts, resolved>>
vars == <<page_vars, stream_vars>>

Keys == DOMAIN doc

-----------------------------------------------------------------------------
(* The page tree. *)

Init ==
    /\ doc \in Docs
    /\ stack = <<Root>> /\ visited = {} /\ pages = <<>>
    /\ phase = "walk"
    /\ owner = None /\ page_fonts = {} /\ resolved = <<>>
    /\ Open(<<>>)

Key == Last(stack)

UnvisitedTop == phase = "walk" /\ stack # <<>> /\ Key \notin visited

\* A key already visited, or one that names no dictionary, is dropped; only
\* dictionaries are followed by the check of visited against max_objects.
SkipNode ==
    /\ phase = "walk" /\ stack # <<>>
    /\ Key \in visited \/ Key \notin Keys
    /\ stack' = Front(stack)
    /\ visited' = visited \cup {Key}
    /\ UNCHANGED <<doc, pages, phase, owner, page_fonts, resolved, stream_vars>>

NextPhase == IF Cardinality(visited') > MaxObjects THEN "limit" ELSE "walk"

VisitPage ==
    /\ UnvisitedTop /\ Key \in Keys /\ doc[Key].type = "Page"
    /\ stack' = Front(stack)
    /\ visited' = visited \cup {Key}
    /\ IF Len(pages) >= MaxPages
       THEN phase' = "limit" /\ UNCHANGED pages
       ELSE phase' = NextPhase /\ pages' = Append(pages, Key)
    /\ UNCHANGED <<doc, owner, page_fonts, resolved, stream_vars>>

\* Mutant of VisitNode: the kids are pushed in forward order.
VisitNodeMutant ==
    /\ UnvisitedTop /\ Key \in Keys /\ doc[Key].type # "Page"
    /\ stack' = Front(stack) \o doc[Key].kids
    /\ visited' = visited \cup {Key}
    /\ phase' = NextPhase
    /\ UNCHANGED <<doc, pages, owner, page_fonts, resolved, stream_vars>>

\* A Type other than Page, or none, makes the dictionary an inner node.
VisitNode ==
    /\ UnvisitedTop /\ Key \in Keys /\ doc[Key].type # "Page"
    /\ stack' = Front(stack) \o Reverse(doc[Key].kids)
    /\ visited' = visited \cup {Key}
    /\ phase' = NextPhase
    /\ UNCHANGED <<doc, pages, owner, page_fonts, resolved, stream_vars>>

WalkDone ==
    /\ phase = "walk" /\ stack = <<>>
    /\ phase' = "pick"
    /\ UNCHANGED <<doc, stack, visited, pages, owner, page_fonts, resolved, stream_vars>>

-----------------------------------------------------------------------------
(* Resources. *)

\* The nodes from the end of chain c upward by Parent, each once; a Parent that
\* names no dictionary is the last of them.
RECURSIVE Upward(_)
Upward(c) ==
    LET up == IF Last(c) \in Keys THEN doc[Last(c)].parent ELSE None
    IN  IF up = None \/ up \in Range(c) THEN c ELSE Upward(Append(c, up))

AncestorChain(k) == Upward(<<k>>)

WithinContexts(k) == Len(AncestorChain(k)) <= MaxResourceContexts

\* The Resources of the nodes of a chain that resolve to a dictionary.
ResourcesAlong(chain) ==
    LET has(n) == n \in Keys /\ doc[n].resources # None
        nodes == SelectSeq(chain, has)
    IN  [i \in DOMAIN nodes |-> doc[nodes[i]].resources]

Cyclic(chain) == Last(chain) \in Keys /\ doc[Last(chain)].parent # None

\* Mutant of effective_page_resources: the dictionaries stay in walking order.
effective_page_resourcesMutant(k) ==
    [dictionaries |-> ResourcesAlong(AncestorChain(k)),
     cyclic |-> Cyclic(AncestorChain(k))]

\* effective_resources_for_page_key: the Resources dictionaries from the root
\* down, of a chain within the limit; a parent met before makes them cyclic.
effective_page_resources(k) ==
    [dictionaries |-> Reverse(ResourcesAlong(AncestorChain(k))),
     cyclic |-> Cyclic(AncestorChain(k))]

\* The streams of form XObjects are content as well: any stream of the document
\* with Subtype Form.
Forms == {k \in Keys : doc[k].subtype = "Form"}

\* ContentStreamModel::effective_resources: the stream of a form has the form's
\* own resources, or none at all; the page that shows the form is not asked.
effective_resources(k) ==
    IF k \in Forms
    THEN [dictionaries |-> IF doc[k].resources = None THEN <<>> ELSE <<doc[k].resources>>,
          cyclic |-> FALSE]
    ELSE effective_page_resources(k)

\* inherited_page_value(.., "Resources", ..) within max_objects: the nearest
\* entry of the page or above it, of whatever type.
has_resources(k) ==
    LET chain == AncestorChain(k)
        at == {i \in DOMAIN chain : chain[i] \in Keys /\ doc[chain[i]].hasResources}
    IN  at # {} /\ Min(at) <= MaxObjects

\* What a resource dictionary defines in a category: nothing, with no word about
\* it, when the category is a reference and not a dictionary in place.
CategoryOf(resources, family) ==
    IF family \in DOMAIN resources /\ resources[family].direct
    THEN resources[family].names ELSE <<>>

\* resource_value on each dictionary: the last one that defines the name.
value_of(resources, use) ==
    LET names(i) == CategoryOf(resources.dictionaries[i], use.family)
        at == {i \in DOMAIN resources.dictionaries : use.name \in DOMAIN names(i)}
    IN  IF at = {} THEN None ELSE names(Max(at))[use.name]

\* resolved_resource_family: any value is a color space, an XObject is a
\* dictionary whose Subtype is known, the others are dictionaries.
resolved_resource_family(family, value) ==
    \/ family = "ColorSpace"
    \/ value \in Keys /\ (family = "XObject" => doc[value].subtype \in {"Image", "Form", "PS"})

resolve_resource_use(resources, use) ==
    LET value == value_of(resources, use)
    IN  CASE resources.cyclic -> "cyclic"
          [] ~resources.cyclic /\ value = None -> "missing"
          [] OTHER -> IF resolved_resource_family(use.family, value)
                      THEN "resolved" ELSE "wrongType"

\* FontModel::from_page: nearest dictionary first, each name once, only values
\* that resolve to a dictionary; a Font category that is a reference is passed.
FontsOf(resources) ==
    LET ds == Reverse(resources.dictionaries)
        fonts(i) == CategoryOf(ds[i], "Font")
        new(i) == {n \in DOMAIN fonts(i) : \A j \in 1..i - 1 : n \notin DOMAIN fonts(j)}
    IN  UNION {{[name |-> n, value |-> fonts(i)[n]] :
                    n \in {m \in new(i) : fonts(i)[m] \in Keys}} : i \in DOMAIN ds}

-----------------------------------------------------------------------------
(* One page or form and one of its streams. *)

\* Fonts beyond what the session may still make, or too long a chain, end it.
PickPage ==
    /\ phase = "pick"
    /\ \E k \in Range(pages) :
          /\ owner' = k
          /\ page_fonts' = IF WithinContexts(k) THEN FontsOf(effective_resources(k)) ELSE {}
          /\ phase' = IF WithinContexts(k) /\ Cardinality(page_fonts') <= MaxPages
                      THEN "read" ELSE "limit"
          /\ \E c \in doc[k].contents : OpenNext(c)
    /\ UNCHANGED <<doc, stack, visited, pages, resolved>>

PickForm ==
    /\ phase = "pick"
    /\ \E k \in Forms :
          /\ owner' = k
          /\ \E c \in doc[k].contents : OpenNext(c)
    /\ phase' = "read"
    /\ UNCHANGED <<doc, stack, visited, pages, page_fonts, resolved>>

ReadStream == phase = "read" /\ Read /\ UNCHANGED page_vars

\* ResourceUseModel: one per use, when the stream had a summary.
ResolveUses ==
    /\ phase = "read" /\ status # "reading"
    /\ phase' = "done"
    /\ resolved' = IF status = "error" THEN <<>>
                   ELSE [i \in DOMAIN uses |->
                            resolve_resource_use(effective_resources(owner), uses[i])]
    /\ UNCHANGED <<doc, stack, visited, pages, owner, page_fonts, stream_vars>>

Next ==
    \/ SkipNode \/ VisitPage \/ VisitNode \/ WalkDone
    \/ PickPage \/ PickForm \/ ReadStream \/ ResolveUses

Spec == Init /\ [][Next]_vars
-----------------------------------------------------------------------------
(* Properties. *)

\* Every part of the state has its type; the walk keeps keys, the pages found
\* are page dictionaries, and the summary has the type ContentStream gives it.
TypeOK ==
    /\ StreamTypeOK
    /\ phase \in {"walk", "pick", "read", "done", "limit"}
    /\ Range(pages) \subseteq visited \cap Keys
    /\ owner \in Keys \cup {None}

\* The pages below k in reading order, by recursion over the tree that path
\* leads down: a node met again on its own path adds nothing.
RECURSIVE Below(_, _)
Below(k, path) ==
    IF k \notin Keys \/ k \in path THEN <<>>
    ELSE IF doc[k].type = "Page" THEN <<k>>
    ELSE FlattenSeq([i \in DOMAIN doc[k].kids |-> Below(doc[k].kids[i], path \cup {k})])

\* The walk with its explicit stack and its visited set ends with the pages in
\* reading order, each of them once, also when nodes are shared, missing or
\* form a cycle; page ordinals, page contexts and every count rest on this.
PagesInReadingOrder ==
    phase \in {"pick", "read", "done"} =>
        LET all == Below(Root, {})
            first(i) == \A j \in 1..i - 1 : all[j] # all[i]
            firsts == {i \in DOMAIN all : first(i)}
        IN  pages = [n \in 1..Cardinality(firsts) |->
                        all[CHOOSE i \in firsts : Cardinality({j \in firsts : j <= i}) = n]]

\* What a node says about a use, the category looked up wherever it stands.
SaysOf(resources, use) ==
    IF resources # None /\ use.family \in DOMAIN resources
       /\ use.name \in DOMAIN resources[use.family].names
    THEN resources[use.family].names[use.name] ELSE None

\* The ancestor that decides a name: walked up by hand, one parent at a time. A
\* form decides alone.
RECURSIVE NearestValue(_, _, _)
NearestValue(k, use, fuel) ==
    IF k = None \/ k \notin Keys \/ fuel = 0 THEN None
    ELSE IF SaysOf(doc[k].resources, use) # None THEN SaysOf(doc[k].resources, use)
    ELSE IF k \in Forms THEN None
    ELSE NearestValue(doc[k].parent, use, fuel - 1)

\* A use takes the value of the nearest node of its page's chain that defines
\* the name, never that of a node above it, and within a form that of the form;
\* a use that resolves on a page means that the page property hasResources,
\* which walks the chain on its own, is true.
RightFor(i) ==
    LET value == NearestValue(owner, uses[i], Cardinality(Keys))
        fits == resolved_resource_family(uses[i].family, value)
    IN  CASE resolved[i] = "resolved" ->
               value # None /\ fits /\ (owner \in Forms \/ has_resources(owner))
          [] resolved[i] = "wrongType" -> value # None /\ ~fits
          [] resolved[i] = "missing" -> value = None
          [] OTHER -> owner \notin Forms /\ Cyclic(AncestorChain(owner))

\* Some node in reach holds the category of the use by reference.
ByReference(use) ==
    \E n \in (IF owner \in Forms THEN {owner} ELSE Range(AncestorChain(owner)) \cap Keys) :
        /\ doc[n].resources # None /\ use.family \in DOMAIN doc[n].resources
        /\ ~doc[n].resources[use.family].direct

NearestResourceWins ==
    phase = "done" /\ resolved # <<>> =>
        \A i \in DOMAIN uses : ByReference(uses[i]) \/ RightFor(i)

\* Two independent lookups agree: a Tf resolves exactly when the page lists a
\* font of that name, unless the chain of parents is cyclic, where no use
\* resolves.
FontsMatchUses ==
    phase = "done" /\ resolved # <<>> /\ owner \notin Forms =>
        \A i \in DOMAIN uses :
            uses[i].family = "Font" /\ resolved[i] # "cyclic" =>
                (resolved[i] = "resolved"
                     <=> \E f \in page_fonts : f.name = uses[i].name)

\* NamesResolveNearest: where the categories in reach stand in place, resource
\* names mean what the nearest node says, in pages and in forms, and everywhere
\* the fonts of a page are those its uses find.
NamesResolveNearest == NearestResourceWins /\ FontsMatchUses

\* The same with a category that is a reference, which the code takes for no
\* category: its names are missing, or mean what a node above says.
NamesResolveAnywhere ==
    phase = "done" /\ resolved # <<>> => \A i \in DOMAIN uses : RightFor(i)

=============================================================================
