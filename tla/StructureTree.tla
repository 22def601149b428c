---------------------------- MODULE StructureTree ----------------------------
(***************************************************************************)
(* The accessibility graph (build_accessibility_graph): the structure tree *)
(* of a tagged document is walked with a stack into a list of nodes, the   *)
(* ID tree and the parent tree are walked into maps, and the marked        *)
(* content of every page and the objects of the parent tree are then given *)
(* to the nodes that own them.                                             *)
(*                                                                         *)
(* A document is a record:                                                 *)
(*   dict     its dictionaries, by name: [is, role, page, k, mcid, target, *)
(*            parent, attr], where is says what the dictionary is          *)
(*            ("elem", "mcr", "objr", "annot", "image" or "form")          *)
(*   k        the kids of the structure tree's root                        *)
(*   arrays   its arrays that are objects of their own, by name            *)
(*   roles    the role map                                                 *)
(*   pages    its pages in order: [key, rank, parent, streams, objects], a *)
(*            stream being its marked content and whether it can be read,  *)
(*            rank the place of the key in the order of object keys        *)
(*   ids, nums   the ID tree and the parent tree: [root, node], a node     *)
(*            being [kids, pairs]                                          *)
(* Values are <<"ref", name>> and <<"dict", name>> for a dictionary by     *)
(* reference and in place, <<"int", n>>, <<"array", values>> and NoValue;  *)
(* a reference may lead to an array, too, or nowhere.                      *)
(***************************************************************************)
EXTENDS Integers, Sequences, FiniteSets, SequencesExt

CONSTANTS
    Documents,
    Values,         \* the values there are in them
    None,
    MaxDepth,       \* max_structure_depth
    MaxNodes,       \* max_structure_nodes
    MaxEntries,     \* max_parent_tree_entries
    MaxRoleSteps    \* MAX_ROLE_MAP_STEPS

ASSUME StructureBounds ==
  /\ MaxDepth \in Nat /\ MaxNodes \in Nat /\ MaxEntries \in Nat /\ MaxRoleSteps \in Nat \ {0}

NoValue == <<"none">>
IsDict(v) == v[1] \in {"ref", "dict"}

\* What /K of a dictionary of document d holds, or /K of the root of its
\* structure tree, and the kids that are written in it.
K(d, name) == IF name = None THEN d.k ELSE d.dict[name].k
Written(d, name) ==
  LET k == K(d, name)
  IN CASE k = NoValue -> <<>> [] k # NoValue /\ k[1] = "array" -> k[2] [] OTHER -> <<k>>

\* A page comes with the order of its key, and its streams, their marked content and
\* the entries of a tree with theirs.
TreeShape(tree) == \A name \in DOMAIN tree.node : tree.node[name].pairs \in Seq(ToSet(tree.node[name].pairs))
PageShape(page) ==
  /\ page.rank \in Nat /\ page.streams \in Seq(ToSet(page.streams))
  /\ \A j \in DOMAIN page.streams :
       LET spans == page.streams[j].spans
       IN /\ spans \in Seq(ToSet(spans))
          /\ \A span \in ToSet(spans) : {span.mcid, span.linked, span.named} \subseteq {None} \cup Int

\* A kid, an entry of the parent tree, and what an array of them holds, is a value; there are finitely many
\* dictionaries, None is no number and names nothing; pages are in order, each once.
ASSUME DocumentShape ==
  /\ None \notin Int
  /\ \A v \in Values :
       /\ v[1] = "array" => v[2] \in Seq(Values)
       /\ v[1] = "ref" => v[2] # None
  /\ \A d \in Documents :
       /\ d.k \in Values /\ IsFiniteSet(DOMAIN d.dict) /\ None \notin DOMAIN d.dict
       /\ \A name \in DOMAIN d.arrays : d.arrays[name] \in Seq(Values) /\ name \notin DOMAIN d.dict
       /\ \A name \in DOMAIN d.dict : d.dict[name].k \in Values
       /\ TreeShape(d.ids) /\ TreeShape(d.nums)
       /\ \A name \in DOMAIN d.nums.node : \A pair \in ToSet(d.nums.node[name].pairs) : pair[2] \in Values
       /\ Len(d.pages) \in Nat /\ DOMAIN d.pages = 1 .. Len(d.pages)
       /\ \A i \in DOMAIN d.pages :
            /\ PageShape(d.pages[i])
            /\ \A j \in DOMAIN d.pages : d.pages[i].key = d.pages[j].key => i = j

\* A dictionary in place stands nowhere else, and no reference leads to it.
ASSUME InPlace ==
  \A d \in Documents : \A e, f \in DOMAIN d.dict \cup {None} :
    \A i \in DOMAIN Written(d, e), j \in DOMAIN Written(d, f) :
      LET v == Written(d, e)[i]
          w == Written(d, f)[j]
      IN v[1] = "dict" /\ IsDict(w) /\ v[2] = w[2] => e = f /\ i = j

VARIABLES
    doc,
    phase,      \* "ids", "parents", "tree", "content", "objects", "done"
    walk,       \* the tree walked in the first two phases
    id_tree, parent_tree,
    stack, visited, nodes,
    references, \* object_references
    marked,     \* marked_content
    artifacts,
    pages_done, truncated,
    warnings    \* the kinds of warnings given

structure_vars ==
  <<doc, phase, walk, id_tree, parent_tree, stack, visited, nodes, references, marked,
    artifacts, pages_done, truncated, warnings>>

KeyOf(v) == IF v[1] = "ref" THEN v[2] ELSE None
Or(v, w) == IF v # None THEN v ELSE w

Dict(v) == doc.dict[v[2]]
\* A reference may lead nowhere.
structure_dictionary(v) ==
  IsDict(v) /\ v[2] \in DOMAIN doc.dict /\ Dict(v).is \in {"elem", "mcr", "objr"}

\* The part of a map that a list of pairs makes, the last of a key winning.
MapOf(pairs) ==
  [key \in {pairs[i][1] : i \in DOMAIN pairs} |->
     pairs[CHOOSE i \in DOMAIN pairs :
             pairs[i][1] = key /\ \A j \in DOMAIN pairs : pairs[j][1] = key => j <= i][2]]
At(map, key) == IF key \in DOMAIN map THEN map[key] ELSE None

\* Maps made into one, the last that has a key winning.
Merged(maps) ==
  [key \in UNION {DOMAIN maps[i] : i \in DOMAIN maps} |->
     maps[CHOOSE i \in DOMAIN maps :
            key \in DOMAIN maps[i] /\ \A j \in DOMAIN maps : key \in DOMAIN maps[j] => j <= i][key]]

-----------------------------------------------------------------------------
(* Roles. *)

\* One turn of the loop: it ends where the role is not mapped, or at a role
\* that was there before.
RoleStart(role) == [at |-> role, seen |-> {}, end |-> FALSE, cut |-> FALSE]
RoleStep(c, roles) ==
  IF c.end THEN c
  ELSE IF c.at \in c.seen THEN [c EXCEPT !.end = TRUE, !.cut = TRUE]
  ELSE IF c.at \notin DOMAIN roles THEN [c EXCEPT !.end = TRUE]
  ELSE [c EXCEPT !.at = roles[c.at], !.seen = @ \cup {c.at}]

RoleChain(role, roles) ==
  LET chain[n \in 0 .. MaxRoleSteps] ==
        IF n = 0 THEN RoleStart(role) ELSE RoleStep(chain[n - 1], roles)
  IN chain

\* Mutant of normalize_role: one step fewer.
normalize_roleMutant(role, roles) ==
  LET last == RoleChain(role, roles)[MaxRoleSteps - 1]
  IN <<last.at, last.cut \/ ~last.end>>

\* The last role of the chain that starts at role, and whether it was cut:
\* it comes back to a role it had, or is too long.
normalize_role(role, roles) ==
  LET last == RoleChain(role, roles)[MaxRoleSteps]
  IN <<last.at, last.cut \/ ~last.end>>

-----------------------------------------------------------------------------
(* The ID tree and the parent tree. *)

StartWalk(tree) == [stack |-> IF tree.root = NoValue THEN <<>> ELSE <<tree.root>>,
                    seen |-> {}, pairs |-> <<>>]

\* Pairs up to the cap; an ID tree counts its distinct keys, a parent tree
\* every entry.
Count(pairs) ==
  IF phase = "ids" THEN Cardinality({pairs[i][1] : i \in DOMAIN pairs}) ELSE Len(pairs)
Taken(pairs, more) ==
  LET take[i \in 0 .. Len(more)] ==
        IF i = 0 THEN pairs
        ELSE IF Count(take[i - 1]) >= MaxEntries THEN take[i - 1] ELSE Append(take[i - 1], more[i])
  IN take[Len(more)]

\* An ID tree says when a key is given again.
Replaced(pairs) == phase = "ids" /\ Count(pairs) < Len(pairs)

Tree == IF phase = "ids" THEN doc.ids ELSE doc.nums

\* One turn of the loop of collect_id_tree or collect_parent_tree.
WalkTree ==
  /\ phase \in {"ids", "parents"} /\ walk.stack # <<>>
  /\ LET top == Last(walk.stack)
         rest == Front(walk.stack)
         node == Tree.node[top[2]]
         taken == Taken(walk.pairs, node.pairs)
         full == Len(taken) < Len(walk.pairs) + Len(node.pairs)
     IN IF ~IsDict(top) \/ top[2] \notin DOMAIN Tree.node
        THEN walk' = [walk EXCEPT !.stack = rest] /\ UNCHANGED warnings
        ELSE IF top[1] = "ref" /\ top[2] \in walk.seen
        THEN /\ walk' = [walk EXCEPT !.stack = rest]
             /\ warnings' = warnings \cup {"tree cycle"}
        ELSE /\ walk' = [stack |-> IF full THEN <<>> ELSE rest \o Reverse(node.kids),
                         seen |-> IF top[1] = "ref" THEN walk.seen \cup {top[2]} ELSE walk.seen,
                         pairs |-> taken]
             /\ warnings' = warnings \cup {w \in {"tree cap", "duplicate"} :
                                          IF w = "tree cap" THEN full ELSE Replaced(taken)}
  /\ UNCHANGED <<doc, phase, id_tree, parent_tree, stack, visited, nodes, references, marked,
                 artifacts, pages_done, truncated>>

IdTreeRead ==
  /\ phase = "ids" /\ walk.stack = <<>>
  /\ id_tree' = MapOf(walk.pairs)
  /\ phase' = "parents" /\ walk' = StartWalk(doc.nums)
  /\ UNCHANGED <<doc, parent_tree, stack, visited, nodes, references, marked, artifacts, pages_done,
                 truncated, warnings>>

\* collect_parent_tree_owners: the page, annotation or other object that
\* says a number; the last one of all pages wins.
Owners ==
  LET Of(page) ==
        <<[number \in {page.parent} \ {None} |-> page.key]>>
        \o [i \in DOMAIN page.objects |->
              [number \in {doc.dict[page.objects[i]].parent} \ {None} |-> page.objects[i]]]
  IN Merged(FlattenSeq([i \in DOMAIN doc.pages |-> Of(doc.pages[i])]))

PageKeys == {doc.pages[i].key : i \in DOMAIN doc.pages}
\* Of several pages that say a number, the one whose key comes first.
PageOf(number) ==
  LET those == {i \in DOMAIN doc.pages : doc.pages[i].parent = number}
      first == CHOOSE i \in those : \A j \in those : doc.pages[i].rank <= doc.pages[j].rank
  IN IF those = {} THEN <<"synthetic", number>> ELSE <<"page", doc.pages[first].key>>

\* collect_parent_tree_value: an object has its element, the marked content of
\* a page has one each.
Associations(number, value) ==
  LET owner == At(Owners, number)
      object == owner # None /\ owner \notin PageKeys
      given == CASE value[1] = "array" -> value[2] [] value[1] = "ref" -> <<value>> [] OTHER -> <<>>
      listed == {i \in DOMAIN given : ~object /\ given[i][1] = "ref"}
  IN [objects |-> [o \in {x \in {owner} : object /\ value[1] = "ref"} |-> value[2]],
      mcids |-> [k \in {<<PageOf(number), i - 1>> : i \in listed} |-> given[k[2] + 1][2]]]

\* What the entries of the parent tree come to.
NumberTree(pairs) ==
  LET found == [i \in DOMAIN pairs |-> Associations(pairs[i][1], pairs[i][2])]
  IN [objects |-> Merged([i \in DOMAIN pairs |-> found[i].objects]),
      mcids |-> Merged([i \in DOMAIN pairs |-> found[i].mcids])]

ParentTreeRead ==
  /\ phase = "parents" /\ walk.stack = <<>>
  /\ parent_tree' = NumberTree(walk.pairs)
  /\ phase' = "tree"
  /\ stack' = IF doc.k = NoValue THEN <<>>
              ELSE <<[value |-> doc.k, parent |-> 0, page |-> None, depth |-> 0]>>
  /\ UNCHANGED <<doc, walk, id_tree, visited, nodes, references, marked, artifacts, pages_done,
                 truncated, warnings>>

-----------------------------------------------------------------------------
(* The structure tree. *)

Skip(why) ==
  /\ stack' = Front(stack)
  /\ warnings' = IF why = "" THEN warnings ELSE warnings \cup {why}
  /\ UNCHANGED <<nodes, references>>

\* The kids of an element as collect_kids meets them: an array backwards.
KidsOf(d) == CASE d.k = NoValue -> <<>>
               [] d.k[1] = "array" -> Reverse(d.k[2])
               [] OTHER -> <<d.k>>

\* Mutant of ContentOf: a marked-content reference is on the page of its
\* element, whatever page it says.
ContentOfMutant(kid, page) ==
  CASE kid[1] = "int" -> <<<<"mcid", kid[2], page>>>>
    [] structure_dictionary(kid) /\ Dict(kid).is = "mcr" /\ Dict(kid).mcid # None ->
         <<<<"mcid", Dict(kid).mcid, page>>>>
    [] structure_dictionary(kid) /\ Dict(kid).is = "objr" ->
         <<<<"object", Dict(kid).target, Or(Dict(kid).page, page)>>>>
    [] OTHER -> <<>>

\* collect_kid_value: what each kid adds to the node, the references and the
\* stack; page is the page of the node.
ContentOf(kid, page) ==
  CASE kid[1] = "int" -> <<<<"mcid", kid[2], page>>>>
    [] structure_dictionary(kid) /\ Dict(kid).is = "mcr" /\ Dict(kid).mcid # None ->
         <<<<"mcid", Dict(kid).mcid, Or(Dict(kid).page, page)>>>>
    [] structure_dictionary(kid) /\ Dict(kid).is = "objr" ->
         <<<<"object", Dict(kid).target, Or(Dict(kid).page, page)>>>>
    [] OTHER -> <<>>

\* What the kids add to the node, in the order they are met.
ItemsOf(kids, page) == FlattenSeq([i \in DOMAIN kids |-> ContentOf(kids[i], page)])
IsElement(kid) == structure_dictionary(kid) /\ Dict(kid).is = "elem"

\* The elements among the kids.
Elements(kids) ==
  LET kept[i \in 0 .. Len(kids)] ==
        IF i = 0 THEN <<>>
        ELSE IF IsElement(kids[i]) THEN Append(kept[i - 1], kids[i]) ELSE kept[i - 1]
  IN kept[Len(kids)]

NewNode(item) ==
  LET d == Dict(item.value)
      page == Or(d.page, item.page)
      role == normalize_role(d.role, doc.roles)
  IN [key |-> KeyOf(item.value), dict |-> item.value[2], role |-> d.role,
      normalized_role |-> role[1], circular |-> role[2], parent |-> item.parent,
      page |-> page, children |-> <<>>, items |-> ItemsOf(KidsOf(d), page)]

\* The nodes when one more is a child of the given one.
WithChild(parent, id) ==
  [n \in DOMAIN nodes |->
     IF n = parent THEN [nodes[n] EXCEPT !.children = Append(@, id)] ELSE nodes[n]]

\* An element becomes a node.
AddNode(item) ==
  LET id == Len(nodes) + 1
      new == NewNode(item)
      children == Elements(KidsOf(Dict(item.value)))
      objects == SelectSeq(new.items, LAMBDA c : c[1] = "object")
  IN /\ nodes' = Append(WithChild(item.parent, id), new)
     /\ references' = references \o [i \in DOMAIN objects |-> [node |-> id, object |-> objects[i][2]]]
     /\ stack' = Front(stack) \o
          [i \in DOMAIN children |-> [value |-> children[i], parent |-> id,
                                      page |-> Or(Dict(children[i]).page, new.page),
                                      depth |-> item.depth + 1]]
     /\ UNCHANGED warnings

Turn == phase = "tree" /\ stack # <<>> /\ ~truncated
Top == Last(stack)
InDepth == Turn /\ Top.depth <= MaxDepth
Seen == KeyOf(Top.value) # None /\ KeyOf(Top.value) \in visited
IsNew == structure_dictionary(Top.value) /\ ~Seen
Note(v) == visited' = IF KeyOf(v) = None THEN visited ELSE visited \cup {KeyOf(v)}
TreeOnly == UNCHANGED <<doc, phase, walk, id_tree, parent_tree, marked, artifacts, pages_done>>

TooDeep ==
  /\ Turn /\ Top.depth > MaxDepth
  /\ truncated' = TRUE /\ Skip("depth cap") /\ UNCHANGED visited /\ TreeOnly

\* Mutant of OpenArray: the values are pushed as they stand.
OpenArrayMutant ==
  /\ InDepth /\ Top.value[1] = "array"
  /\ stack' = Front(stack) \o [i \in DOMAIN Top.value[2] |-> [Top EXCEPT !.value = Top.value[2][i]]]
  /\ UNCHANGED <<visited, nodes, references, truncated, warnings>> /\ TreeOnly

OpenArray ==
  /\ InDepth /\ Top.value[1] = "array"
  /\ stack' = Front(stack) \o
       Reverse([i \in DOMAIN Top.value[2] |-> [Top EXCEPT !.value = Top.value[2][i]]])
  /\ UNCHANGED <<visited, nodes, references, truncated, warnings>> /\ TreeOnly

\* What is not part of the structure, and what is not an element.
SkipOther ==
  /\ InDepth /\ Top.value[1] # "array"
  /\ \/ ~structure_dictionary(Top.value) /\ UNCHANGED visited
     \/ IsNew /\ ~IsElement(Top.value) /\ Note(Top.value)
  /\ Skip("") /\ UNCHANGED truncated /\ TreeOnly

\* Mutant of SkipSeen: an element met again is dropped without a warning.
SkipSeenMutant ==
  /\ InDepth /\ structure_dictionary(Top.value) /\ Seen
  /\ Skip("") /\ UNCHANGED <<visited, truncated>> /\ TreeOnly

SkipSeen ==
  /\ InDepth /\ structure_dictionary(Top.value) /\ Seen
  /\ Skip("cycle") /\ UNCHANGED <<visited, truncated>> /\ TreeOnly

TooMany ==
  /\ InDepth /\ IsNew /\ IsElement(Top.value) /\ Len(nodes) >= MaxNodes
  /\ truncated' = TRUE /\ Skip("node cap") /\ Note(Top.value) /\ TreeOnly

VisitElement ==
  /\ InDepth /\ IsNew /\ IsElement(Top.value) /\ Len(nodes) < MaxNodes
  /\ AddNode(Top) /\ Note(Top.value) /\ UNCHANGED truncated /\ TreeOnly

TreeRead ==
  /\ phase = "tree" /\ (stack = <<>> \/ truncated)
  /\ phase' = "content" /\ stack' = <<>>
  /\ UNCHANGED <<doc, walk, id_tree, parent_tree, visited, nodes, references, marked, artifacts, pages_done,
                 truncated, warnings>>

-----------------------------------------------------------------------------
(* Marked content and objects. *)

\* The MCID of a span: its own, or that of its property list, which it may
\* refer to or name.
Mcid(span) == Or(span.mcid, Or(span.linked, span.named))

\* explicit_node_for_mcid.
Claims(page, mcid) ==
  {id \in DOMAIN nodes : \E i \in DOMAIN nodes[id].items : nodes[id].items[i] = <<"mcid", mcid, page>>}
First(ids) == CHOOSE id \in ids : \A other \in ids : id <= other
Latest(ids) == CHOOSE id \in ids : \A other \in ids : id >= other

NodeOf(key) ==
  LET those == {id \in DOMAIN nodes : nodes[id].key = key}
  IN IF key = None \/ those = {} THEN None ELSE Latest(those)

OwnerOf(page, mcid) ==
  IF mcid = None THEN None
  ELSE IF Claims(page.key, mcid) # {} THEN First(Claims(page.key, mcid))
  ELSE IF page.parent = None THEN None
  ELSE NodeOf(Or(At(parent_tree.mcids, <<<<"page", page.key>>, mcid>>),
                 IF page.parent > 0 THEN At(parent_tree.mcids, <<<<"synthetic", page.parent>>, mcid>>)
                 ELSE None))

\* The marked content of the streams of a page that can be decoded and parsed.
Readable(page) ==
  FlattenSeq([i \in DOMAIN page.streams |->
                IF page.streams[i].ok THEN page.streams[i].spans ELSE <<>>])

\* One page of collect_content_associations.
AssociatePage ==
  /\ phase = "content" /\ pages_done < Len(doc.pages)
  /\ LET page == doc.pages[pages_done + 1]
         spans == Readable(page)
         Mark(span) ==
           LET node == OwnerOf(page, Mcid(span))
           IN [node |-> node, page |-> page.key, tag |-> span.tag, mcid |-> Mcid(span),
               text |-> span.text,
               image |-> span.image \/ (node # None /\ nodes[node].normalized_role = "Figure")]
     IN /\ marked' = marked \o [i \in DOMAIN spans |-> Mark(spans[i])]
        /\ warnings' = IF \A i \in DOMAIN page.streams : page.streams[i].ok THEN warnings
                       ELSE warnings \cup {"stream skipped"}
  /\ pages_done' = pages_done + 1
  /\ UNCHANGED <<doc, phase, walk, id_tree, parent_tree, stack, visited, nodes, references,
                 artifacts, truncated>>

ContentRead ==
  /\ phase = "content" /\ pages_done = Len(doc.pages) /\ phase' = "objects"
  /\ UNCHANGED <<doc, walk, id_tree, parent_tree, stack, visited, nodes, references, marked,
                 artifacts, pages_done, truncated, warnings>>

\* collect_parent_tree_object_associations, then collect_artifacts.
AssociateObjects ==
  /\ phase = "objects"
  /\ LET Node(o) == NodeOf(At(parent_tree.objects, o))
         known == {o \in DOMAIN doc.dict : Node(o) # None}
         images == SetToSeq({o \in known : doc.dict[o].is = "image"})
         others == SetToSeq({o \in known : doc.dict[o].is # "image"})
     IN /\ marked' = marked \o
             [i \in DOMAIN images |-> [node |-> Node(images[i]), page |-> None,
                                       tag |-> nodes[Node(images[i])].normalized_role,
                                       mcid |-> None, text |-> FALSE, image |-> TRUE]]
        /\ references' = references \o
             [i \in DOMAIN others |-> [node |-> Node(others[i]), object |-> others[i]]]
        /\ warnings' = IF DOMAIN parent_tree.objects \subseteq known THEN warnings
                       ELSE warnings \cup {"unknown structure element"}
        /\ artifacts' =
             {<<id, nodes[id].page>> : id \in {n \in DOMAIN nodes : nodes[n].normalized_role = "Artifact"}}
             \cup {<<marked'[i].node, marked'[i].page>> :
                     i \in {m \in DOMAIN marked' : marked'[m].tag = "Artifact"}}
  /\ phase' = "done"
  /\ UNCHANGED <<doc, walk, id_tree, parent_tree, stack, visited, nodes, pages_done, truncated>>

-----------------------------------------------------------------------------
Init ==
  /\ doc \in Documents
  /\ phase = "ids" /\ walk = StartWalk(doc.ids)
  /\ id_tree = <<>> /\ parent_tree = [objects |-> <<>>, mcids |-> <<>>]
  /\ stack = <<>> /\ visited = {} /\ nodes = <<>> /\ references = <<>> /\ marked = <<>>
  /\ artifacts = {} /\ pages_done = 0 /\ truncated = FALSE /\ warnings = {}

\* The graph is built: the only state in which nothing else happens.
Built == phase = "done" /\ UNCHANGED structure_vars

Next ==
  \/ WalkTree \/ IdTreeRead \/ ParentTreeRead
  \/ TooDeep \/ OpenArray \/ SkipOther \/ SkipSeen \/ TooMany \/ VisitElement \/ TreeRead
  \/ AssociatePage \/ ContentRead \/ AssociateObjects \/ Built

Spec == Init /\ [][Next]_structure_vars

-----------------------------------------------------------------------------
(* Properties. *)

TypeOK ==
  /\ phase \in {"ids", "parents", "tree", "content", "objects", "done"}
  /\ Len(walk.pairs) <= MaxEntries \/ phase = "ids"
  /\ Len(nodes) <= MaxNodes /\ pages_done \in 0 .. Len(doc.pages) /\ truncated \in BOOLEAN
  /\ \A i \in DOMAIN references : references[i].node \in DOMAIN nodes
  /\ \A i \in DOMAIN marked : marked[i].node = None \/ marked[i].node \in DOMAIN nodes

\* The dictionary a node is made of; 0 stands for the root.
DictOf(n) == IF n = 0 THEN None ELSE nodes[n].dict
IsPlace(name, i) == i \in DOMAIN Written(doc, name) /\ IsElement(Written(doc, name)[i])

\* The parent of a node comes before it, the node is among the children of its
\* parent and of no other node, and children stand in the order of the nodes.
ParentsFirst == \A n \in DOMAIN nodes : nodes[n].parent \in 0 .. n - 1
Ascending(s) == \A i, j \in DOMAIN s : i < j => s[i] < s[j]
HasItsChildren(ns, n) ==
  /\ Ascending(ns[n].children)
  /\ \A m \in DOMAIN ns :
       ns[m].parent = n <=> \E i \in DOMAIN ns[n].children : ns[n].children[i] = m
ChildrenExact == \A n \in DOMAIN nodes : HasItsChildren(nodes, n)

\* Lines from parents to children do not cross: a node is followed by all that is
\* below it, and only then by others.
LinesDoNotCross ==
  \A k, l \in DOMAIN nodes : k < l => nodes[l].parent <= nodes[k].parent \/ nodes[l].parent >= k

\* Where a node is written among the kids of its parent: the first place, when
\* there are several.
StandsAt(n, i) ==
  LET e == DictOf(nodes[n].parent)
  IN IsPlace(e, i) /\ Written(doc, e)[i][2] = nodes[n].dict
FirstPlace(n) ==
  CHOOSE i \in DOMAIN Written(doc, DictOf(nodes[n].parent)) :
    StandsAt(n, i) /\ \A j \in DOMAIN Written(doc, DictOf(nodes[n].parent)) : StandsAt(n, j) => i <= j
SiblingsAsWritten ==
  /\ \A n \in DOMAIN nodes : StandsAt(n, FirstPlace(n))
  /\ \A m, n \in DOMAIN nodes :
       m < n /\ nodes[m].parent = nodes[n].parent => FirstPlace(m) < FirstPlace(n)
DictsOnce == \A m, n \in DOMAIN nodes : m # n => nodes[m].dict # nodes[n].dict

\* The root of the structure tree has no arrays within its array of kids. (Such
\* arrays are opened there, and passed over everywhere else.)
PlainRoot == \A i \in DOMAIN Written(doc, None) : Written(doc, None)[i][1] # "array"

\* ReadingOrder: the nodes are the structure tree in document order, each
\* with its own kids in the order of /K, and no dictionary twice.
ReadingOrder ==
  /\ ParentsFirst /\ ChildrenExact /\ LinesDoNotCross
  /\ PlainRoot => SiblingsAsWritten /\ DictsOnce

\* Whether a value is a reference to an array; the walk takes no such array for
\* the kids of an element, nor collect_parent_tree_value for the entries of a page.
LeadsToArray(v) == v[1] = "ref" /\ v[2] \in DOMAIN doc.arrays
KidsInPlace == \A name \in DOMAIN doc.dict \cup {None} : ~LeadsToArray(K(doc, name))

\* The elements of the document, from the root down: the least set that has the
\* kids of the root and of its members, in place or in an array referred to.
KidsGiven(name) == IF LeadsToArray(K(doc, name)) THEN doc.arrays[K(doc, name)[2]] ELSE Written(doc, name)
Below(name) == {v[2] : v \in {w \in ToSet(KidsGiven(name)) : IsElement(w)}}
InDocument ==
  LET names == DOMAIN doc.dict
      below == [name \in names \cup {None} |-> Below(name)]
      closed == {S \in SUBSET names : below[None] \subseteq S /\ \A name \in S : below[name] \subseteq S}
  IN {name \in names : \A S \in closed : name \in S}

\* An element is referred to in one place at most.
ReachedOnce ==
  \A e, f \in InDocument \cup {None} :
    \A i \in DOMAIN Written(doc, e), j \in DOMAIN Written(doc, f) :
      /\ IsPlace(e, i) /\ IsPlace(f, j) /\ <<e, i>> # <<f, j>>
      /\ Written(doc, e)[i] = Written(doc, f)[j]
      => Written(doc, e)[i][1] # "ref"
NodeDicts == {nodes[n].dict : n \in DOMAIN nodes}

\* NothingLostSilently: only elements of the document are nodes, and each of
\* them is unless the graph says it was truncated; that, a way of reaching an
\* element again and a stream that was left out are all warned of. Kids behind a
\* reference to an array are excepted.
NothingLostSilently ==
  phase = "done" =>
    /\ PlainRoot => NodeDicts \subseteq InDocument
    /\ ~truncated /\ PlainRoot /\ KidsInPlace => NodeDicts = InDocument
    /\ warnings = {} =>
         /\ ~truncated
         /\ PlainRoot /\ KidsInPlace => ReachedOnce
         /\ \A i \in DOMAIN doc.pages :
              \A j \in DOMAIN doc.pages[i].streams : doc.pages[i].streams[j].ok

\* ArraysOfKidsFollowed: the same with no exception: no element is dropped
\* without a word ("malformed structure data is represented as facts/warnings
\* unless traversal cannot continue within limits",
\* specs/23-structure-accessibility-design.md:91).
ArraysOfKidsFollowed ==
  phase = "done" /\ warnings = {} /\ PlainRoot => NodeDicts = InDocument

\* The page an element of the document says or gets from above.
PageSaid(n) ==
  LET said[m \in 0 .. Len(nodes)] ==
        IF m = 0 THEN None ELSE Or(doc.dict[nodes[m].dict].page, said[nodes[m].parent])
  IN said[n]

\* Whether an element lists a number as its marked content on a page.
Lists(n, mcid, page) ==
  \E v \in ToSet(KidsOf(doc.dict[nodes[n].dict])) :
    \/ v[1] = "int" /\ v[2] = mcid /\ PageSaid(n) = page
    \/ structure_dictionary(v) /\ Dict(v).is = "mcr" /\ Dict(v).mcid = mcid /\ Or(Dict(v).page, PageSaid(n)) = page

\* What the parent tree has for the number of a page, and which elements that
\* gives for a number on it: an array, in place or referred to, has one for
\* each, an element alone stands for number 0.
EntriesFor(page) ==
  {walk.pairs[i][2] : i \in {j \in DOMAIN walk.pairs : page.parent # None /\ walk.pairs[j][1] = page.parent}}
InParentTree(mcid, page) ==
  LET arrays == {v[2] : v \in {w \in EntriesFor(page) : w[1] = "array"}}
                \cup {doc.arrays[v[2]] : v \in {w \in EntriesFor(page) : LeadsToArray(w)}}
      alone == {v \in EntriesFor(page) : v[1] = "ref" /\ ~LeadsToArray(v) /\ mcid = 0}
      listed == {a[mcid + 1] : a \in {b \in arrays : mcid + 1 \in DOMAIN b}}
  IN {v[2] : v \in alone \cup {w \in listed : w[1] = "ref"}}
EntriesInPlace(page) == \A v \in EntriesFor(page) : ~LeadsToArray(v)

\* No other page has the number of page p, and no object that comes later.
NumberIsItsOwn(p) ==
  /\ At(Owners, doc.pages[p].parent) \in PageKeys
  /\ \A q \in DOMAIN doc.pages : doc.pages[q].parent = doc.pages[p].parent => q = p

\* ContentHasItsElement: marked content goes to the one element that lists
\* it on its page, on its own or an inherited page; content no element lists
\* goes to one the parent tree gives, if the page has its number to itself and
\* what the parent tree gives are elements, and other content to none. An entry
\* that is a reference to an array gives none.
ContentHasItsElement ==
  \A i \in DOMAIN marked, p \in DOMAIN doc.pages :
    marked[i].page = doc.pages[p].key /\ marked[i].mcid # None =>
      LET listed == {n \in DOMAIN nodes : Lists(n, marked[i].mcid, marked[i].page)}
          given == InParentTree(marked[i].mcid, doc.pages[p])
          node == marked[i].node
      IN /\ listed # {} => node \in listed
         /\ listed = {} /\ node # None => node \in DOMAIN nodes /\ nodes[node].key \in given
         /\ listed = {} /\ NumberIsItsOwn(p) /\ EntriesInPlace(doc.pages[p]) /\ given # {}
              /\ (\A key \in given : \E n \in DOMAIN nodes : nodes[n].key = key)
            => node # None

\* ArraysOfParentsRead: the same with no exception: "Missing or inconsistent
\* parent-tree/MCID links become facts/warnings; they do not silently drop
\* affected rules" (specs/23-structure-accessibility-design.md:78).
ArraysOfParentsRead ==
  phase = "done" /\ warnings = {} =>
    \A i \in DOMAIN marked, p \in DOMAIN doc.pages :
      /\ marked[i].page = doc.pages[p].key /\ marked[i].mcid # None /\ NumberIsItsOwn(p)
      /\ \E n \in DOMAIN nodes : nodes[n].key \in InParentTree(marked[i].mcid, doc.pages[p])
      => marked[i].node # None

\* The roles a role is mapped to, one after the other.
RolesAfter(role) ==
  LET after[i \in 0 .. MaxRoleSteps - 1] ==
        IF i = 0 THEN role
        ELSE IF after[i - 1] \in DOMAIN doc.roles THEN doc.roles[after[i - 1]] ELSE after[i - 1]
  IN after

\* RolesResolved: a role is followed through the role map to the role that is
\* not mapped any more, unless the map goes round or on for too long, and
\* exactly then the node says so.
RolesResolved ==
  \A n \in DOMAIN nodes :
    LET final == RolesAfter(nodes[n].role)[MaxRoleSteps - 1]
        ends == final \notin DOMAIN doc.roles
    IN /\ nodes[n].circular = ~ends
       /\ ends => nodes[n].normalized_role = final

=============================================================================
