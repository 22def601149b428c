----------------------------- MODULE XmpFlavour -----------------------------
(***************************************************************************)
(* The metadata of a document and the profiles it asks for: PacketBuilder  *)
(* reads the XMP packet event by event with the namespace bindings in      *)
(* force, collects properties, and turns some of them into flavour claims; *)
(* FlavourDetector selects profiles for the claims or falls back to the    *)
(* configured default (core/src/xmp.rs).                                   *)
(*                                                                         *)
(* A value is a sequence of characters; the URI of a declaration counts as *)
(* one character. Namespaces are called by the prefix usual for them.      *)
(***************************************************************************)
EXTENDS Integers, Sequences, FiniteSets, SequencesExt

CONSTANTS
    None,
    Files,            \* event sequences, None for a document without metadata stream
    Defaults,         \* configured default flavours, None for none
    Builtin,          \* the flavours there are profiles for
    NsPrefixes,       \* the prefixes the files use
    MaxDepth, MaxElements, MaxAttributes, MaxNamespaces, MaxProperties, MaxInstructions, MaxText,
    MaxFacts          \* max_parse_facts

VARIABLES
    file, default,    \* the input
    pos,              \* the next event
    bindings,         \* current_namespaces: prefix to namespace, None if unbound
    known,            \* prefixes in namespaces
    stack, properties, elements, instructions, wrapped,
    facts,
    phase,            \* "reading", "read", "done" or "failed" (a limit)
    claims,           \* None until the packet is parsed, and if it is malformed
    profiles, warnings

input == <<file, default>>
reader == <<pos, bindings, known, stack, properties, elements, instructions, wrapped>>
vars == <<file, default, pos, bindings, known, stack, properties, elements, instructions, wrapped,
          facts, phase, claims, profiles, warnings>>

Flavour(family, part, conformance) ==
  [family |-> family, part |-> part, conformance |-> conformance]

-----------------------------------------------------------------------------
(* Names and properties. *)

Unbound == [p \in NsPrefixes \cup {""} |-> None]

\* resolve_prefix; None for a prefix that is not bound.
resolve_prefix(b, prefix) == IF prefix = "" /\ b[""] = None THEN "" ELSE b[prefix]

\* The bindings with the declarations of a start tag, in their order.
Declared(b, decls) == FoldLeft(LAMBDA acc, d : [acc EXCEPT ![d[1]] = d[2]], b, decls)

is_rdf_property(ns, local) ==
  /\ ns \notin {"rdf", "xml", ""}
  /\ local \notin {"RDF", "Description", "Alt", "Bag", "Seq", "li"}

is_identification_property(ns, local) ==
  \/ ns = "pdfaid"  /\ local \in {"part", "conformance", "rev"}
  \/ ns = "pdfuaid" /\ local \in {"part", "rev", "amd", "corr"}
  \/ ns = "pdfd"    /\ local \in {"conformsTo", "declarations", "value", "li"}

IsArray(frame) == frame.ns = "rdf" /\ frame.local \in {"Alt", "Bag", "Seq"}

Property(frame, value) ==
  [ns |-> frame.ns, local |-> frame.local, value |-> value, declarations |-> frame.declarations]

\* The duplicates among new properties, given those there are.
Duplicates(ps) ==
  LET all == properties \o ps
      n == Len(properties)
      again(i) == /\ is_identification_property(all[i].ns, all[i].local)
                  /\ \E j \in 1 .. i - 1 : all[j].ns = all[i].ns /\ all[j].local = all[i].local
      new == SelectSeq([i \in 1 .. Len(ps) |-> n + i], again)
  IN [k \in 1 .. Len(new) |-> <<"duplicate", all[new[k]].ns, all[new[k]].local>>]

\* insert_property, for properties that fit.
Insert(ps) == properties' = properties \o ps /\ facts' = facts \o Duplicates(ps)
Overfull(ps) == Len(properties) + Len(ps) > MaxProperties

\* A value that is too long comes before the property there is no room for.
TooLong(ps) ==
  \E i \in 1 .. Len(ps) : Len(properties) + i <= MaxProperties /\ Len(ps[i].value) > MaxText

-----------------------------------------------------------------------------
(* Reading. *)

Init ==
  /\ file \in Files /\ default \in Defaults
  /\ pos = 1 /\ bindings = Unbound /\ known = {} /\ stack = <<>> /\ properties = <<>>
  /\ elements = 0 /\ instructions = 0 /\ wrapped = FALSE /\ facts = <<>>
  /\ phase = (IF file = None THEN "read" ELSE "reading")
  /\ claims = None /\ profiles = <<>>
  /\ warnings = (IF file = None THEN {<<"missing">>} ELSE {})

Event(kind) == phase = "reading" /\ pos \in DOMAIN file /\ file[pos].kind = kind

\* A limit is an error of the whole validation.
LimitExceeded ==
  /\ phase' = "failed"
  /\ UNCHANGED <<input, reader, facts, claims, profiles, warnings>>

\* Any other error leaves the document without a packet.
Malformed ==
  /\ phase' = "read" /\ facts' = <<<<"malformed">>>> /\ warnings' = {<<"malformed">>}
  /\ UNCHANGED <<input, reader, claims, profiles>>

ReadOn ==
  /\ pos' = pos + 1
  /\ UNCHANGED <<input, phase, claims, profiles, warnings>>

TooMany(e) ==
  \/ Len(stack) + 1 > MaxDepth \/ elements + 1 > MaxElements
  \/ Len(e.decls) + Len(e.attrs) > MaxAttributes
  \/ \E i \in 1 .. Len(e.decls) :
       Cardinality(known \cup {e.decls[j][1] : j \in 1 .. i - 1}) >= MaxNamespaces

\* The properties a start tag adds: its attributes, then the mark that an
\* array opens in the property around it.
StartProperties(frame, e, b) ==
  LET inside == stack # <<>> /\ Last(stack).declarations
      attrs == [i \in 1 .. Len(e.attrs) |->
                 [ns |-> resolve_prefix(b, e.attrs[i].prefix), local |-> e.attrs[i].local,
                  value |-> e.attrs[i].value, declarations |-> inside]]
      kept(p) == is_rdf_property(p.ns, p.local)
      array == IsArray(frame) /\ stack # <<>> /\ is_rdf_property(Last(stack).ns, Last(stack).local)
  IN SelectSeq(attrs, kept) \o (IF array THEN <<Property(Last(stack), <<>>)>> ELSE <<>>)

Frame(e, b) ==
  LET ns == resolve_prefix(b, e.prefix)
      opens(f) == f.ns = "pdfd" /\ f.local = "declarations"
  IN [ns |-> ns, local |-> e.local, text |-> <<>>, outer |-> bindings,
      declarations |-> (ns = "pdfd" /\ e.local = "declarations")
                       \/ \E i \in DOMAIN stack : opens(stack[i])]

\* start: the tag's own declarations hold for its name and its attributes.
Start ==
  /\ Event("start")
  /\ LET e == file[pos]
         b == Declared(bindings, e.decls)
         names == {e.prefix} \cup {e.attrs[i].prefix : i \in DOMAIN e.attrs}
         frame == Frame(e, b)
         ps == StartProperties(frame, e, b)
     IN CASE TooMany(e) -> LimitExceeded
          [] ~TooMany(e) /\ (TooLong(ps) \/ \E p \in names : resolve_prefix(b, p) = None) -> Malformed
          [] ~TooMany(e) /\ ~TooLong(ps) /\ Overfull(ps)
               /\ \A p \in names : resolve_prefix(b, p) # None -> LimitExceeded
          [] OTHER -> /\ bindings' = b /\ known' = known \cup {d[1] : d \in Range(e.decls)}
                      /\ stack' = Append(stack, frame) /\ elements' = elements + 1
                      /\ Insert(ps) /\ ReadOn
                      /\ UNCHANGED <<instructions, wrapped>>

\* text
Text ==
  /\ Event("text")
  /\ LET n == Len(stack)
         text == stack[n].text \o file[pos].value
     IN IF n > 0 /\ Len(text) > MaxText THEN LimitExceeded
        ELSE /\ stack' = IF n = 0 THEN stack ELSE [stack EXCEPT ![n].text = text]
             /\ ReadOn
             /\ UNCHANGED <<bindings, known, properties, elements, instructions, wrapped, facts>>

\* The property an element's text belongs to: for rdf:li that of the array
\* around it (array_item_property), otherwise the element itself.
TextOwner(frame, below) ==
  LET n == Len(below)
  IN IF frame.ns = "rdf" /\ frame.local = "li" /\ n > 1 /\ IsArray(below[n])
     THEN below[n - 1] ELSE frame

\* An end tag, after which the given bindings are in force.
EndWith(after) ==
  LET owner == TextOwner(Last(stack), Front(stack))
      kept == Last(stack).text # <<>> /\ is_rdf_property(owner.ns, owner.local)
      ps == IF kept THEN <<Property(owner, Last(stack).text)>> ELSE <<>>
  IN IF Overfull(ps) THEN LimitExceeded
     ELSE /\ stack' = Front(stack) /\ bindings' = after /\ Insert(ps) /\ ReadOn
          /\ UNCHANGED <<known, elements, instructions, wrapped>>

\* Mutant of End: the declarations of the element stay in force.
EndMutant == Event("end") /\ stack # <<>> /\ EndWith(bindings)

\* end: the bindings from before the element are back.
End == Event("end") /\ stack # <<>> /\ EndWith(Last(stack).outer)

\* processing_instruction, of an xpacket.
Instruction ==
  /\ Event("xpacket")
  /\ IF instructions + 1 > MaxInstructions THEN LimitExceeded
     ELSE /\ instructions' = instructions + 1 /\ wrapped' = TRUE /\ ReadOn
          /\ UNCHANGED <<bindings, known, stack, properties, elements, facts>>

\* A document type or an entity.
Forbidden == Event("doctype") /\ Malformed

-----------------------------------------------------------------------------
(* Claims. *)

Digit == [d \in {"0", "1", "2", "3", "4"} |->
           CASE d = "0" -> 0 [] d = "1" -> 1 [] d = "2" -> 2 [] d = "3" -> 3 [] OTHER -> 4]

\* parse_nonzero_part: 0 for a text it refuses.
part_number(value) ==
  IF value = <<>> \/ ~(Range(value) \subseteq DOMAIN Digit) THEN 0
  ELSE FoldLeft(LAMBDA n, d : 10 * n + Digit[d], 0, value)

\* to_ascii_lowercase.
lowercase(value) ==
  [i \in DOMAIN value |-> CASE value[i] = "A" -> "a" [] value[i] = "B" -> "b" [] value[i] = "U" -> "u"
                           [] OTHER -> value[i]]

\* The first property of a name, as a sequence of at most one.
First(ns, local) ==
  LET named(p) == p.ns = ns /\ p.local = local
      found == SelectSeq(properties, named)
  IN SubSeq(found, 1, IF found = <<>> THEN 0 ELSE 1)

\* pdfa_claim, pdfua_claim and wtpdf_claims; a part of 0 is an error.
pdfa_claim ==
  LET conformance == First("pdfaid", "conformance")
  IN [i \in DOMAIN First("pdfaid", "part") |->
       Flavour("pdfa", part_number(First("pdfaid", "part")[1].value),
               IF conformance = <<>> THEN <<"none">> ELSE lowercase(conformance[1].value))]

pdfua_claim ==
  [i \in DOMAIN First("pdfuaid", "part") |->
    LET part == part_number(First("pdfuaid", "part")[1].value)
    IN Flavour("pdfua", part, IF part = 2 THEN <<"iso32005">> ELSE <<"none">>)]

wtpdf_claims ==
  LET declares(p) == p.ns = "pdfd" /\ p.declarations /\ p.value \in {<<"accessibility">>, <<"reuse">>}
      found == SelectSeq(properties, declares)
  IN [i \in DOMAIN found |-> Flavour("wtpdf", 1, found[i].value)]

\* A flavour has a conformance that is not empty, and display_flavour refuses
\* a PDF/UA part other than 1 and 2.
Displayable(f) == f.part # 0 /\ f.conformance # <<>> /\ (f.family = "pdfua" => f.part \in {1, 2})

\* claims, each once, where the first of equals stays.
ClaimList ==
  LET all == pdfa_claim \o pdfua_claim \o wtpdf_claims
      fresh(i) == \A j \in 1 .. i - 1 : all[j] # all[i]
      once == SelectSeq([i \in DOMAIN all |-> i], fresh)
  IN [k \in DOMAIN once |-> all[once[k]]]

\* The warnings about a packet.
PacketWarnings(fs) ==
  {<<"duplicate">> : i \in {j \in DOMAIN fs : fs[j][1] = "duplicate"}}
  \cup {<<"unwrapped">> : i \in {j \in DOMAIN fs : fs[j][1] = "unwrapped"}}
  \cup (IF Len(fs) > MaxFacts THEN {<<"fact cap">>} ELSE {})

\* finish at the end of the text, and parse_document_xmp: the facts of the
\* packet, up to their cap, and the warnings.
Finish ==
  /\ phase = "reading" /\ pos = Len(file) + 1
  /\ IF \E i \in DOMAIN ClaimList : ~Displayable(ClaimList[i]) THEN Malformed
     ELSE LET all == facts \o (IF wrapped THEN <<>> ELSE <<<<"unwrapped">>>>)
                     \o <<<<"header">>, <<"parsed">>>>
                     \o [i \in DOMAIN ClaimList |-> <<"claim", ClaimList[i]>>]
                     \o [i \in DOMAIN properties |-> <<"property", properties[i]>>]
          IN /\ claims' = ClaimList
             /\ facts' = SubSeq(all, 1, IF Len(all) < MaxFacts THEN Len(all) ELSE MaxFacts)
             /\ warnings' = PacketWarnings(all)
             /\ phase' = "read"
             /\ UNCHANGED <<input, reader, profiles>>

-----------------------------------------------------------------------------
(* Detection. *)

compatibility_group(f) ==
  IF (f.family = "pdfa" /\ f.part \in 1 .. 3) \/ (f.family = "pdfua" /\ f.part = 1)
  THEN "pdf-1" ELSE "pdf-2"

Incompatible(fs) == {<<"incompatible", f>> : f \in fs}

\* select_compatible_profiles: those of the generation of the first one.
Compatible(fs) ==
  LET same(f) == compatibility_group(f) = compatibility_group(fs[1])
  IN SelectSeq(fs, same)

\* The claims there are profiles for.
Loaded == LET there(f) == f \in Builtin IN SelectSeq(claims, there)

\* Select the given profiles; the claims left out are told.
SelectWith(fs, left_out) ==
  /\ profiles' = fs /\ warnings' = warnings \cup Incompatible(left_out)
  /\ phase' = "done"
  /\ UNCHANGED <<input, reader, facts, claims>>

\* Mutant of Select: a profile of the other generation is dropped silently.
SelectMutant ==
  /\ phase = "read" /\ claims # None /\ Loaded # <<>>
  /\ SelectWith(Compatible(Loaded), Range(claims) \ Range(Loaded))

\* detect, when a claim has a profile.
Select ==
  /\ phase = "read" /\ claims # None /\ Loaded # <<>>
  /\ SelectWith(Compatible(Loaded), Range(claims) \ Range(Compatible(Loaded)))

\* fallback: the configured default, or no profile at all. Without a packet
\* the reader's warnings replace the fallback's own.
Fallback ==
  /\ phase = "read"
  /\ claims # None => Loaded = <<>>
  /\ IF default # None /\ default \notin Builtin THEN phase' = "failed" /\ UNCHANGED <<profiles, warnings>>
     ELSE /\ profiles' = (IF default = None THEN <<>> ELSE <<default>>)
          /\ warnings' = warnings \cup
               (IF claims = None THEN {} ELSE {<<"no supported claims">>} \cup Incompatible(Range(claims)))
          /\ phase' = "done"
  /\ UNCHANGED <<input, reader, facts, claims>>

\* Validation goes on with the profiles, or has failed.
Detected == phase \in {"done", "failed"} /\ UNCHANGED vars

Next ==
  \/ Start \/ Text \/ End \/ Instruction \/ Forbidden \/ Finish
  \/ Select \/ Fallback \/ Detected

Spec == Init /\ [][Next]_vars

-----------------------------------------------------------------------------
(* Properties. *)

TypeOK ==
  /\ phase \in {"reading", "read", "done", "failed"}
  /\ Len(stack) <= MaxDepth /\ elements <= MaxElements /\ Len(properties) <= MaxProperties
  /\ Cardinality(known) <= MaxNamespaces

\* What stands in the file, without the reader's stack: the tags open before
\* event i, outermost first, and the namespace a prefix has there.
Level(i) == Cardinality({j \in 1 .. i : file[j].kind = "start"})
            - Cardinality({j \in 1 .. i : file[j].kind = "end"})
OpenAt(i) ==
  {j \in 1 .. i - 1 : file[j].kind = "start" /\ \A k \in j .. i - 1 : Level(k) >= Level(j)}
Binders(prefix, i) == {j \in OpenAt(i) : \E k \in DOMAIN file[j].decls : file[j].decls[k][1] = prefix}
Innermost(S) == CHOOSE j \in S : \A k \in S : k <= j
NamespaceAt(prefix, i) ==
  IF Binders(prefix, i) = {} THEN None
  ELSE Declared(Unbound, file[Innermost(Binders(prefix, i))].decls)[prefix]

NameOf(j) == <<NamespaceAt(file[j].prefix, j + 1), file[j].local>>
TextOf(j) ==
  LET inside == SelectSeq([i \in DOMAIN file |-> i],
                  LAMBDA i : file[i].kind = "text" /\ OpenAt(i) # {} /\ Innermost(OpenAt(i)) = j)
  IN FlattenSeq([k \in DOMAIN inside |-> file[inside[k]].value])
ParentOf(j) == IF OpenAt(j) = {} THEN 0 ELSE Innermost(OpenAt(j))
Closed(j) == \E i \in j + 1 .. Len(file) : Level(i) < Level(j)

\* The values written for a property: in attributes, as the text of its
\* element, and as the items of an array in it.
Written(ns, local) ==
  LET starts == {j \in DOMAIN file : file[j].kind = "start"}
      named == {j \in starts : NameOf(j) = <<ns, local>>}
      items == {j \in starts : NameOf(j) = <<"rdf", "li">> /\ ParentOf(j) # 0
                  /\ NameOf(ParentOf(j)) \in {<<"rdf", "Alt">>, <<"rdf", "Bag">>, <<"rdf", "Seq">>}
                  /\ ParentOf(ParentOf(j)) \in named}
  IN {file[j].attrs[k].value : <<j, k>> \in
        {<<j, k>> \in starts \X (1 .. MaxAttributes) :
           k \in DOMAIN file[j].attrs
           /\ <<NamespaceAt(file[j].attrs[k].prefix, j + 1), file[j].attrs[k].local>> = <<ns, local>>}}
     \cup ({TextOf(j) : j \in {i \in named \cup items : Closed(i)}} \ {<<>>})

\* ClaimsAsWritten: whatever prefixes a file uses and redeclares, the names of
\* its elements and attributes are read in their own scope, and the packet
\* claims what is written: a claim has a value of the file, there is one if
\* there is a value, and two different values are told.
ClaimsAsWritten ==
  /\ phase = "reading" /\ pos > 1 =>
       \A p \in NsPrefixes : bindings[p] = NamespaceAt(p, pos)
  /\ phase = "read" /\ claims # None =>
       \A family \in {"pdfa", "pdfua"} :
         LET ns == IF family = "pdfa" THEN "pdfaid" ELSE "pdfuaid"
             parts == Written(ns, "part")
             made == {f \in Range(claims) : f.family = family}
         IN /\ parts = {} <=> made = {}
            /\ \A f \in made : f.part \in {part_number(v) : v \in parts}
            /\ Cardinality(parts) > 1 => <<"duplicate">> \in warnings

\* NoClaimLostSilently: a flavour the metadata claims is validated, or a
\* warning says why not: claimed twice, metadata that cannot be read, no
\* profile, or another generation of PDF. Profiles that were not claimed come
\* with a warning, and those claimed are in the reported facts unless a
\* warning says that facts are missing.
NoClaimLostSilently ==
  phase = "done" =>
    /\ file # None => \A family \in {"pdfa", "pdfua"} :
         \A v \in Written(IF family = "pdfa" THEN "pdfaid" ELSE "pdfuaid", "part") :
           LET named(f) == f.family = family /\ f.part = part_number(v)
           IN \/ \E f \in Range(profiles) : named(f)
              \/ warnings \cap {<<"duplicate">>, <<"malformed">>} # {}
              \/ \E w \in warnings : w[1] = "incompatible" /\ named(w[2])
    /\ \A f \in Range(profiles) :
         \/ claims # None /\ f \in Range(claims)
            /\ (<<"claim", f>> \in Range(facts) \/ <<"fact cap">> \in warnings)
         \/ f = default /\ warnings \cap {<<"missing">>, <<"malformed">>, <<"no supported claims">>} # {}
    /\ \A f, g \in Range(profiles) : compatibility_group(f) = compatibility_group(g)

\* RecognisedClaimUsed: a flavour of PDF/A that is claimed and known is
\* validated, or left out with a warning that names it ("Extract all
\* recognized flavour claims").
RecognisedClaimUsed ==
  phase = "done" /\ file # None =>
    \A p \in Written("pdfaid", "part"), c \in Written("pdfaid", "conformance") :
      LET f == Flavour("pdfa", part_number(p), lowercase(c))
      IN f \in Builtin => \/ f \in Range(profiles) \/ <<"incompatible", f>> \in warnings
                          \/ <<"duplicate">> \in warnings

=============================================================================
