---------------------------- MODULE DocumentParser ----------------------------
(***************************************************************************)
(* ByteParser::parse_document: one pass over the source up to the first    *)
(* %%EOF, the encryption gate, then the structures kept in streams (xref   *)
(* streams and object streams).                                            *)
(*                                                                         *)
(* A source is a sequence of items.  What the parser reads off an item is  *)
(* given by Desc; the bytes themselves are abstracted.                     *)
(***************************************************************************)
EXTENDS Naturals, Sequences, FiniteSets

CONSTANTS
    Keys,               \* object numbers, ordered as ObjectStore orders them
    Items,              \* names of the top-level items
    Desc,               \* [Items -> Descriptions]
    Sources,            \* the files: a set of sequences of items
    Passwords,          \* passwords tried: "none", "right", "wrong"
    MaxObjects,         \* ResourceLimits.max_objects
    MaxParseFacts,      \* ResourceLimits.max_parse_facts
    None                \* no key

\* kind:     what the item is; "malformed" is any item a parser step refuses,
\*           by syntax or by a limit other than max_objects;
\* key:      the object's key;
\* stream:   the stream's /Type, "no" for an object that is not a stream;
\* decodes:  whether its data can be decoded and read;
\* holds:    the keys in an object stream;
\* root:     /Root of a trailer or of an xref stream's dictionary;
\* encrypt:  its /Encrypt, by what parse_encryption_dictionary says of it;
\* chain:    how many of /Prev and /XRefStm it has.
Descriptions ==
    [kind : {"object", "section", "trailer", "skipped", "eof", "malformed"},
     key : Keys, stream : {"no", "data", "xref", "objstm"}, decodes : BOOLEAN,
     holds : Seq(Keys), root : Keys \cup {None},
     encrypt : {"no", "supported", "unsupported", "malformed"}, chain : 0 .. 2]

ASSUME ParserAssumption ==
    /\ Keys \subseteq Nat
    /\ None \notin Keys /\ None \notin Items
    /\ Desc \in [Items -> Descriptions]
    /\ Sources \subseteq Seq(Items)
    /\ Passwords \subseteq {"none", "right", "wrong"}
    /\ MaxObjects \in Nat
    /\ MaxParseFacts \in Nat

VARIABLES
    source, password,   \* the input
    pc, pos,            \* step of parse_document, next item
    objects,            \* ObjectStore: the item each key was last taken from
    trailers,           \* items whose dictionary is a trailer, in push order
    facts, capWarned,   \* parse_facts; the ParseFactCapReached warning
    streams,            \* keys of the streams still to materialize
    expanded,           \* <<key, container item>> found in object streams
    catalog

vars == <<source, password, pc, pos, objects, trailers, facts, capWarned,
          streams, expanded, catalog>>

Init ==
    /\ source \in Sources /\ password \in Passwords
    /\ pc = "header" /\ pos = 1
    /\ objects = [k \in {} |-> None]
    /\ trailers = <<>> /\ facts = <<>> /\ capWarned = FALSE
    /\ streams = {} /\ expanded = <<>> /\ catalog = None

-------------------------------------------------------------------------------
Smaller(a, b) == IF a < b THEN a ELSE b

\* push_fact for each of new: facts past the cap are dropped, and the first
\* dropped one adds a warning.
push_facts(new) ==
    /\ facts' = SubSeq(facts \o new, 1, Smaller(Len(facts) + Len(new), MaxParseFacts))
    /\ capWarned' = (capWarned \/ Len(facts) + Len(new) > MaxParseFacts)

\* ObjectStore::insert.
Insert(key, item) ==
    objects' = [k \in DOMAIN objects \cup {key} |->
                    IF k = key THEN item ELSE objects[k]]

ObjectCount == Cardinality(DOMAIN objects)

Current == Desc[source[pos]]
Repeat(fact, n) == [i \in 1 .. n |-> fact]

ToFailed ==
    /\ pc' = "failed"
    /\ UNCHANGED <<source, password, pos, objects, trailers, facts, capWarned,
                   streams, expanded, catalog>>

\* parse_header: %PDF- is searched for anywhere in the source.
ParseHeader ==
    /\ pc = "header"
    /\ \/ ToFailed
       \/ /\ pc' = "scan"
          /\ push_facts(<<"header">>)
          /\ UNCHANGED <<source, password, pos, objects, trailers, streams,
                         expanded, catalog>>

\* The loop of parse_top_level_objects is at an item of this kind.
At(kind) == pc = "scan" /\ pos <= Len(source) /\ Current.kind = kind

\* An indirect object: a later definition of a key replaces the earlier one.
\* A stream records its length and its keyword spacing.
ScanObject ==
    /\ At("object") /\ ObjectCount + 1 <= MaxObjects
    /\ Insert(Current.key, source[pos])
    /\ push_facts(Repeat("stream", IF Current.stream = "no" THEN 0 ELSE 2))
    /\ pos' = pos + 1
    /\ UNCHANGED <<source, password, pc, trailers, streams, expanded, catalog>>

\* The limit counts a redefinition as one more object.
ScanObjectOverLimit == At("object") /\ ObjectCount + 1 > MaxObjects /\ ToFailed

\* A classic xref section with its trailer, or a trailer by itself.
ScanTrailer ==
    /\ At("section") \/ At("trailer")
    /\ trailers' = Append(trailers, source[pos])
    /\ push_facts(Repeat("xref", Current.chain + IF Current.kind = "section" THEN 1 ELSE 0))
    /\ pos' = pos + 1
    /\ UNCHANGED <<source, password, pc, objects, streams, expanded, catalog>>

\* startxref lines and bytes that start no item.
ScanSkipped ==
    /\ At("skipped")
    /\ pos' = pos + 1
    /\ UNCHANGED <<source, password, pc, objects, trailers, facts, capWarned,
                   streams, expanded, catalog>>

ScanMalformed == At("malformed") /\ ToFailed

\* The first %%EOF ends the pass, whatever follows it.
ScanEof ==
    /\ At("eof")
    /\ pc' = "gate" /\ pos' = pos + 1
    /\ push_facts(IF pos < Len(source) THEN <<"post_eof">> ELSE <<>>)
    /\ UNCHANGED <<source, password, objects, trailers, streams, expanded, catalog>>

ScanEnd ==
    /\ pc = "scan" /\ pos > Len(source)
    /\ pc' = "gate"
    /\ UNCHANGED <<source, password, pos, objects, trailers, facts, capWarned,
                   streams, expanded, catalog>>

-------------------------------------------------------------------------------
\* trailers.iter().rev().find_map: the last of the trailers that is in S.
LastIn(S) ==
    LET at == {i \in DOMAIN trailers : trailers[i] \in S}
    IN  IF at = {} THEN None
        ELSE trailers[CHOOSE i \in at : \A j \in at : j <= i]

Encrypting == {t \in Items : Desc[t].encrypt # "no"}
Rooted == {t \in Items : Desc[t].root # None}

encryption_reference ==
    IF LastIn(Encrypting) = None THEN "no" ELSE Desc[LastIn(Encrypting)].encrypt

catalog_root == IF LastIn(Rooted) = None THEN None ELSE Desc[LastIn(Rooted)].root

\* The streams among the objects that materialization looks into.
TypedKeys == {k \in DOMAIN objects : Desc[objects[k]].stream \in {"xref", "objstm"}}

\* The gate lets the document through to materialization.
OpenStreams ==
    /\ pc' = "streams"
    /\ streams' = TypedKeys
    /\ UNCHANGED <<source, password, pos, objects, trailers, expanded, catalog>>

\* The gate returns the document as encrypted.
StopEncrypted ==
    /\ pc' = "done"
    /\ push_facts(<<"encrypted">>)
    /\ catalog' = catalog_root
    /\ UNCHANGED <<source, password, pos, objects, trailers, streams, expanded>>

GateOpen ==
    /\ pc = "gate" /\ encryption_reference = "no"
    /\ OpenStreams
    /\ UNCHANGED <<facts, capWarned>>

\* classify_encryption: a malformed dictionary is a parse error.
GateMalformed == pc = "gate" /\ encryption_reference = "malformed" /\ ToFailed

\* Mutant of GateNoPassword: the document is read on without its password.
GateNoPasswordContinues ==
    /\ pc = "gate" /\ encryption_reference \in {"supported", "unsupported"}
    /\ password = "none"
    /\ push_facts(<<"encrypted">>)
    /\ OpenStreams

GateNoPassword ==
    /\ pc = "gate" /\ encryption_reference \in {"supported", "unsupported"}
    /\ password = "none"
    /\ StopEncrypted

\* Mutant of GateLocked: a refused password is not recorded.
GateLockedSilently ==
    /\ pc = "gate"
    /\ \/ encryption_reference = "supported" /\ password = "wrong"
       \/ encryption_reference = "unsupported" /\ password # "none"
    /\ pc' = "done" /\ catalog' = catalog_root
    /\ UNCHANGED <<source, password, pos, objects, trailers, facts, capWarned,
                   streams, expanded>>

\* An incorrect password or a handler that is not supported.
GateLocked ==
    /\ pc = "gate"
    /\ \/ encryption_reference = "supported" /\ password = "wrong"
       \/ encryption_reference = "unsupported" /\ password # "none"
    /\ StopEncrypted

\* decrypt_document rewrites strings and streams in place, or finds one that
\* it cannot decrypt.
GateDecrypt ==
    /\ pc = "gate" /\ encryption_reference = "supported" /\ password = "right"
    /\ \/ push_facts(<<"decrypted">>) /\ OpenStreams
       \/ ToFailed

-------------------------------------------------------------------------------
\* Streams are taken in key order.
NextStream(k) == pc = "streams" /\ k \in streams /\ \A j \in streams : k <= j

Unreadable(k) ==
    LET d == Desc[objects[k]]
    IN  \/ ~d.decodes
        \/ d.stream = "objstm" /\ Len(d.holds) > MaxObjects
        \/ d.stream = "objstm" /\ \E i \in DOMAIN d.holds : d.holds[i] = k

\* An xref stream's dictionary becomes a trailer after all the classic ones.
MaterializeXref(k) ==
    /\ NextStream(k) /\ Desc[objects[k]].stream = "xref" /\ ~Unreadable(k)
    /\ trailers' = Append(trailers, objects[k])
    /\ push_facts(<<"stream">> \o Repeat("xref", Desc[objects[k]].chain + 1))
    /\ streams' = streams \ {k}
    /\ UNCHANGED <<source, password, pc, pos, objects, expanded, catalog>>

\* The objects of an object stream, each with the item it came from.
Held(item) == [i \in DOMAIN Desc[item].holds |-> <<Desc[item].holds[i], item>>]

MaterializeObjStm(k) ==
    /\ NextStream(k) /\ Desc[objects[k]].stream = "objstm" /\ ~Unreadable(k)
    /\ expanded' = expanded \o Held(objects[k])
    /\ push_facts(<<"stream", "xref">>)
    /\ streams' = streams \ {k}
    /\ UNCHANGED <<source, password, pc, pos, objects, trailers, catalog>>

MaterializeFails(k) == NextStream(k) /\ Unreadable(k) /\ ToFailed

MaterializeEnd ==
    /\ pc = "streams" /\ streams = {}
    /\ pc' = "expand"
    /\ UNCHANGED <<source, password, pos, objects, trailers, facts, capWarned,
                   streams, expanded, catalog>>

\* Mutant of ExpandNew: an object of an object stream replaces the one there.
ExpandReplaces ==
    /\ pc = "expand" /\ expanded # <<>> /\ ObjectCount + 1 <= MaxObjects
    /\ Insert(Head(expanded)[1], Head(expanded)[2])
    /\ expanded' = Tail(expanded)
    /\ UNCHANGED <<source, password, pc, pos, trailers, facts, capWarned,
                   streams, catalog>>

\* An object of an object stream is taken only where no object has its key.
ExpandNew ==
    /\ pc = "expand" /\ expanded # <<>> /\ Head(expanded)[1] \notin DOMAIN objects
    /\ ObjectCount + 1 <= MaxObjects
    /\ Insert(Head(expanded)[1], Head(expanded)[2])
    /\ expanded' = Tail(expanded)
    /\ UNCHANGED <<source, password, pc, pos, trailers, facts, capWarned,
                   streams, catalog>>

\* Mutant of ExpandShadowed: the shadowed object is looked at again.
ExpandShadowedStays ==
    /\ pc = "expand" /\ expanded # <<>> /\ Head(expanded)[1] \in DOMAIN objects
    /\ UNCHANGED vars

ExpandShadowed ==
    /\ pc = "expand" /\ expanded # <<>> /\ Head(expanded)[1] \in DOMAIN objects
    /\ expanded' = Tail(expanded)
    /\ UNCHANGED <<source, password, pc, pos, objects, trailers, facts, capWarned,
                   streams, catalog>>

ExpandOverLimit ==
    /\ pc = "expand" /\ expanded # <<>> /\ Head(expanded)[1] \notin DOMAIN objects
    /\ ObjectCount + 1 > MaxObjects
    /\ ToFailed

\* Mutant of Finish: the oldest /Root wins.
FinishOldestRoot ==
    /\ pc = "expand" /\ expanded = <<>>
    /\ pc' = "done"
    /\ LET at == {i \in DOMAIN trailers : trailers[i] \in Rooted}
       IN  catalog' = IF at = {} THEN None
                      ELSE Desc[trailers[CHOOSE i \in at : \A j \in at : i <= j]].root
    /\ UNCHANGED <<source, password, pos, objects, trailers, facts, capWarned,
                   streams, expanded>>

Finish ==
    /\ pc = "expand" /\ expanded = <<>>
    /\ pc' = "done" /\ catalog' = catalog_root
    /\ UNCHANGED <<source, password, pos, objects, trailers, facts, capWarned,
                   streams, expanded>>

Scan ==
    \/ ScanObject \/ ScanObjectOverLimit \/ ScanTrailer \/ ScanSkipped
    \/ ScanMalformed \/ ScanEof \/ ScanEnd

Gate == GateOpen \/ GateMalformed \/ GateNoPassword \/ GateLocked \/ GateDecrypt

Materialize ==
    \/ \E k \in Keys : MaterializeXref(k) \/ MaterializeObjStm(k) \/ MaterializeFails(k)
    \/ MaterializeEnd \/ ExpandNew \/ ExpandShadowed \/ ExpandOverLimit

Returned == pc \in {"done", "failed"}

Next ==
    \/ ParseHeader \/ Scan \/ Gate \/ Materialize \/ Finish
    \/ Returned /\ UNCHANGED vars

Spec == Init /\ [][Next]_vars

\* The parser runs on the caller's thread until it returns.
FairSpec == Spec /\ WF_vars(Next)

\* ParsedDocument::is_encrypted.
is_encrypted == \E i \in DOMAIN facts : facts[i] = "encrypted"

-------------------------------------------------------------------------------
FactKinds == {"header", "stream", "xref", "post_eof", "encrypted", "decrypted"}

\* Types of the parser's position, store, trailers, facts and work lists.
TypeOK ==
    /\ source \in Seq(Items) /\ password \in {"none", "right", "wrong"}
    /\ pc \in {"header", "scan", "gate", "streams", "expand", "done", "failed"}
    /\ pos \in 1 .. Len(source) + 1
    /\ DOMAIN objects \subseteq Keys
    /\ objects \in [DOMAIN objects -> Items]
    /\ trailers \in Seq(Items)
    /\ facts \in Seq(FactKinds) /\ capWarned \in BOOLEAN
    /\ streams \subseteq DOMAIN objects
    /\ expanded \in Seq(Keys \X Items)
    /\ catalog \in Keys \cup {None}

\* The pass read the items before pos; Defining(k) are the objects with key k.
Passed == 1 .. pos - 1
Defining(k) == {i \in Passed : Desc[source[i]].kind = "object" /\ Desc[source[i]].key = k}

\* What the file says of key k up to the first %%EOF: the last definition, or
\* else the first object stream, in key order, that holds it.
Direct(k) == source[CHOOSE i \in Defining(k) : \A j \in Defining(k) : j <= i]
Containers(k) ==
    {c \in Keys : /\ Defining(c) # {} /\ Desc[Direct(c)].stream = "objstm"
                  /\ \E i \in DOMAIN Desc[Direct(c)].holds : Desc[Direct(c)].holds[i] = k}
Meaning(k) ==
    IF Defining(k) # {} THEN Direct(k)
    ELSE Direct(CHOOSE c \in Containers(k) : \A d \in Containers(k) : c <= d)

\* A classic trailer of the part that was read declares encryption.
DeclaresEncrypt(i) ==
    /\ Desc[source[i]].kind \in {"section", "trailer"}
    /\ Desc[source[i]].encrypt # "no"
Declaring == {i \in Passed : DeclaresEncrypt(i)}
Locked ==
    \E i \in Declaring :
        /\ \A j \in Declaring : j <= i
        /\ ~(password = "right" /\ Desc[source[i]].encrypt = "supported")

\* The object store of an unlocked document is exactly what the file says, for
\* every key: later definitions replace earlier ones, an object stream that was
\* itself replaced contributes nothing, and compressed objects never replace
\* directly defined ones.
StoreMatchesFile ==
    pc = "done" /\ ~Locked =>
        /\ DOMAIN objects = {k \in Keys : Defining(k) # {} \/ Containers(k) # {}}
        /\ \A k \in DOMAIN objects : objects[k] = Meaning(k)

\* max_objects bounds the store whatever the file repeats or compresses, and
\* max_parse_facts the facts; the cap warning is given
\* only when they are full.
LimitsHold ==
    /\ ObjectCount <= MaxObjects
    /\ Len(facts) <= MaxParseFacts
    /\ capWarned => Len(facts) = MaxParseFacts

\* Nothing of a locked document is decoded: no compressed object is in the
\* store and no xref stream is among the trailers, at any time.
LockedStaysShut ==
    Locked =>
        /\ \A k \in DOMAIN objects : Desc[objects[k]].key = k
        /\ \A i \in DOMAIN trailers : Desc[trailers[i]].kind # "object"

\* A locked document is reported as encrypted unless facts were dropped.
LockedIsReported == pc = "done" /\ Locked /\ ~capWarned => is_encrypted

\* The catalog is the /Root of the last trailer read that has one, when no
\* xref stream supplies a trailer.
CatalogFromLastTrailer ==
    LET roots == {i \in Passed : /\ Desc[source[i]].kind \in {"section", "trailer"}
                                 /\ Desc[source[i]].root # None}
    IN  pc = "done" /\ (\A i \in DOMAIN trailers : Desc[trailers[i]].kind # "object")
            => IF roots = {} THEN catalog = None
               ELSE catalog = Desc[source[CHOOSE i \in roots : \A j \in roots : j <= i]].root

\* Every file is parsed to a document or an error.
ParseReturns == <>Returned

-------------------------------------------------------------------------------
\* What the design documents say of the parser, which the code does not do.

\* "Encrypted PDF, no password supplied: ValidationStatus::Encrypted".
DeclaredEncryptionReported ==
    pc = "done" /\ password = "none" /\ (\E i \in Passed : DeclaresEncrypt(i))
        => is_encrypted

\* "Encrypted PDFs are detected": also when the xref stream, which is then the
\* trailer, has the /Encrypt entry.
XrefStreamEncryptionReported ==
    pc = "done" /\ password = "none"
    /\ (\E i \in DOMAIN trailers : Desc[trailers[i]].encrypt # "no")
        => is_encrypted

\* "Merge object revisions with latest revision winning", over the whole file.
LatestRevisionWins ==
    pc = "done" =>
        \A i \in DOMAIN source :
            /\ Desc[source[i]].kind = "object"
            /\ \A j \in i + 1 .. Len(source) :
                  Desc[source[j]].kind = "object" => Desc[source[j]].key # Desc[source[i]].key
            => Desc[source[i]].key \in DOMAIN objects
               /\ objects[Desc[source[i]].key] = source[i]
===============================================================================
