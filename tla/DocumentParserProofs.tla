------------------------- MODULE DocumentParserProofs -------------------------
(***************************************************************************)
(* The parser for every file and every value of the limits: its limits,    *)
(* its encryption gate, the catalog it finds, and the object store, which  *)
(* is what the file says.                                                  *)
(***************************************************************************)
EXTENDS DocumentParser, SequenceTheorems, FiniteSetTheorems,
        WellFoundedInduction, TLAPS

\* A set of positions of a sequence has a last one.
LEMMA LastPosition ==
    ASSUME NEW n \in Nat, NEW S, S \subseteq 1 .. n, S # {}
    PROVE  \E i \in S : \A j \in S : j <= i
<1> DEFINE R == {ss \in Nat \X Nat : ss[1] < ss[2]}
           T == {n - i : i \in S}
<1>1. IsWellFoundedOn(R, Nat)
    BY NatLessThanWellFounded DEF OpToRel
<1>2. T \subseteq Nat /\ T # {}
    <2>1. \A i \in S : n - i \in Nat
        OBVIOUS
    <2>2. \E i \in S : TRUE
        OBVIOUS
    <2> QED
        BY <2>1, <2>2
<1>3. PICK x \in T : \A y \in T : ~(<<y, x>> \in R)
    <2> HIDE DEF R, T
    <2> QED BY <1>1, <1>2, WFMin
<1>4. PICK i \in S : x = n - i
    OBVIOUS
<1>5. ASSUME NEW j \in S PROVE j <= i
    <2>1. n - j \in T /\ n - j \in Nat /\ n - i \in Nat
        OBVIOUS
    <2>2. ~(n - j < n - i)
        BY <2>1, <1>3, <1>4
    <2> QED
        BY <2>2
<1> QED
    BY <1>5

\* The description of an item has its fields.
LEMMA DescFields ==
    ASSUME NEW t \in Items
    PROVE  /\ Desc[t].kind \in {"object", "section", "trailer", "skipped", "eof", "malformed"}
           /\ Desc[t].key \in Keys
           /\ Desc[t].stream \in {"no", "data", "xref", "objstm"}
           /\ Desc[t].holds \in Seq(Keys)
           /\ Desc[t].root \in Keys \cup {None}
           /\ Desc[t].encrypt \in {"no", "supported", "unsupported", "malformed"}
           /\ Desc[t].chain \in 0 .. 2
<1>1. Desc[t] \in Descriptions
    BY ParserAssumption
<1> QED
    BY <1>1 DEF Descriptions

\* Repeat builds a sequence of the given length.
LEMMA RepeatType ==
    ASSUME NEW f \in FactKinds, NEW n \in Nat
    PROVE  Repeat(f, n) \in Seq(FactKinds) /\ Len(Repeat(f, n)) = n
<1>1. Repeat(f, n) \in [1 .. n -> FactKinds]
    BY DEF Repeat
<1> QED
    BY <1>1, SeqDef

\* Facts stay within the cap, and the warning is given only when they fill it.
FactsInv ==
    /\ facts \in Seq(FactKinds) /\ capWarned \in BOOLEAN
    /\ Len(facts) <= MaxParseFacts
    /\ capWarned => Len(facts) = MaxParseFacts

\* push_fact keeps the facts typed and within the cap.
LEMMA PushKeeps ==
    ASSUME FactsInv, NEW new \in Seq(FactKinds), push_facts(new)
    PROVE  FactsInv' /\ (capWarned => capWarned')
<1> DEFINE n == Smaller(Len(facts) + Len(new), MaxParseFacts)
<1>1. /\ facts \o new \in Seq(FactKinds)
      /\ Len(facts \o new) = Len(facts) + Len(new)
      /\ Len(facts) \in Nat /\ Len(new) \in Nat
    BY DEF FactsInv
<1>2. n \in 0 .. Len(facts \o new) /\ n <= MaxParseFacts
      /\ (Len(facts) + Len(new) > MaxParseFacts => n = MaxParseFacts)
    BY <1>1, ParserAssumption DEF Smaller
<1>3. facts' = SubSeq(facts \o new, 1, n)
    BY DEF push_facts
<1> HIDE DEF n
<1>4. facts' \in Seq(FactKinds) /\ Len(facts') = n
    BY <1>1, <1>2, <1>3, SubSeqProperties
<1>5. capWarned' \in BOOLEAN
    BY DEF push_facts
<1>6. capWarned => Len(new) = 0 \/ Len(facts) + Len(new) > MaxParseFacts
    BY <1>1, ParserAssumption DEF FactsInv
<1>7. capWarned' => Len(facts') = MaxParseFacts
    <2>1. CASE Len(facts) + Len(new) > MaxParseFacts
        BY <2>1, <1>2, <1>4
    <2>2. CASE ~(Len(facts) + Len(new) > MaxParseFacts)
        <3>1. ASSUME capWarned PROVE Len(facts') = MaxParseFacts
            <4>1. Len(new) = 0 /\ Len(facts) = MaxParseFacts
                BY <2>2, <1>6, <3>1 DEF FactsInv
            <4>2. n = MaxParseFacts
                BY <4>1, <1>1, ParserAssumption DEF n, Smaller
            <4> QED
                BY <4>2, <1>4
        <3> QED
            BY <2>2, <3>1 DEF push_facts
    <2> QED
        BY <2>1, <2>2
<1> QED
    BY <1>2, <1>4, <1>5, <1>7 DEF FactsInv, push_facts

\* Unless the cap is hit, a pushed fact is the last of the list.
LEMMA PushedIsThere ==
    ASSUME FactsInv, NEW f \in FactKinds, push_facts(<<f>>), ~capWarned'
    PROVE  \E i \in DOMAIN facts' : facts'[i] = f
<1>1. Len(facts) \in Nat /\ Len(<<f>>) = 1
    BY DEF FactsInv
<1>2. Len(facts) + 1 <= MaxParseFacts
    <2>1. ~(Len(facts) + Len(<<f>>) > MaxParseFacts)
        BY Zenon DEF push_facts
    <2> QED
        BY <1>1, <2>1, ParserAssumption
<1>3. Smaller(Len(facts) + 1, MaxParseFacts) = Len(facts) + 1
    BY <1>1, <1>2, ParserAssumption DEF Smaller
<1>4. facts' = SubSeq(facts \o <<f>>, 1, Len(facts) + 1)
    BY <1>1, <1>3 DEF push_facts
<1>5. /\ facts \o <<f>> \in Seq(FactKinds) /\ Len(facts \o <<f>>) = Len(facts) + 1
      /\ (facts \o <<f>>)[Len(facts) + 1] = f
    BY <1>1 DEF FactsInv
<1>6. /\ facts' \in Seq(FactKinds) /\ Len(facts') = Len(facts) + 1
      /\ facts'[Len(facts) + 1] = f
    BY <1>1, <1>4, <1>5
<1> QED
    BY <1>1, <1>6

-------------------------------------------------------------------------------
\* The store is a map from keys to items within max_objects.
StoreInv ==
    /\ DOMAIN objects \subseteq Keys /\ objects \in [DOMAIN objects -> Items]
    /\ IsFiniteSet(DOMAIN objects) /\ ObjectCount <= MaxObjects

\* ObjectStore::insert keeps the store typed and adds one key at most.
LEMMA InsertKeeps ==
    ASSUME StoreInv, NEW k \in Keys, NEW t \in Items, Insert(k, t),
           ObjectCount + 1 <= MaxObjects
    PROVE  StoreInv' /\ DOMAIN objects' = DOMAIN objects \cup {k}
<1>1. DOMAIN objects' = DOMAIN objects \cup {k}
    BY DEF Insert
<1>2. objects' \in [DOMAIN objects' -> Items]
    BY <1>1 DEF Insert, StoreInv
<1>3. /\ IsFiniteSet(DOMAIN objects \cup {k})
      /\ Cardinality(DOMAIN objects \cup {k}) =
            IF k \in DOMAIN objects THEN Cardinality(DOMAIN objects)
            ELSE Cardinality(DOMAIN objects) + 1
    BY FS_AddElement DEF StoreInv
<1>4. Cardinality(DOMAIN objects) \in Nat
    BY FS_CardinalityType DEF StoreInv
<1>5. Cardinality(DOMAIN objects') <= MaxObjects
    BY <1>1, <1>3, <1>4, ParserAssumption DEF ObjectCount
<1> QED
    BY <1>1, <1>2, <1>3, <1>5 DEF StoreInv, ObjectCount

-------------------------------------------------------------------------------
\* Everything but the types of facts and store.
ShapeInv ==
    /\ source \in Seq(Items) /\ password \in {"none", "right", "wrong"}
    /\ pc \in {"header", "scan", "gate", "streams", "expand", "done", "failed"}
    /\ pos \in 1 .. Len(source) + 1
    /\ trailers \in Seq(Items)
    /\ streams \subseteq DOMAIN objects
    /\ expanded \in Seq(Keys \X Items)
    /\ catalog \in Keys \cup {None}

ParserInv == ShapeInv /\ FactsInv /\ StoreInv

\* catalog_root is a key or None.
LEMMA CatalogRootType ==
    ASSUME ParserInv
    PROVE  catalog_root \in Keys \cup {None}
<1>1. CASE LastIn(Rooted) = None
    BY <1>1 DEF catalog_root
<1>2. CASE LastIn(Rooted) # None
    <2> DEFINE at == {i \in DOMAIN trailers : trailers[i] \in Rooted}
               top == CHOOSE i \in at : \A j \in at : j <= i
    <2>1. at # {} /\ LastIn(Rooted) = trailers[top]
        BY <1>2 DEF LastIn
    <2>2. Desc[trailers[top]].root \in Keys \cup {None} \/ trailers[top] \notin Items
        BY DescFields
    <2>3. CASE trailers[top] \in Items
        BY <1>2, <2>1, <2>2, <2>3 DEF catalog_root
    <2>4. \E i \in at : \A j \in at : j <= i
        <3>1. at \subseteq 1 .. Len(trailers) /\ Len(trailers) \in Nat
            BY DEF ParserInv, ShapeInv
        <3> HIDE DEF at
        <3> QED
            BY <2>1, <3>1, LastPosition
    <2>5. top \in at
        BY <2>4
    <2>6. trailers[top] \in Items
        BY <2>5 DEF Rooted
    <2> QED
        BY <2>3, <2>6
<1> QED
    BY <1>1, <1>2

\* ByteParser::new establishes the invariant.
LEMMA InitParser == Init => ParserInv
<1> SUFFICES ASSUME Init PROVE ParserInv
    OBVIOUS
<1>1. ShapeInv
    <2>1. source \in Seq(Items) /\ password \in {"none", "right", "wrong"}
        BY ParserAssumption DEF Init
    <2>2. Len(source) \in Nat
        BY <2>1
    <2>3. pos \in 1 .. Len(source) + 1
        BY <2>2 DEF Init
    <2>4. trailers \in Seq(Items) /\ expanded \in Seq(Keys \X Items)
        BY DEF Init
    <2> QED
        BY <2>1, <2>3, <2>4 DEF Init, ShapeInv
<1>2. FactsInv
    <2>1. facts = <<>> /\ capWarned = FALSE
        BY DEF Init
    <2>2. facts \in Seq(FactKinds) /\ Len(facts) = 0
        BY <2>1
    <2>3. Len(facts) <= MaxParseFacts
        BY <2>2, ParserAssumption
    <2> QED
        BY <2>1, <2>2, <2>3 DEF FactsInv
<1>3. DOMAIN objects = {}
    BY DEF Init
<1>4. StoreInv
    <2>1. IsFiniteSet({}) /\ Cardinality({}) = 0
        BY FS_EmptySet
    <2>2. objects \in [DOMAIN objects -> Items]
        BY <1>3 DEF Init
    <2> QED
        BY <1>3, <2>1, <2>2, ParserAssumption DEF StoreInv, ObjectCount
<1> QED
    BY <1>1, <1>2, <1>4 DEF ParserInv

\* Returning an error changes nothing the invariant is about.
LEMMA FailKeeps == ParserInv /\ ToFailed => ParserInv'
BY DEF ParserInv, ShapeInv, FactsInv, StoreInv, ObjectCount, ToFailed

\* One round of parse_top_level_objects keeps the invariant.
LEMMA ScanKeeps ==
    ASSUME ParserInv, Scan
    PROVE  ParserInv'
<1> USE DEF ParserInv
<1>0. ASSUME NEW kind, At(kind)
      PROVE  /\ source[pos] \in Items /\ pos + 1 \in 1 .. Len(source) + 1
             /\ pos \in 1 .. Len(source)
    BY <1>0 DEF At, ShapeInv
<1>1. ASSUME ScanObject PROVE ParserInv'
    <2>1. source[pos] \in Items /\ pos + 1 \in 1 .. Len(source) + 1
        BY <1>0, <1>1 DEF ScanObject
    <2>2. Current.key \in Keys
        BY <2>1, DescFields DEF Current
    <2>3. StoreInv' /\ DOMAIN objects \subseteq DOMAIN objects'
        BY <1>1, <2>1, <2>2, InsertKeeps DEF ScanObject
    <2>4. FactsInv'
        <3>1. (IF Current.stream = "no" THEN 0 ELSE 2) \in Nat
            OBVIOUS
        <3>2. Repeat("stream", IF Current.stream = "no" THEN 0 ELSE 2) \in Seq(FactKinds)
            BY <3>1, RepeatType DEF FactKinds
        <3> QED
            BY <1>1, <3>2, PushKeeps DEF ScanObject
    <2>5. ShapeInv'
        BY <1>1, <2>1, <2>3 DEF ScanObject, ShapeInv
    <2> QED
        BY <2>3, <2>4, <2>5
<1>2. ASSUME ScanTrailer PROVE ParserInv'
    <2>1. source[pos] \in Items /\ pos + 1 \in 1 .. Len(source) + 1
        BY <1>0, <1>2 DEF ScanTrailer
    <2>2. Current.chain \in 0 .. 2
        BY <2>1, DescFields DEF Current
    <2>3. FactsInv'
        <3>1. (Current.chain + IF Current.kind = "section" THEN 1 ELSE 0) \in Nat
            BY <2>2
        <3>2. Repeat("xref", Current.chain + IF Current.kind = "section" THEN 1 ELSE 0)
                \in Seq(FactKinds)
            BY <3>1, RepeatType DEF FactKinds
        <3> QED
            BY <1>2, <3>2, PushKeeps DEF ScanTrailer
    <2>4. ShapeInv'
        BY <1>2, <2>1 DEF ScanTrailer, ShapeInv
    <2>5. StoreInv'
        BY <1>2 DEF ScanTrailer, StoreInv, ObjectCount
    <2> QED
        BY <2>3, <2>4, <2>5
<1>3. ASSUME ScanSkipped PROVE ParserInv'
    <2>1. pos + 1 \in 1 .. Len(source) + 1
        BY <1>0, <1>3 DEF ScanSkipped
    <2> QED
        BY <1>3, <2>1 DEF ScanSkipped, ShapeInv, FactsInv, StoreInv, ObjectCount
<1>4. ASSUME ScanEof PROVE ParserInv'
    <2>1. pos + 1 \in 1 .. Len(source) + 1
        BY <1>0, <1>4 DEF ScanEof
    <2>2. (IF pos < Len(source) THEN <<"post_eof">> ELSE <<>>) \in Seq(FactKinds)
        <3>1. <<"post_eof">> \in Seq(FactKinds)
            BY DEF FactKinds
        <3>2. <<>> \in Seq(FactKinds)
            OBVIOUS
        <3> QED
            BY <3>1, <3>2
    <2>3. FactsInv'
        BY <1>4, <2>2, PushKeeps DEF ScanEof
    <2>4. ShapeInv'
        BY <1>4, <2>1 DEF ScanEof, ShapeInv
    <2>5. StoreInv'
        BY <1>4 DEF ScanEof, StoreInv, ObjectCount
    <2> QED
        BY <2>3, <2>4, <2>5
<1>5. ASSUME ScanEnd PROVE ParserInv'
    BY <1>5 DEF ScanEnd, ShapeInv, FactsInv, StoreInv, ObjectCount
<1>6. ASSUME ScanObjectOverLimit \/ ScanMalformed PROVE ParserInv'
    BY <1>6, FailKeeps DEF ScanObjectOverLimit, ScanMalformed
<1> QED
    BY <1>1, <1>2, <1>3, <1>4, <1>5, <1>6 DEF Scan

\* Each branch of the encryption gate keeps the invariant.
LEMMA GateKeeps ==
    ASSUME ParserInv, Gate
    PROVE  ParserInv'
<1> USE DEF ParserInv
<1>1. ASSUME OpenStreams, FactsInv' PROVE ParserInv'
    BY <1>1 DEF OpenStreams, TypedKeys, ShapeInv, StoreInv, ObjectCount
<1>2. ASSUME StopEncrypted PROVE ParserInv'
    <2>1. <<"encrypted">> \in Seq(FactKinds)
        BY DEF FactKinds
    <2>2. FactsInv'
        BY <1>2, <2>1, PushKeeps DEF StopEncrypted
    <2> QED
        BY <1>2, <2>2, CatalogRootType DEF StopEncrypted, ShapeInv, StoreInv, ObjectCount
<1>3. ASSUME GateOpen PROVE ParserInv'
    BY <1>1, <1>3 DEF GateOpen, FactsInv
<1>4. ASSUME GateDecrypt PROVE ParserInv'
    <2>1. <<"decrypted">> \in Seq(FactKinds)
        BY DEF FactKinds
    <2> QED
        BY <1>1, <1>4, <2>1, PushKeeps, FailKeeps DEF GateDecrypt
<1> QED
    BY <1>2, <1>3, <1>4, FailKeeps DEF Gate, GateMalformed, GateNoPassword, GateLocked

\* Each step of materialize_stream_backed_structures keeps the invariant.
LEMMA MaterializeKeeps ==
    ASSUME ParserInv, Materialize
    PROVE  ParserInv'
<1> USE DEF ParserInv
<1>1. ASSUME NEW k \in Keys, MaterializeXref(k) PROVE ParserInv'
    <2>1. objects[k] \in Items
        BY <1>1 DEF MaterializeXref, NextStream, ShapeInv, StoreInv
    <2>2. Desc[objects[k]].chain + 1 \in Nat
        BY <2>1, DescFields
    <2>3. <<"stream">> \in Seq(FactKinds)
          /\ Repeat("xref", Desc[objects[k]].chain + 1) \in Seq(FactKinds)
        BY <2>2, RepeatType DEF FactKinds
    <2>4. <<"stream">> \o Repeat("xref", Desc[objects[k]].chain + 1) \in Seq(FactKinds)
        BY <2>3
    <2>5. FactsInv'
        BY <1>1, <2>4, PushKeeps DEF MaterializeXref
    <2>6. ShapeInv'
        BY <1>1, <2>1 DEF MaterializeXref, ShapeInv
    <2> QED
        BY <1>1, <2>5, <2>6 DEF MaterializeXref, StoreInv, ObjectCount
<1>2. ASSUME NEW k \in Keys, MaterializeObjStm(k) PROVE ParserInv'
    <2>1. objects[k] \in Items
        BY <1>2 DEF MaterializeObjStm, NextStream, ShapeInv, StoreInv
    <2>2. Held(objects[k]) \in Seq(Keys \X Items)
        <3>1. Desc[objects[k]].holds \in Seq(Keys)
            BY <2>1, DescFields
        <3>2. DOMAIN Desc[objects[k]].holds = 1 .. Len(Desc[objects[k]].holds)
              /\ Len(Desc[objects[k]].holds) \in Nat
            BY <3>1
        <3>3. Held(objects[k]) \in [1 .. Len(Desc[objects[k]].holds) -> Keys \X Items]
            BY <2>1, <3>1, <3>2 DEF Held
        <3> QED
            BY <3>2, <3>3, SeqDef
    <2>3. <<"stream", "xref">> \in Seq(FactKinds)
        BY DEF FactKinds
    <2>4. FactsInv'
        BY <1>2, <2>3, PushKeeps DEF MaterializeObjStm
    <2>5. ShapeInv'
        BY <1>2, <2>2 DEF MaterializeObjStm, ShapeInv
    <2> QED
        BY <1>2, <2>4, <2>5 DEF MaterializeObjStm, StoreInv, ObjectCount
<1>3. ASSUME MaterializeEnd PROVE ParserInv'
    BY <1>3 DEF MaterializeEnd, ShapeInv, FactsInv, StoreInv, ObjectCount
<1>4. ASSUME expanded # <<>>
      PROVE  /\ Head(expanded)[1] \in Keys /\ Head(expanded)[2] \in Items
             /\ Tail(expanded) \in Seq(Keys \X Items)
    <2>1. Head(expanded) \in Keys \X Items /\ Tail(expanded) \in Seq(Keys \X Items)
        BY <1>4 DEF ShapeInv
    <2> QED
        BY <2>1
<1>5. ASSUME ExpandNew PROVE ParserInv'
    <2>1. StoreInv' /\ DOMAIN objects \subseteq DOMAIN objects'
        BY <1>4, <1>5, InsertKeeps DEF ExpandNew
    <2>2. ShapeInv'
        BY <1>4, <1>5, <2>1 DEF ExpandNew, ShapeInv
    <2> QED
        BY <1>5, <2>1, <2>2 DEF ExpandNew, FactsInv
<1>6. ASSUME ExpandShadowed PROVE ParserInv'
    BY <1>4, <1>6 DEF ExpandShadowed, ShapeInv, FactsInv, StoreInv, ObjectCount
<1>7. ASSUME ExpandOverLimit PROVE ParserInv'
    BY <1>7, FailKeeps DEF ExpandOverLimit
<1> QED
    BY <1>1, <1>2, <1>3, <1>5, <1>6, <1>7, FailKeeps DEF Materialize, MaterializeFails

\* Every step of parse_document keeps the invariant.
LEMMA NextParser == ParserInv /\ [Next]_vars => ParserInv'
<1> SUFFICES ASSUME ParserInv, [Next]_vars PROVE ParserInv'
    OBVIOUS
<1>1. ASSUME ParseHeader PROVE ParserInv'
    <2>1. <<"header">> \in Seq(FactKinds)
        BY DEF FactKinds
    <2>2. CASE push_facts(<<"header">>) /\ pc' = "scan"
               /\ UNCHANGED <<source, password, pos, objects, trailers, streams,
                              expanded, catalog>>
        <3>1. FactsInv'
            BY <2>1, <2>2, PushKeeps DEF ParserInv
        <3> QED
            BY <2>2, <3>1 DEF ParserInv, ShapeInv, StoreInv, ObjectCount
    <2> QED
        BY <1>1, <2>2, FailKeeps DEF ParseHeader
<1>2. ASSUME Finish PROVE ParserInv'
    BY <1>2, CatalogRootType DEF Finish, ParserInv, ShapeInv, FactsInv, StoreInv, ObjectCount
<1>3. CASE UNCHANGED vars
    BY <1>3 DEF vars, ParserInv, ShapeInv, FactsInv, StoreInv, ObjectCount
<1> QED
    BY <1>1, <1>2, <1>3, ScanKeeps, GateKeeps, MaterializeKeeps DEF Next

\* The inductive invariant of parse_document: shape, facts and store.
THEOREM ParserInductive == Spec => []ParserInv
BY InitParser, NextParser, PTL DEF Spec

\* The parser's state keeps its types for every file.
THEOREM TypeCorrect == Spec => []TypeOK
<1>1. ParserInv => TypeOK
    BY DEF ParserInv, ShapeInv, FactsInv, StoreInv, TypeOK
<1> QED
    BY <1>1, ParserInductive, PTL

\* max_objects and max_parse_facts are never exceeded, zero included.
THEOREM LimitsHoldAlways == Spec => []LimitsHold
<1>1. ParserInv => LimitsHold
    BY DEF ParserInv, FactsInv, StoreInv, LimitsHold
<1> QED
    BY <1>1, ParserInductive, PTL

-------------------------------------------------------------------------------
\* Until the gate has decided, the trailers are the classic ones of the part
\* that was read, and the last that declares encryption is the last in the
\* file; every object was defined directly.
AllClassic == \A t \in DOMAIN trailers : Desc[trailers[t]].kind \in {"section", "trailer"}
AllDirect == \A k \in DOMAIN objects : Desc[objects[k]].key = k
LastDeclared ==
    /\ Declaring = {} => \A t \in DOMAIN trailers : trailers[t] \notin Encrypting
    /\ \A i \in Declaring :
          (\A j \in Declaring : j <= i) =>
            \E t \in DOMAIN trailers :
                /\ trailers[t] = source[i]
                /\ \A u \in DOMAIN trailers : u > t => trailers[u] \notin Encrypting

GateInv ==
    /\ pc \in {"header", "scan", "gate"} => AllClassic /\ AllDirect /\ LastDeclared
    /\ pc \in {"streams", "expand"} => ~Locked
    /\ LockedStaysShut
    /\ LockedIsReported

\* Nothing is declared before the first item is read.
LEMMA InitGate == Init => GateInv
<1> SUFFICES ASSUME Init PROVE GateInv
    OBVIOUS
<1>1. DOMAIN trailers = {} /\ DOMAIN objects = {} /\ pc = "header"
    BY DEF Init
<1>2. Passed = {}
    BY DEF Init, Passed
<1>3. Declaring = {}
    BY <1>2 DEF Declaring
<1> QED
    BY <1>1, <1>3 DEF GateInv, AllClassic, AllDirect, LastDeclared, Locked,
        LockedStaysShut, LockedIsReported

\* An item that declares nothing leaves Declaring alone.
LEMMA PassItem ==
    ASSUME ParserInv, pos' = pos + 1, UNCHANGED source
    PROVE  /\ Declaring' = Declaring \cup (IF DeclaresEncrypt(pos) THEN {pos} ELSE {})
           /\ \A i \in Declaring : i < pos
<1>1. pos \in Nat /\ pos >= 1 /\ Len(source) \in Nat
    BY DEF ParserInv, ShapeInv
<1>2. Passed' = Passed \cup {pos} /\ \A i \in Passed : i < pos
    BY <1>1 DEF Passed
<1>3. \A i : DeclaresEncrypt(i)' <=> DeclaresEncrypt(i)
    BY DEF DeclaresEncrypt
<1>4. \A i : i \in Declaring' <=> i \in Passed' /\ DeclaresEncrypt(i)
    BY <1>3 DEF Declaring
<1> QED
    BY <1>2, <1>4 DEF Declaring

\* Nothing that Locked depends on changes.
LEMMA LockedStable ==
    ASSUME UNCHANGED <<source, pos, password>>
    PROVE  Locked' = Locked /\ Declaring' = Declaring
<1>1. Passed' = Passed
    BY DEF Passed
<1>2. Declaring' = Declaring
    BY <1>1 DEF Declaring, DeclaresEncrypt
<1> QED
    BY <1>2 DEF Locked

\* A pass over an item that is no trailer.
LEMMA PassOtherKeeps ==
    ASSUME ParserInv, GateInv, pc = "scan", pc' \in {"scan", "gate"},
           pos' = pos + 1, ~DeclaresEncrypt(pos), AllDirect',
           UNCHANGED <<source, password, trailers>>
    PROVE  GateInv'
<1>1. Declaring' = Declaring
    BY PassItem
<1>2. AllClassic /\ LastDeclared
    BY DEF GateInv
<1>3. AllClassic' /\ LastDeclared'
    BY <1>1, <1>2 DEF AllClassic, LastDeclared, Encrypting
<1>4. LockedStaysShut' /\ LockedIsReported'
    BY <1>3 DEF LockedStaysShut, LockedIsReported, AllDirect, AllClassic
<1> QED
    BY <1>3, <1>4 DEF GateInv

\* Scanning keeps the trailers classic, the objects direct and the last declaration known.
LEMMA ScanGate ==
    ASSUME ParserInv, GateInv, Scan
    PROVE  GateInv'
<1>0. ASSUME NEW kind, At(kind)
      PROVE  /\ pc = "scan" /\ source[pos] \in Items /\ Desc[source[pos]].kind = kind
             /\ kind \notin {"section", "trailer"} => ~DeclaresEncrypt(pos)
    BY <1>0 DEF At, Current, ParserInv, ShapeInv, DeclaresEncrypt
<1>1. ASSUME ScanObject PROVE GateInv'
    <2>1. AllDirect
        BY <1>0, <1>1 DEF ScanObject, GateInv
    <2>2. AllDirect'
        BY <1>1, <2>1 DEF ScanObject, AllDirect, Insert, Current
    <2> QED
        BY <1>0, <1>1, <2>2, PassOtherKeeps DEF ScanObject
<1>2. ASSUME ScanTrailer PROVE GateInv'
    <2>1. /\ pc = "scan" /\ source[pos] \in Items
          /\ Desc[source[pos]].kind \in {"section", "trailer"}
        BY <1>0, <1>2 DEF ScanTrailer
    <2>2. AllClassic /\ AllDirect /\ LastDeclared
        BY <2>1 DEF GateInv
    <2> DEFINE n == Len(trailers)
    <2>3. /\ n \in Nat /\ DOMAIN trailers = 1 .. n /\ DOMAIN trailers' = 1 .. n + 1
          /\ trailers'[n + 1] = source[pos]
          /\ \A t \in 1 .. n : trailers'[t] = trailers[t]
        BY <1>2, <2>1 DEF ScanTrailer, ParserInv, ShapeInv
    <2> HIDE DEF n
    <2>4. AllClassic' /\ AllDirect'
        BY <1>2, <2>1, <2>2, <2>3 DEF ScanTrailer, AllClassic, AllDirect
    <2>5. /\ Declaring' = Declaring \cup (IF DeclaresEncrypt(pos) THEN {pos} ELSE {})
          /\ \A i \in Declaring : i < pos
          /\ pos \in Nat /\ source' = source
        BY <1>2, PassItem DEF ScanTrailer, ParserInv, ShapeInv
    <2>6. DeclaresEncrypt(pos) <=> source[pos] \in Encrypting
        BY <2>1 DEF DeclaresEncrypt, Encrypting
    <2>7. LastDeclared'
        <3>1. CASE DeclaresEncrypt(pos)
            <4>1. pos \in Declaring' /\ \A i \in Declaring' : i <= pos /\ i \in Nat
                BY <2>5, <3>1 DEF Declaring, Passed
            <4>2. ASSUME NEW i \in Declaring', \A j \in Declaring' : j <= i
                  PROVE  i = pos
                BY <2>5, <4>1, <4>2
            <4>3. n + 1 \in DOMAIN trailers' /\ \A u \in DOMAIN trailers' : ~(u > n + 1)
                BY <2>3
            <4> QED
                BY <2>3, <2>5, <4>1, <4>2, <4>3 DEF LastDeclared
        <3>2. CASE ~DeclaresEncrypt(pos)
            <4>1. Declaring' = Declaring /\ trailers'[n + 1] \notin Encrypting
                BY <2>3, <2>5, <2>6, <3>2
            <4>2. ASSUME Declaring = {}, NEW t \in DOMAIN trailers'
                  PROVE  trailers'[t] \notin Encrypting
                BY <2>2, <2>3, <4>1, <4>2 DEF LastDeclared
            <4>3. ASSUME NEW i \in Declaring, \A j \in Declaring : j <= i
                  PROVE  \E t \in DOMAIN trailers' :
                            /\ trailers'[t] = source[i]
                            /\ \A u \in DOMAIN trailers' :
                                  u > t => trailers'[u] \notin Encrypting
                <5>1. PICK t \in DOMAIN trailers :
                            /\ trailers[t] = source[i]
                            /\ \A u \in DOMAIN trailers : u > t => trailers[u] \notin Encrypting
                    BY <2>2, <4>3 DEF LastDeclared
                <5>2. t \in DOMAIN trailers' /\ trailers'[t] = source[i]
                    BY <2>3, <5>1
                <5>3. \A u \in DOMAIN trailers' : u > t => trailers'[u] \notin Encrypting
                    BY <2>3, <4>1, <5>1
                <5> QED
                    BY <5>2, <5>3
            <4>4. Encrypting' = Encrypting
                BY DEF Encrypting
            <4> QED
                BY <2>5, <4>1, <4>2, <4>3, <4>4 DEF LastDeclared
        <3> QED
            BY <3>1, <3>2
    <2>8. pc' = "scan"
        BY <1>2, <2>1 DEF ScanTrailer
    <2> QED
        BY <2>4, <2>7, <2>8 DEF GateInv, LockedStaysShut, LockedIsReported, AllDirect, AllClassic
<1>3. ASSUME ScanSkipped PROVE GateInv'
    <2>1. AllDirect /\ objects' = objects
        BY <1>0, <1>3 DEF ScanSkipped, GateInv
    <2>2. AllDirect'
        BY <2>1 DEF AllDirect
    <2> QED
        BY <1>0, <1>3, <2>2, PassOtherKeeps DEF ScanSkipped
<1>4. ASSUME ScanEof PROVE GateInv'
    <2>1. AllDirect /\ objects' = objects
        BY <1>0, <1>4 DEF ScanEof, GateInv
    <2>2. AllDirect'
        BY <2>1 DEF AllDirect
    <2> QED
        BY <1>0, <1>4, <2>2, PassOtherKeeps DEF ScanEof
<1>5. ASSUME ScanEnd PROVE GateInv'
    <2>1. Declaring' = Declaring
        BY <1>5, LockedStable DEF ScanEnd
    <2> QED
        BY <1>5, <2>1 DEF ScanEnd, GateInv, AllClassic, AllDirect, LastDeclared, Encrypting,
            LockedStaysShut, LockedIsReported
<1>6. ASSUME ToFailed PROVE GateInv'
    <2>1. Locked' = Locked
        BY <1>6, LockedStable DEF ToFailed
    <2> QED
        BY <1>6, <2>1 DEF ToFailed, GateInv, LockedStaysShut, LockedIsReported
<1> QED
    BY <1>1, <1>2, <1>3, <1>4, <1>5, <1>6 DEF Scan, ScanObjectOverLimit, ScanMalformed

\* The /Encrypt entry the gate looks at is that of the last passed trailer that
\* declares one.
LEMMA LastEncrypting ==
    ASSUME ParserInv, LastDeclared, NEW i \in Declaring, \A j \in Declaring : j <= i
    PROVE  encryption_reference = Desc[source[i]].encrypt
<1>2. PICK t \in DOMAIN trailers :
            /\ trailers[t] = source[i]
            /\ \A u \in DOMAIN trailers : u > t => trailers[u] \notin Encrypting
    BY DEF LastDeclared
<1>3. trailers[t] \in Items /\ trailers[t] \in Encrypting
    BY <1>2 DEF ParserInv, ShapeInv, Declaring, DeclaresEncrypt, Encrypting
<1> DEFINE at == {u \in DOMAIN trailers : trailers[u] \in Encrypting}
           top == CHOOSE u \in at : \A j \in at : j <= u
<1>4. t \in at /\ at \subseteq Nat
    BY <1>2, <1>3 DEF ParserInv, ShapeInv
<1>5. \A u \in at : u <= t
    BY <1>2, <1>4 DEF ParserInv, ShapeInv
<1>6. top \in at /\ \A j \in at : j <= top
    <2> HIDE DEF at
    <2> QED BY <1>4, <1>5
<1>7. top = t
    <2> HIDE DEF at, top
    <2> QED BY <1>4, <1>5, <1>6
<1>8. LastIn(Encrypting) = trailers[t]
    BY <1>4, <1>7 DEF LastIn
<1>9. trailers[t] # None
    BY <1>3, ParserAssumption
<1> QED
    BY <1>2, <1>8, <1>9 DEF encryption_reference

\* The gate sees the /Encrypt entry that locks the document.
LEMMA GateSees ==
    ASSUME ParserInv, GateInv, pc = "gate", Locked
    PROVE  /\ encryption_reference # "no"
           /\ ~(encryption_reference = "supported" /\ password = "right")
<1>1. PICK i \in Declaring :
            /\ \A j \in Declaring : j <= i
            /\ ~(password = "right" /\ Desc[source[i]].encrypt = "supported")
    BY DEF Locked
<1>2. encryption_reference = Desc[source[i]].encrypt
    BY <1>1, LastEncrypting DEF GateInv
<1> QED
    BY <1>1, <1>2 DEF Declaring, DeclaresEncrypt

\* An xref stream is an object, so a classic trailer list has none.
LEMMA GateGate ==
    ASSUME ParserInv, GateInv, Gate
    PROVE  GateInv'
<1>0. pc = "gate" /\ AllClassic /\ AllDirect
    BY DEF Gate, GateOpen, GateMalformed, GateNoPassword, GateLocked, GateDecrypt, GateInv
<1>1. ASSUME StopEncrypted PROVE GateInv'
    <2>1. LockedStaysShut'
        BY <1>0, <1>1 DEF StopEncrypted, LockedStaysShut, AllClassic, AllDirect
    <2>2. ASSUME ~capWarned' PROVE is_encrypted'
        BY <1>1, <2>2, PushedIsThere DEF StopEncrypted, ParserInv, FactKinds, is_encrypted
    <2>3. LockedIsReported'
        BY <2>2 DEF LockedIsReported
    <2> QED
        BY <1>1, <2>1, <2>3 DEF StopEncrypted, GateInv
<1>2. ASSUME ~Locked, OpenStreams PROVE GateInv'
    <2>1. ~Locked'
        BY <1>2, LockedStable DEF OpenStreams
    <2> QED
        BY <1>2, <2>1 DEF OpenStreams, GateInv, LockedStaysShut, LockedIsReported
<1>3. ASSUME ToFailed PROVE GateInv'
    <2>1. Locked' = Locked
        BY <1>3, LockedStable DEF ToFailed
    <2> QED
        BY <1>3, <2>1 DEF ToFailed, GateInv, LockedStaysShut, LockedIsReported
<1>4. ASSUME GateOpen PROVE GateInv'
    BY <1>0, <1>2, <1>4, GateSees DEF GateOpen
<1>5. ASSUME GateDecrypt PROVE GateInv'
    BY <1>0, <1>2, <1>3, <1>5, GateSees DEF GateDecrypt
<1> QED
    BY <1>1, <1>3, <1>4, <1>5 DEF Gate, GateMalformed, GateNoPassword, GateLocked

\* After the gate nothing is locked any more.
LEMMA OpenedKeeps ==
    ASSUME GateInv, pc \in {"streams", "expand"},
           pc' \in {"streams", "expand", "done", "failed"},
           UNCHANGED <<source, pos, password>>
    PROVE  GateInv'
<1>1. ~Locked'
    BY LockedStable DEF GateInv
<1> QED
    BY <1>1 DEF GateInv, LockedStaysShut, LockedIsReported

\* Every step keeps the gate invariant.
LEMMA NextGate == ParserInv /\ GateInv /\ [Next]_vars => GateInv'
<1> SUFFICES ASSUME ParserInv, GateInv, [Next]_vars PROVE GateInv'
    OBVIOUS
<1>1. ASSUME ParseHeader PROVE GateInv'
    <2>1. Locked' = Locked /\ Declaring' = Declaring
        BY <1>1, LockedStable DEF ParseHeader, ToFailed
    <2> QED
        BY <1>1, <2>1 DEF ParseHeader, ToFailed, GateInv, AllClassic, AllDirect, LastDeclared,
            Encrypting, LockedStaysShut, LockedIsReported
<1>2. ASSUME Materialize \/ Finish PROVE GateInv'
    <2>1. /\ pc \in {"streams", "expand"}
          /\ pc' \in {"streams", "expand", "done", "failed"}
          /\ UNCHANGED <<source, pos, password>>
        BY <1>2 DEF Materialize, MaterializeXref, MaterializeObjStm, MaterializeFails,
            NextStream, MaterializeEnd, ExpandNew, ExpandShadowed, ExpandOverLimit,
            Finish, ToFailed
    <2> QED
        BY <2>1, OpenedKeeps
<1>3. CASE UNCHANGED vars
    <2>1. Locked' = Locked /\ Declaring' = Declaring
        BY <1>3, LockedStable DEF vars
    <2> QED
        BY <1>3, <2>1 DEF vars, GateInv, AllClassic, AllDirect, LastDeclared, Encrypting,
            LockedStaysShut, LockedIsReported, is_encrypted
<1> QED
    BY <1>1, <1>2, <1>3, ScanGate, GateGate DEF Next

\* The inductive invariant behind the encryption gate.
THEOREM GateInductive == Spec => []GateInv
<1>1. Init => ParserInv /\ GateInv
    BY InitParser, InitGate
<1>2. ParserInv /\ GateInv /\ [Next]_vars => (ParserInv /\ GateInv)'
    BY NextParser, NextGate
<1> QED
    BY <1>1, <1>2, PTL DEF Spec

\* Nothing of a locked document is decoded, at any step of any parse.
THEOREM LockedStaysShutAlways == Spec => []LockedStaysShut
<1>1. GateInv => LockedStaysShut
    BY DEF GateInv
<1> QED
    BY <1>1, GateInductive, PTL

\* A locked document is reported as encrypted unless facts were dropped.
THEOREM LockedIsReportedAlways == Spec => []LockedIsReported
<1>1. GateInv => LockedIsReported
    BY DEF GateInv
<1> QED
    BY <1>1, GateInductive, PTL

-------------------------------------------------------------------------------
\* The passed trailers with a /Root, and the trailer list against them: unless an
\* xref stream supplied one, the last rooted trailer is the last in the file.
Roots == {i \in Passed : /\ Desc[source[i]].kind \in {"section", "trailer"}
                         /\ Desc[source[i]].root # None}
NoStreamTrailers == \A t \in DOMAIN trailers : Desc[trailers[t]].kind # "object"
LastRooted ==
    /\ Roots = {} => \A t \in DOMAIN trailers : trailers[t] \notin Rooted
    /\ \A i \in Roots :
          (\A j \in Roots : j <= i) =>
            \E t \in DOMAIN trailers :
                /\ trailers[t] = source[i]
                /\ \A u \in DOMAIN trailers : u > t => trailers[u] \notin Rooted

LastRoot == source[CHOOSE i \in Roots : \A j \in Roots : j <= i]
CatalogFits == IF Roots = {} THEN catalog = None ELSE catalog = Desc[LastRoot].root

\* What materialization looks into are the objects of the scan.
ObjectsOnly == \A k \in DOMAIN objects : Desc[objects[k]].kind = "object"

CatalogInv ==
    /\ NoStreamTrailers => LastRooted
    /\ pc \in {"header", "scan", "gate", "streams"} => ObjectsOnly
    /\ pc = "done" /\ NoStreamTrailers => CatalogFits

\* Nothing is read yet.
LEMMA InitCatalog == Init => CatalogInv
<1> SUFFICES ASSUME Init PROVE CatalogInv
    OBVIOUS
<1>1. DOMAIN trailers = {} /\ DOMAIN objects = {} /\ pc = "header" /\ Passed = {}
    BY DEF Init, Passed
<1>2. Roots = {}
    BY <1>1 DEF Roots
<1> QED
    BY <1>1, <1>2 DEF CatalogInv, LastRooted, ObjectsOnly

\* What the passed trailers say depends on the position alone.
LEMMA RootsStable ==
    ASSUME UNCHANGED <<source, pos>>
    PROVE  Roots' = Roots /\ LastRoot' = LastRoot
<1>1. Passed' = Passed
    BY DEF Passed
<1>2. Roots' = Roots
    BY <1>1 DEF Roots
<1> QED
    BY <1>2 DEF LastRoot

\* catalog_root is the /Root of the last passed trailer that has one.
LEMMA CatalogRootFits ==
    ASSUME ParserInv, LastRooted
    PROVE  IF Roots = {} THEN catalog_root = None ELSE catalog_root = Desc[LastRoot].root
<1>1. CASE Roots = {}
    <2>1. LastIn(Rooted) = None
        BY <1>1 DEF LastRooted, LastIn
    <2> QED
        BY <1>1, <2>1 DEF catalog_root
<1>2. CASE Roots # {}
    <2> DEFINE last == CHOOSE i \in Roots : \A j \in Roots : j <= i
    <2>1. Roots \subseteq 1 .. Len(source) /\ Len(source) \in Nat
        BY DEF Roots, Passed, ParserInv, ShapeInv
    <2>2. \E i \in Roots : \A j \in Roots : j <= i
        BY <1>2, <2>1, LastPosition
    <2>3. last \in Roots /\ \A j \in Roots : j <= last
        BY <2>2
    <2>4. LastRoot = source[last]
        BY DEF LastRoot
    <2> HIDE DEF last
    <2>5. PICK t \in DOMAIN trailers :
                /\ trailers[t] = source[last]
                /\ \A u \in DOMAIN trailers : u > t => trailers[u] \notin Rooted
        BY <2>3 DEF LastRooted
    <2>6. trailers[t] \in Items /\ trailers[t] \in Rooted
        BY <2>3, <2>5 DEF ParserInv, ShapeInv, Roots, Rooted
    <2> DEFINE at == {u \in DOMAIN trailers : trailers[u] \in Rooted}
               top == CHOOSE u \in at : \A j \in at : j <= u
    <2>7. t \in at /\ at \subseteq Nat /\ \A u \in at : u <= t
        BY <2>5, <2>6 DEF ParserInv, ShapeInv
    <2>8. top \in at /\ \A j \in at : j <= top
        <3> HIDE DEF at
        <3> QED BY <2>7
    <2>9. top = t
        <3> HIDE DEF at, top
        <3> QED BY <2>7, <2>8
    <2>10. LastIn(Rooted) = trailers[t]
        BY <2>7, <2>9 DEF LastIn
    <2>11. trailers[t] # None
        BY <2>6, ParserAssumption
    <2> QED
        BY <1>2, <2>4, <2>5, <2>10, <2>11 DEF catalog_root
<1> QED
    BY <1>1, <1>2

\* A pass over one item adds it to the rooted trailers if it is one.
LEMMA PassRoot ==
    ASSUME ParserInv, pos' = pos + 1, UNCHANGED source
    PROVE  /\ \A i : i \in Roots' <=>
                    \/ i \in Roots
                    \/ /\ i = pos /\ Desc[source[i]].kind \in {"section", "trailer"}
                       /\ Desc[source[i]].root # None
           /\ \A i \in Roots : i < pos
<1>1. pos \in Nat /\ pos >= 1 /\ Len(source) \in Nat
    BY DEF ParserInv, ShapeInv
<1>2. Passed' = Passed \cup {pos} /\ \A i \in Passed : i < pos
    BY <1>1 DEF Passed
<1> QED
    BY <1>2 DEF Roots

\* A step of the scan over an item that is no trailer.
LEMMA PassOtherCatalog ==
    ASSUME ParserInv, CatalogInv, pc' \in {"scan", "gate"}, ObjectsOnly',
           pos' = pos + 1, Desc[source[pos]].kind \notin {"section", "trailer"},
           UNCHANGED <<source, trailers>>
    PROVE  CatalogInv'
<1>1. Roots' = Roots
    BY PassRoot
<1>2. NoStreamTrailers' => LastRooted'
    BY <1>1 DEF CatalogInv, NoStreamTrailers, LastRooted, Rooted
<1> QED
    BY <1>2 DEF CatalogInv

\* A step that neither reads an item nor adds a trailer nor returns.
LEMMA QuietCatalog ==
    ASSUME CatalogInv, pc' # "done", UNCHANGED <<source, pos, trailers>>,
           pc' \in {"header", "scan", "gate", "streams"} => ObjectsOnly'
    PROVE  CatalogInv'
<1>1. Roots' = Roots
    BY RootsStable
<1> QED
    BY <1>1 DEF CatalogInv, NoStreamTrailers, LastRooted, Rooted

\* A step that returns the document with the catalog of its trailers.
LEMMA ReturnCatalog ==
    ASSUME ParserInv, CatalogInv, pc' = "done", catalog' = catalog_root,
           UNCHANGED <<source, pos, trailers>>
    PROVE  CatalogInv'
<1>1. Roots' = Roots /\ LastRoot' = LastRoot
    BY RootsStable
<1>2. NoStreamTrailers' => LastRooted'
    BY <1>1 DEF CatalogInv, NoStreamTrailers, LastRooted, Rooted
<1>3. NoStreamTrailers' => LastRooted
    BY DEF CatalogInv, NoStreamTrailers
<1>4. NoStreamTrailers' => CatalogFits'
    BY <1>1, <1>3, CatalogRootFits DEF CatalogFits
<1> QED
    BY <1>2, <1>4 DEF CatalogInv

\* The scan appends each trailer it passes.
LEMMA ScanCatalog ==
    ASSUME ParserInv, CatalogInv, Scan
    PROVE  CatalogInv'
<1>0. ASSUME NEW kind, At(kind)
      PROVE  pc = "scan" /\ source[pos] \in Items /\ Desc[source[pos]].kind = kind
    BY <1>0 DEF At, Current, ParserInv, ShapeInv
<1>1. ASSUME ScanObject PROVE CatalogInv'
    <2>1. ObjectsOnly /\ Desc[source[pos]].kind = "object"
        BY <1>0, <1>1 DEF ScanObject, CatalogInv
    <2>2. ObjectsOnly'
        BY <1>1, <2>1 DEF ScanObject, ObjectsOnly, Insert
    <2> QED
        BY <1>0, <1>1, <2>2, PassOtherCatalog DEF ScanObject
<1>2. ASSUME ScanTrailer PROVE CatalogInv'
    <2>1. /\ pc = "scan" /\ source[pos] \in Items
          /\ Desc[source[pos]].kind \in {"section", "trailer"}
        BY <1>0, <1>2 DEF ScanTrailer
    <2> DEFINE n == Len(trailers)
    <2>2. /\ n \in Nat /\ DOMAIN trailers = 1 .. n /\ DOMAIN trailers' = 1 .. n + 1
          /\ trailers'[n + 1] = source[pos]
          /\ \A t \in 1 .. n : trailers'[t] = trailers[t]
        BY <1>2, <2>1 DEF ScanTrailer, ParserInv, ShapeInv
    <2> HIDE DEF n
    <2>3. /\ \A i : i \in Roots' <=> i \in Roots \/ (i = pos /\ source[pos] \in Rooted)
          /\ \A i \in Roots : i < pos /\ i \in Nat
          /\ pos \in Nat /\ source' = source /\ Rooted' = Rooted
        BY <1>2, <2>1, PassRoot DEF ScanTrailer, ParserInv, ShapeInv, Rooted, Roots, Passed
    <2>4. ASSUME NoStreamTrailers' PROVE LastRooted'
        <3>1. NoStreamTrailers
            BY <2>2, <2>4 DEF NoStreamTrailers
        <3>2. LastRooted
            BY <3>1 DEF CatalogInv
        <3>3. CASE source[pos] \in Rooted
            <4>1. pos \in Roots'
                BY <2>3, <3>3
            <4>2. ASSUME NEW i \in Roots', \A j \in Roots' : j <= i PROVE i = pos
                BY <2>3, <4>1, <4>2
            <4>3. n + 1 \in DOMAIN trailers' /\ \A u \in DOMAIN trailers' : ~(u > n + 1)
                BY <2>2
            <4> QED
                BY <2>2, <2>3, <4>1, <4>2, <4>3 DEF LastRooted
        <3>4. CASE source[pos] \notin Rooted
            <4>1. Roots' = Roots /\ trailers'[n + 1] \notin Rooted
                BY <2>2, <2>3, <3>4
            <4>2. ASSUME Roots = {}, NEW t \in DOMAIN trailers'
                  PROVE  trailers'[t] \notin Rooted
                BY <2>2, <3>2, <4>1, <4>2 DEF LastRooted
            <4>3. ASSUME NEW i \in Roots, \A j \in Roots : j <= i
                  PROVE  \E t \in DOMAIN trailers' :
                            /\ trailers'[t] = source[i]
                            /\ \A u \in DOMAIN trailers' : u > t => trailers'[u] \notin Rooted
                <5>1. PICK t \in DOMAIN trailers :
                            /\ trailers[t] = source[i]
                            /\ \A u \in DOMAIN trailers : u > t => trailers[u] \notin Rooted
                    BY <3>2, <4>3 DEF LastRooted
                <5>2. t \in DOMAIN trailers' /\ trailers'[t] = source[i]
                    BY <2>2, <5>1
                <5>3. \A u \in DOMAIN trailers' : u > t => trailers'[u] \notin Rooted
                    BY <2>2, <4>1, <5>1
                <5> QED
                    BY <5>2, <5>3
            <4> QED
                BY <2>3, <4>1, <4>2, <4>3 DEF LastRooted
        <3> QED
            BY <3>3, <3>4
    <2>5. ObjectsOnly' /\ pc' = "scan"
        BY <1>2, <2>1 DEF ScanTrailer, CatalogInv, ObjectsOnly
    <2> QED
        BY <2>4, <2>5 DEF CatalogInv
<1>3. ASSUME ScanSkipped \/ ScanEof PROVE CatalogInv'
    <2>1. pc = "scan" /\ ObjectsOnly /\ Desc[source[pos]].kind \in {"skipped", "eof"}
        BY <1>0, <1>3 DEF ScanSkipped, ScanEof, CatalogInv
    <2>2. ObjectsOnly'
        BY <1>3, <2>1 DEF ScanSkipped, ScanEof, ObjectsOnly
    <2> QED
        BY <1>3, <2>1, <2>2, PassOtherCatalog DEF ScanSkipped, ScanEof
<1>4. ASSUME ScanEnd PROVE CatalogInv'
    BY <1>4, QuietCatalog DEF ScanEnd, CatalogInv, ObjectsOnly
<1>5. ASSUME ToFailed PROVE CatalogInv'
    BY <1>5, QuietCatalog DEF ToFailed
<1> QED
    BY <1>1, <1>2, <1>3, <1>4, <1>5 DEF Scan, ScanObjectOverLimit, ScanMalformed

\* The gate adds no trailer; when it stops, the catalog is that of the classic ones.
LEMMA GateCatalog ==
    ASSUME ParserInv, CatalogInv, Gate
    PROVE  CatalogInv'
<1>0. pc = "gate" /\ ObjectsOnly
    BY DEF Gate, GateOpen, GateMalformed, GateNoPassword, GateLocked, GateDecrypt, CatalogInv
<1>1. ASSUME OpenStreams \/ ToFailed PROVE CatalogInv'
    <2>1. ObjectsOnly'
        BY <1>0, <1>1 DEF OpenStreams, ToFailed, ObjectsOnly
    <2> QED
        BY <1>1, <2>1, QuietCatalog DEF OpenStreams, ToFailed
<1>2. ASSUME StopEncrypted PROVE CatalogInv'
    BY <1>2, ReturnCatalog DEF StopEncrypted
<1> QED
    BY <1>1, <1>2 DEF Gate, GateOpen, GateMalformed, GateNoPassword, GateLocked, GateDecrypt

\* An xref stream is an object, so it ends the claim; nothing else adds a trailer.
LEMMA MaterializeCatalog ==
    ASSUME ParserInv, CatalogInv, Materialize
    PROVE  CatalogInv'
<1>1. ASSUME NEW k \in Keys, MaterializeXref(k) PROVE CatalogInv'
    <2>1. pc = "streams" /\ pc' = "streams" /\ k \in DOMAIN objects /\ ObjectsOnly
        BY <1>1 DEF MaterializeXref, NextStream, ParserInv, ShapeInv, CatalogInv
    <2>2. Desc[objects[k]].kind = "object" /\ objects[k] \in Items
        BY <2>1 DEF ObjectsOnly, ParserInv, StoreInv
    <2>3. Len(trailers) + 1 \in DOMAIN trailers'
          /\ trailers'[Len(trailers) + 1] = objects[k]
        BY <1>1, <2>2 DEF MaterializeXref, ParserInv, ShapeInv
    <2>4. ~NoStreamTrailers'
        BY <2>2, <2>3 DEF NoStreamTrailers
    <2>5. ObjectsOnly'
        BY <1>1, <2>1 DEF MaterializeXref, ObjectsOnly
    <2> QED
        BY <2>4, <2>5 DEF CatalogInv
<1>2. ASSUME NEW k \in Keys, MaterializeObjStm(k) PROVE CatalogInv'
    <2>1. ObjectsOnly' /\ pc' = "streams"
        BY <1>2 DEF MaterializeObjStm, NextStream, CatalogInv, ObjectsOnly
    <2> QED
        BY <1>2, <2>1, QuietCatalog DEF MaterializeObjStm
<1>3. ASSUME MaterializeEnd \/ ExpandNew \/ ExpandShadowed PROVE CatalogInv'
    BY <1>3, QuietCatalog DEF MaterializeEnd, ExpandNew, ExpandShadowed
<1>4. ASSUME ToFailed PROVE CatalogInv'
    BY <1>4, QuietCatalog DEF ToFailed
<1> QED
    BY <1>1, <1>2, <1>3, <1>4 DEF Materialize, MaterializeFails, ExpandOverLimit

\* Every step keeps the catalog invariant.
LEMMA NextCatalog == ParserInv /\ CatalogInv /\ [Next]_vars => CatalogInv'
<1> SUFFICES ASSUME ParserInv, CatalogInv, [Next]_vars PROVE CatalogInv'
    OBVIOUS
<1>1. ASSUME ParseHeader PROVE CatalogInv'
    <2>1. ObjectsOnly'
        BY <1>1 DEF ParseHeader, ToFailed, CatalogInv, ObjectsOnly
    <2> QED
        BY <1>1, <2>1, QuietCatalog DEF ParseHeader, ToFailed
<1>2. ASSUME Finish PROVE CatalogInv'
    BY <1>2, ReturnCatalog DEF Finish
<1>3. CASE UNCHANGED vars
    <2>1. Roots' = Roots /\ LastRoot' = LastRoot
        BY <1>3, RootsStable DEF vars
    <2> QED
        BY <1>3, <2>1 DEF vars, CatalogInv, NoStreamTrailers, LastRooted, Rooted,
            ObjectsOnly, CatalogFits
<1> QED
    BY <1>1, <1>2, <1>3, ScanCatalog, GateCatalog, MaterializeCatalog DEF Next

\* The catalog is the /Root of the last trailer read that has one, however many
\* revisions and objects lie between the trailers, unless xref streams add some.
THEOREM CatalogFromLastTrailerAlways == Spec => []CatalogFromLastTrailer
<1>1. Init => ParserInv /\ CatalogInv
    BY InitParser, InitCatalog
<1>2. ParserInv /\ CatalogInv /\ [Next]_vars => (ParserInv /\ CatalogInv)'
    BY NextParser, NextCatalog
<1>3. CatalogInv => CatalogFromLastTrailer
    BY DEF CatalogInv, CatalogFits, CatalogFromLastTrailer, NoStreamTrailers, Roots, LastRoot
<1> QED
    BY <1>1, <1>2, <1>3, PTL DEF Spec

-------------------------------------------------------------------------------
\* The keys the pass defined, and what the store holds after it.
DirectKeys == {k \in Keys : Defining(k) # {}}
Scanned == DOMAIN objects = DirectKeys /\ \A k \in DirectKeys : objects[k] = Direct(k)

\* The work list: every entry comes from a container of its key, the containers
\* in key order and before the streams still to read, and no entry is missing.
FromContainers ==
    \A i \in DOMAIN expanded :
        \E c \in Containers(expanded[i][1]) : expanded[i][2] = Direct(c)
InKeyOrder ==
    \A i, j \in DOMAIN expanded :
        i <= j => Desc[expanded[i][2]].key <= Desc[expanded[j][2]].key
BehindStreams ==
    \A i \in DOMAIN expanded : \A k \in streams : Desc[expanded[i][2]].key < k
Listed(k, c) == \E i \in DOMAIN expanded : expanded[i] = <<k, Direct(c)>>
Collected == \A k \in Keys : \A c \in Containers(k) \ streams : Listed(k, c)

\* While the work list is stored, each key there has its meaning, and the list
\* still holds every container's entry for the keys that are not.
Expanding ==
    /\ DirectKeys \subseteq DOMAIN objects
    /\ \A k \in DOMAIN objects :
          objects[k] = Meaning(k) /\ (k \in DirectKeys \/ Containers(k) # {})
    /\ \A k \in Keys \ DOMAIN objects : \A c \in Containers(k) : Listed(k, c)

StoreFits ==
    /\ pc \in {"header", "scan", "gate", "streams"} => Scanned
    /\ pc \in {"header", "scan", "gate"} => expanded = <<>>
    /\ pc = "streams" => FromContainers /\ InKeyOrder /\ BehindStreams /\ Collected
    /\ pc = "expand" => FromContainers /\ InKeyOrder /\ Expanding
    /\ StoreMatchesFile

\* The last definition of a key is the one of that key with no later one.
LEMMA DirectIsLast ==
    ASSUME ParserInv, NEW k, NEW i \in Defining(k), \A j \in Defining(k) : j <= i
    PROVE  Direct(k) = source[i]
<1> DEFINE top == CHOOSE j \in Defining(k) : \A h \in Defining(k) : h <= j
<1>1. Defining(k) \subseteq Nat
    BY DEF Defining, Passed, ParserInv, ShapeInv
<1>2. top \in Defining(k) /\ \A h \in Defining(k) : h <= top
    <2> HIDE DEF top
    <2>1. \E j \in Defining(k) : \A h \in Defining(k) : h <= j
        OBVIOUS
    <2> QED BY <2>1 DEF top
<1>3. top = i
    <2> HIDE DEF top
    <2> QED BY <1>1, <1>2
<1> QED
    BY <1>3 DEF Direct

\* What a defined key means is an object of the file with that key.
LEMMA DirectFacts ==
    ASSUME ParserInv, NEW k, Defining(k) # {}
    PROVE  /\ Direct(k) \in Items /\ Desc[Direct(k)].key = k /\ k \in Keys
           /\ Desc[Direct(k)].holds \in Seq(Keys)
<1>1. Defining(k) \subseteq 1 .. Len(source) /\ Len(source) \in Nat
    BY DEF Defining, Passed, ParserInv, ShapeInv
<1>2. PICK i \in Defining(k) : \A j \in Defining(k) : j <= i
    BY <1>1, LastPosition
<1>3. Direct(k) = source[i]
    BY <1>2, DirectIsLast
<1>4. source[i] \in Items /\ Desc[source[i]].key = k
    BY <1>1 DEF ParserInv, ShapeInv, Defining
<1> QED
    BY <1>3, <1>4, DescFields

\* What the file says depends on the part that was read alone.
LEMMA FileStable ==
    ASSUME UNCHANGED <<source, pos>>
    PROVE  /\ \A k : Defining(k)' = Defining(k) /\ Direct(k)' = Direct(k)
           /\ \A k : Containers(k)' = Containers(k) /\ Meaning(k)' = Meaning(k)
           /\ DirectKeys' = DirectKeys
<1>1. Passed' = Passed
    BY DEF Passed
<1>2. \A k : Defining(k)' = Defining(k)
    BY <1>1 DEF Defining
<1>3. \A k : Direct(k)' = Direct(k)
    BY <1>2 DEF Direct
<1>4. \A k : Containers(k)' = Containers(k)
    BY <1>2, <1>3 DEF Containers
<1>5. ASSUME NEW k PROVE Meaning(k)' = Meaning(k)
    <2> DEFINE first == CHOOSE c \in Containers(k) : \A d \in Containers(k) : c <= d
    <2>1. first' = first
        BY <1>4
    <2>2. Direct(first)' = Direct(first)
        BY <1>3, <2>1
    <2> QED
        BY <1>2, <1>3, <2>2 DEF Meaning
<1>6. DirectKeys' = DirectKeys
    BY <1>2 DEF DirectKeys
<1> QED
    BY <1>2, <1>3, <1>4, <1>5, <1>6

\* A pass over one item defines its key anew if it is an object.
LEMMA PassDefines ==
    ASSUME ParserInv, pos \in 1 .. Len(source), pos' = pos + 1, UNCHANGED source
    PROVE  \A k : /\ Defining(k)' = Defining(k) \cup
                        (IF Desc[source[pos]].kind = "object" /\ Desc[source[pos]].key = k
                         THEN {pos} ELSE {})
                  /\ \A i \in Defining(k) : i < pos
<1>1. pos \in Nat /\ pos >= 1 /\ Len(source) \in Nat
    BY DEF ParserInv, ShapeInv
<1>2. Passed' = Passed \cup {pos} /\ \A i \in Passed : i < pos
    BY <1>1 DEF Passed
<1>3. ASSUME NEW k
      PROVE  \A i : i \in Defining(k)' <=>
                        \/ i \in Defining(k)
                        \/ i = pos /\ Desc[source[pos]].kind = "object"
                             /\ Desc[source[pos]].key = k
    BY <1>2 DEF Defining
<1>4. \A k : \A i \in Defining(k) : i < pos
    BY <1>2 DEF Defining
<1> QED
    BY <1>3, <1>4

\* Nothing is defined and nothing stored at the start.
LEMMA InitStore == Init => StoreFits
<1> SUFFICES ASSUME Init PROVE StoreFits
    OBVIOUS
<1>1. DOMAIN objects = {} /\ pc = "header" /\ expanded = <<>> /\ Passed = {}
    BY DEF Init, Passed
<1>2. DirectKeys = {}
    BY <1>1 DEF DirectKeys, Defining
<1> QED
    BY <1>1, <1>2 DEF StoreFits, Scanned, StoreMatchesFile

\* A step over an item that is no object.
LEMMA PassOtherStore ==
    ASSUME ParserInv, StoreFits, pc = "scan", pc' \in {"scan", "gate"},
           pos \in 1 .. Len(source), pos' = pos + 1,
           Desc[source[pos]].kind # "object", UNCHANGED <<source, objects, expanded>>
    PROVE  StoreFits'
<1>1. \A k : Defining(k)' = Defining(k)
    BY PassDefines
<1>2. \A k : Direct(k)' = Direct(k)
    BY <1>1 DEF Direct
<1>3. DirectKeys' = DirectKeys
    BY <1>1 DEF DirectKeys
<1> QED
    BY <1>2, <1>3 DEF StoreFits, Scanned, StoreMatchesFile

\* ObjectStore::insert makes the object just read the meaning of its key.
LEMMA ScanObjectStore ==
    ASSUME ParserInv, StoreFits, ScanObject
    PROVE  StoreFits'
<1>1. /\ pc = "scan" /\ pos \in 1 .. Len(source) /\ source[pos] \in Items
      /\ Desc[source[pos]].kind = "object"
    BY DEF ScanObject, At, Current, ParserInv, ShapeInv
<1>2. PICK key \in Keys : key = Desc[source[pos]].key
    BY <1>1, DescFields
<1>3. pos' = pos + 1 /\ source' = source /\ pc' = "scan" /\ expanded' = expanded
    BY <1>1 DEF ScanObject
<1>4. \A k : /\ Defining(k)' = Defining(k) \cup (IF key = k THEN {pos} ELSE {})
             /\ \A i \in Defining(k) : i < pos
    BY <1>1, <1>2, <1>3, PassDefines
<1>5. /\ DOMAIN objects' = DOMAIN objects \cup {key}
      /\ \A k \in DOMAIN objects' : objects'[k] = IF k = key THEN source[pos] ELSE objects[k]
    BY <1>2 DEF ScanObject, Insert, Current
<1>6. DirectKeys' = DirectKeys \cup {key}
    BY <1>2, <1>4 DEF DirectKeys
<1>7. Direct(key)' = source[pos]
    <2>1. pos \in Defining(key)' /\ \A j \in Defining(key)' : j <= pos
        <3>1. pos \in Nat /\ \A i \in Defining(key) : i \in Nat
            BY DEF ParserInv, ShapeInv, Defining, Passed
        <3>2. Defining(key)' = Defining(key) \cup {pos} /\ \A i \in Defining(key) : i < pos
            BY <1>4
        <3> QED
            BY <3>1, <3>2
    <2>2. ParserInv'
        BY ScanKeeps DEF Scan
    <2>3. Direct(key)' = source'[pos]
        <3> DEFINE top == CHOOSE j \in Defining(key)' : \A h \in Defining(key)' : h <= j
        <3>1. Defining(key)' \subseteq Nat
            BY <2>2 DEF Defining, Passed, ParserInv, ShapeInv
        <3>2. top \in Defining(key)' /\ \A h \in Defining(key)' : h <= top
            <4> HIDE DEF top
            <4>1. \E j \in Defining(key)' : \A h \in Defining(key)' : h <= j
                BY <2>1
            <4> QED BY <4>1 DEF top
        <3>3. top = pos
            <4> HIDE DEF top
            <4> QED BY <2>1, <3>1, <3>2
        <3> QED
            BY <3>3 DEF Direct
    <2> QED
        BY <2>3, <1>3
<1>8. \A k : k # key => Direct(k)' = Direct(k)
    BY <1>3, <1>4 DEF Direct
<1>9. Scanned
    BY <1>1 DEF StoreFits
<1>10. Scanned'
    <2>1. DOMAIN objects' = DirectKeys'
        BY <1>5, <1>6, <1>9 DEF Scanned
    <2>2. ASSUME NEW k \in DirectKeys', k # key PROVE objects'[k] = Direct(k)'
        <3>1. k \in DirectKeys /\ objects'[k] = objects[k]
            BY <1>5, <1>6, <2>1, <2>2
        <3> QED
            BY <1>8, <1>9, <2>2, <3>1 DEF Scanned
    <2>3. key \in DirectKeys' /\ objects'[key] = Direct(key)'
        BY <1>5, <1>6, <1>7
    <2> QED
        BY <2>1, <2>2, <2>3 DEF Scanned
<1> QED
    BY <1>1, <1>3, <1>10 DEF StoreFits, StoreMatchesFile

\* The scan stores the last definition of every key.
LEMMA ScanStore ==
    ASSUME ParserInv, StoreFits, Scan
    PROVE  StoreFits'
<1>0. ASSUME NEW kind, At(kind)
      PROVE  pc = "scan" /\ pos \in 1 .. Len(source) /\ Desc[source[pos]].kind = kind
    BY <1>0 DEF At, Current, ParserInv, ShapeInv
<1>1. ASSUME ScanTrailer \/ ScanSkipped \/ ScanEof PROVE StoreFits'
    BY <1>0, <1>1, PassOtherStore DEF ScanTrailer, ScanSkipped, ScanEof
<1>2. ASSUME ScanEnd PROVE StoreFits'
    BY <1>2, FileStable DEF ScanEnd, StoreFits, Scanned, StoreMatchesFile
<1>3. ASSUME ToFailed PROVE StoreFits'
    BY <1>3, FileStable DEF ToFailed, StoreFits, StoreMatchesFile
<1> QED
    BY <1>1, <1>2, <1>3, ScanObjectStore DEF Scan, ScanObjectOverLimit, ScanMalformed

\* The gate keeps a document shut only when it is locked.
LEMMA ShutIsLocked ==
    ASSUME ParserInv, GateInv, pc = "gate", encryption_reference # "no",
           ~(encryption_reference = "supported" /\ password = "right")
    PROVE  Locked
<1>1. LastDeclared
    BY DEF GateInv
<1>2. Declaring # {}
    <2>1. ASSUME Declaring = {} PROVE LastIn(Encrypting) = None
        BY <1>1, <2>1 DEF LastDeclared, LastIn
    <2> QED
        BY <2>1 DEF encryption_reference
<1>3. Declaring \subseteq 1 .. Len(source) /\ Len(source) \in Nat
    BY DEF Declaring, Passed, ParserInv, ShapeInv
<1>4. PICK i \in Declaring : \A j \in Declaring : j <= i
    BY <1>2, <1>3, LastPosition
<1>5. encryption_reference = Desc[source[i]].encrypt
    BY <1>1, <1>3, <1>4, LastEncrypting
<1> QED
    BY <1>4, <1>5 DEF Locked

\* The gate stores nothing; what it hands on is the store of the scan.
LEMMA GateStore ==
    ASSUME ParserInv, GateInv, StoreFits, Gate
    PROVE  StoreFits'
<1>1. pc = "gate" /\ Scanned /\ expanded = <<>>
    BY DEF Gate, GateOpen, GateMalformed, GateNoPassword, GateLocked, GateDecrypt, StoreFits
<1>2. ASSUME OpenStreams PROVE StoreFits'
    <2>1. Scanned' /\ expanded' = <<>> /\ pc' = "streams" /\ streams' = TypedKeys
        BY <1>1, <1>2, FileStable DEF OpenStreams, Scanned
    <2>2. FromContainers' /\ InKeyOrder' /\ BehindStreams'
        BY <2>1 DEF FromContainers, InKeyOrder, BehindStreams
    <2>3. ASSUME NEW k, NEW c \in Containers(k) PROVE c \in TypedKeys
        BY <1>1, <2>3 DEF Containers, TypedKeys, Scanned, DirectKeys
    <2>4. \A k \in Keys : Containers(k)' \ streams' = {}
        BY <1>2, <2>1, <2>3, FileStable DEF OpenStreams
    <2>5. Collected'
        BY <2>4 DEF Collected
    <2> QED
        BY <2>1, <2>2, <2>5 DEF StoreFits, StoreMatchesFile
<1>3. ASSUME ToFailed PROVE StoreFits'
    BY <1>3 DEF ToFailed, StoreFits, StoreMatchesFile
<1>4. ASSUME StopEncrypted, Locked PROVE StoreFits'
    BY <1>4, LockedStable DEF StopEncrypted, StoreFits, StoreMatchesFile
<1>5. ASSUME GateNoPassword \/ GateLocked PROVE StoreFits'
    <2>1. /\ encryption_reference # "no" /\ StopEncrypted
          /\ ~(encryption_reference = "supported" /\ password = "right")
        BY <1>5 DEF GateNoPassword, GateLocked
    <2> QED
        BY <1>1, <1>4, <2>1, ShutIsLocked
<1> QED
    BY <1>2, <1>3, <1>5 DEF Gate, GateOpen, GateMalformed, GateDecrypt

\* An xref stream leaves the work list alone.
LEMMA XrefStore ==
    ASSUME ParserInv, StoreFits, NEW k \in Keys, MaterializeXref(k)
    PROVE  StoreFits'
<1>1. /\ pc = "streams" /\ pc' = "streams" /\ k \in streams /\ streams' = streams \ {k}
      /\ Desc[objects[k]].stream = "xref"
      /\ UNCHANGED <<source, pos, objects, expanded>>
    BY DEF MaterializeXref, NextStream
<1>2. Scanned /\ FromContainers /\ InKeyOrder /\ BehindStreams /\ Collected
    BY <1>1 DEF StoreFits
<1>3. Scanned'
    BY <1>1, <1>2, FileStable DEF Scanned
<1>4. FromContainers' /\ InKeyOrder' /\ BehindStreams'
    BY <1>1, <1>2, FileStable DEF FromContainers, InKeyOrder, BehindStreams
<1>5. Desc[Direct(k)].stream = "xref"
    BY <1>1, <1>2 DEF Scanned, ParserInv, ShapeInv
<1>6. ASSUME NEW j \in Keys, NEW c \in Containers(j), c \notin streams \ {k}
      PROVE  Listed(j, c)
    <2>1. c # k
        BY <1>5, <1>6 DEF Containers
    <2> QED
        BY <1>2, <1>6, <2>1 DEF Collected
<1>7. Collected'
    BY <1>1, <1>6, FileStable DEF Collected, Listed
<1> QED
    BY <1>1, <1>3, <1>4, <1>7 DEF StoreFits, StoreMatchesFile

\* What a concatenation holds, position by position.
LEMMA ConcatFacts ==
    ASSUME NEW S, NEW s \in Seq(S), NEW t \in Seq(S)
    PROVE  /\ Len(s) \in Nat /\ DOMAIN s = 1 .. Len(s)
           /\ DOMAIN (s \o t) = 1 .. Len(s) + Len(t)
           /\ \A i \in 1 .. Len(s) : (s \o t)[i] = s[i]
           /\ \A i \in 1 .. Len(t) : (s \o t)[Len(s) + i] = t[i]
OBVIOUS

\* An object stream adds the entries of its objects after those of smaller keys.
LEMMA ObjStmStore ==
    ASSUME ParserInv, StoreFits, NEW k \in Keys, MaterializeObjStm(k)
    PROVE  StoreFits'
<1>1. /\ pc = "streams" /\ pc' = "streams" /\ k \in streams /\ streams' = streams \ {k}
      /\ \A j \in streams : k <= j
      /\ Desc[objects[k]].stream = "objstm" /\ expanded' = expanded \o Held(objects[k])
      /\ UNCHANGED <<source, pos, objects>>
    BY DEF MaterializeObjStm, NextStream
<1>2. Scanned /\ FromContainers /\ InKeyOrder /\ BehindStreams /\ Collected
    BY <1>1 DEF StoreFits
<1>3. Scanned'
    BY <1>1, <1>2, FileStable DEF Scanned
<1>4. objects[k] = Direct(k) /\ Defining(k) # {} /\ streams \subseteq Nat
    BY <1>1, <1>2, ParserAssumption DEF Scanned, DirectKeys, ParserInv, ShapeInv, StoreInv
<1> DEFINE d == Desc[objects[k]]
           n == Len(expanded)
           m == Len(d.holds)
<1>5. d.holds \in Seq(Keys) /\ d.key = k /\ objects[k] \in Items
    BY <1>4, DirectFacts
<1>6. /\ n \in Nat /\ m \in Nat /\ DOMAIN expanded = 1 .. n
      /\ DOMAIN expanded' = 1 .. n + m /\ DOMAIN d.holds = 1 .. m
      /\ \A i \in 1 .. n : expanded'[i] = expanded[i]
      /\ \A i \in 1 .. m : expanded'[n + i] = <<d.holds[i], objects[k]>>
    <2>1. expanded \in Seq(Keys \X Items)
        BY DEF ParserInv, ShapeInv
    <2>2. Held(objects[k]) \in Seq(Keys \X Items) /\ Len(Held(objects[k])) = m
          /\ \A i \in 1 .. m : Held(objects[k])[i] = <<d.holds[i], objects[k]>>
        <3>1. DOMAIN d.holds = 1 .. m /\ m \in Nat
            BY <1>5
        <3>2. Held(objects[k]) \in [1 .. m -> Keys \X Items]
            BY <1>5, <3>1 DEF Held
        <3>3. \A i \in 1 .. m : Held(objects[k])[i] = <<d.holds[i], objects[k]>>
            BY <3>1 DEF Held
        <3> QED
            BY <3>1, <3>2, <3>3, SeqDef
    <2>3. DOMAIN d.holds = 1 .. m /\ m \in Nat
        BY <1>5
    <2>4. PICK t : t = Held(objects[k])
        OBVIOUS
    <2>5. /\ t \in Seq(Keys \X Items) /\ Len(t) = m /\ expanded' = expanded \o t
          /\ \A i \in 1 .. m : t[i] = <<d.holds[i], objects[k]>>
        BY <1>1, <2>2, <2>4
    <2> HIDE DEF d, m
    <2>6. /\ Len(expanded) \in Nat /\ DOMAIN expanded = 1 .. Len(expanded)
          /\ DOMAIN (expanded \o t) = 1 .. Len(expanded) + Len(t)
          /\ \A i \in 1 .. Len(expanded) : (expanded \o t)[i] = expanded[i]
          /\ \A i \in 1 .. Len(t) : (expanded \o t)[Len(expanded) + i] = t[i]
        BY ONLY <2>1, <2>5, ConcatFacts
    <2> QED
        BY <2>3, <2>5, <2>6
<1> HIDE DEF d, n, m
<1>7. \A i \in 1 .. n + m : i \in 1 .. n \/ \E j \in 1 .. m : i = n + j
    <2>1. ASSUME NEW i \in 1 .. n + m, i \notin 1 .. n PROVE i - n \in 1 .. m /\ i = n + (i - n)
        BY <1>6, <2>1
    <2> QED
        BY <2>1
<1>8. k \in Keys /\ \A i \in 1 .. m : k \in Containers(d.holds[i])
    BY <1>1, <1>4, <1>6 DEF Containers, d
<1>9. \A i \in 1 .. m : /\ expanded'[n + i][1] = d.holds[i]
                        /\ expanded'[n + i][2] = objects[k]
                        /\ Desc[expanded'[n + i][2]].key = k
    BY <1>5, <1>6 DEF d
<1>10. FromContainers'
    <2>1. ASSUME NEW i \in 1 .. n + m
          PROVE  \E c \in Containers(expanded'[i][1]) : expanded'[i][2] = Direct(c)
        <3>1. CASE i \in 1 .. n
            BY <1>2, <1>6, <3>1 DEF FromContainers
        <3>2. ASSUME NEW j \in 1 .. m, i = n + j
              PROVE  \E c \in Containers(expanded'[i][1]) : expanded'[i][2] = Direct(c)
            BY <1>4, <1>8, <1>9, <3>2
        <3> QED
            BY <1>7, <3>1, <3>2
    <2>2. ASSUME NEW i \in DOMAIN expanded'
          PROVE  \E c \in Containers(expanded[i][1])' : expanded'[i][2] = Direct(c)'
        <3>1. PICK c \in Containers(expanded'[i][1]) : expanded'[i][2] = Direct(c)
            BY <1>6, <2>1
        <3>2. Direct(c)' = Direct(c)
            BY <1>1, FileStable
        <3>3. PICK j : j = expanded'[i][1]
            OBVIOUS
        <3>4. Containers(j)' = Containers(j)
            BY <1>1, FileStable
        <3>5. c \in Containers(expanded[i][1])'
            BY <3>1, <3>3, <3>4
        <3> QED
            BY <3>1, <3>2, <3>5
    <2> QED
        BY <2>2 DEF FromContainers
<1>11. InKeyOrder'
    <2>1. ASSUME NEW i \in 1 .. n + m, NEW j \in 1 .. n + m, i <= j
          PROVE  Desc[expanded'[i][2]].key <= Desc[expanded'[j][2]].key
        <3>1. CASE i \in 1 .. n /\ j \in 1 .. n
            BY <1>2, <1>6, <2>1, <3>1 DEF InKeyOrder
        <3>2. CASE i \in 1 .. n /\ j \notin 1 .. n
            <4>1. Desc[expanded'[i][2]].key < k
                BY <1>1, <1>2, <1>6, <3>2 DEF BehindStreams
            <4>2. Desc[expanded'[j][2]].key = k
                BY <1>7, <1>9, <3>2
            <4>3. Desc[expanded'[i][2]].key \in Nat
                <5>1. expanded[i] \in Keys \X Items
                    BY <1>6, <3>2 DEF ParserInv, ShapeInv
                <5> QED
                    BY <1>6, <3>2, <5>1, DescFields, ParserAssumption
            <4> QED
                BY <4>1, <4>2, <4>3, ParserAssumption
        <3>3. CASE i \notin 1 .. n
            <4>1. j \notin 1 .. n
                BY <1>6, <2>1, <3>3
            <4>2. Desc[expanded'[i][2]].key = k /\ Desc[expanded'[j][2]].key = k
                BY <1>7, <1>9, <3>3, <4>1
            <4> QED
                BY <4>2, ParserAssumption
        <3> QED
            BY <3>1, <3>2, <3>3
    <2> QED
        BY <1>6, <2>1 DEF InKeyOrder
<1>12. BehindStreams'
    <2>1. ASSUME NEW i \in 1 .. n + m, NEW j \in streams, j # k
          PROVE  Desc[expanded'[i][2]].key < j
        <3>1. CASE i \in 1 .. n
            BY <1>2, <1>6, <3>1 DEF BehindStreams
        <3>2. CASE i \notin 1 .. n
            <4>1. Desc[expanded'[i][2]].key = k
                BY <1>7, <1>9, <3>2
            <4>2. k < j
                BY <1>1, <1>4, <2>1
            <4> QED
                BY <4>1, <4>2
        <3> QED
            BY <3>1, <3>2
    <2> QED
        BY <1>1, <1>6, <2>1 DEF BehindStreams
<1>13. ASSUME NEW j \in Keys, NEW c \in Containers(j), c \notin streams \ {k}
       PROVE  \E i \in 1 .. n + m : expanded'[i] = <<j, Direct(c)>>
    <2>1. CASE c = k
        <3>1. PICK i \in 1 .. m : d.holds[i] = j
            BY <1>4, <1>6, <2>1 DEF Containers, d
        <3>2. n + i \in 1 .. n + m
            BY ONLY <1>6, <3>1
        <3>3. expanded'[n + i] = <<j, Direct(c)>>
            BY <1>4, <1>6, <2>1, <3>1
        <3> QED
            BY ONLY <3>2, <3>3
    <2>2. CASE c # k
        <3>1. PICK i \in 1 .. n : expanded[i] = <<j, Direct(c)>>
            BY <1>2, <1>6, <1>13, <2>2 DEF Collected, Listed
        <3> QED
            BY <1>6, <3>1
    <2> QED
        BY <2>1, <2>2
<1>14. Collected'
    <2>1. ASSUME NEW j \in Keys, NEW c \in Containers(j)', c \notin streams'
          PROVE  \E i \in DOMAIN expanded' : expanded'[i] = <<j, Direct(c)'>>
        <3>1. c \in Containers(j) /\ Direct(c)' = Direct(c) /\ c \notin streams \ {k}
            BY <1>1, <2>1, FileStable
        <3> QED
            BY <1>6, <1>13, <3>1
    <2> QED
        BY <2>1 DEF Collected, Listed
<1> QED
    BY <1>1, <1>3, <1>10, <1>11, <1>12, <1>14 DEF StoreFits, StoreMatchesFile

\* With no stream left, the work list holds what the object streams say.
LEMMA EndStore ==
    ASSUME ParserInv, StoreFits, MaterializeEnd
    PROVE  StoreFits'
<1>1. /\ pc = "streams" /\ pc' = "expand" /\ streams = {}
      /\ UNCHANGED <<source, pos, objects, expanded>>
    BY DEF MaterializeEnd
<1>2. Scanned /\ FromContainers /\ InKeyOrder /\ Collected
    BY <1>1 DEF StoreFits
<1>3. FromContainers' /\ InKeyOrder'
    BY <1>1, <1>2, FileStable DEF FromContainers, InKeyOrder
<1>4. Expanding
    <2>1. \A k \in DirectKeys : Meaning(k) = Direct(k)
        BY DEF DirectKeys, Meaning
    <2> QED
        BY <1>1, <1>2, <2>1 DEF Scanned, Expanding, Collected, DirectKeys
<1>5. Expanding'
    BY <1>1, <1>4, FileStable DEF Expanding, Listed
<1> QED
    BY <1>1, <1>3, <1>5 DEF StoreFits, StoreMatchesFile

\* The head of the work list is its key's entry from the first of its containers.
LEMMA HeadIsMeaning ==
    ASSUME ParserInv, FromContainers, InKeyOrder, Expanding, expanded # <<>>,
           Head(expanded)[1] \notin DOMAIN objects
    PROVE  /\ Meaning(Head(expanded)[1]) = Head(expanded)[2]
           /\ Containers(Head(expanded)[1]) # {}
<1>1. /\ Head(expanded) = expanded[1] /\ DOMAIN expanded = 1 .. Len(expanded)
      /\ Len(expanded) \in Nat /\ 1 \in DOMAIN expanded
      /\ expanded[1] \in Keys \X Items
    BY DEF ParserInv, ShapeInv
<1>2. PICK k \in Keys : k = expanded[1][1]
    BY <1>1
<1>3. PICK c \in Containers(k) : expanded[1][2] = Direct(c)
    BY <1>1, <1>2 DEF FromContainers
<1>4. \A d \in Containers(k) : d \in Nat /\ Desc[Direct(d)].key = d
    BY DirectFacts, ParserAssumption DEF Containers
<1>5. ASSUME NEW d \in Containers(k) PROVE c <= d
    <2>1. PICK i \in DOMAIN expanded : expanded[i] = <<k, Direct(d)>>
        BY <1>1, <1>2 DEF Expanding, Listed
    <2>2. Desc[expanded[1][2]].key <= Desc[expanded[i][2]].key
        BY <1>1, <2>1 DEF InKeyOrder
    <2>3. expanded[i][2] = Direct(d)
        BY <2>1
    <2> QED
        BY <1>3, <1>4, <2>2, <2>3
<1> DEFINE first == CHOOSE e \in Containers(k) : \A d \in Containers(k) : e <= d
<1>6. first \in Containers(k) /\ \A d \in Containers(k) : first <= d
    <2> HIDE DEF first
    <2>1. \E e \in Containers(k) : \A d \in Containers(k) : e <= d
        BY <1>5
    <2> QED BY <2>1 DEF first
<1>7. first = c
    <2> HIDE DEF first
    <2> QED BY <1>4, <1>5, <1>6
<1>8. Defining(k) = {}
    BY <1>1, <1>2 DEF Expanding, DirectKeys
<1>9. Meaning(k) = Direct(c)
    BY <1>7, <1>8 DEF Meaning
<1> QED
    BY <1>1, <1>2, <1>3, <1>9

\* The tail of the work list keeps its order and its entries for other keys.
LEMMA TailFits ==
    ASSUME ParserInv, FromContainers, InKeyOrder, expanded # <<>>,
           expanded' = Tail(expanded), UNCHANGED <<source, pos>>
    PROVE  /\ FromContainers' /\ InKeyOrder'
           /\ \A k : k # Head(expanded)[1] =>
                \A c : Listed(k, c) =>
                    \E i \in DOMAIN expanded' : expanded'[i] = <<k, Direct(c)>>
<1> DEFINE n == Len(expanded)
<1>1. /\ n \in Nat /\ n >= 1 /\ DOMAIN expanded = 1 .. n
      /\ DOMAIN expanded' = 1 .. n - 1
      /\ \A i \in 1 .. n - 1 : expanded'[i] = expanded[i + 1]
      /\ Head(expanded) = expanded[1]
    BY DEF ParserInv, ShapeInv
<1> HIDE DEF n
<1>2. InKeyOrder'
    <2>1. ASSUME NEW i \in 1 .. n - 1, NEW j \in 1 .. n - 1, i <= j
          PROVE  Desc[expanded'[i][2]].key <= Desc[expanded'[j][2]].key
        <3>1. i + 1 \in 1 .. n /\ j + 1 \in 1 .. n /\ i + 1 <= j + 1
            BY <1>1, <2>1
        <3>2. Desc[expanded[i + 1][2]].key <= Desc[expanded[j + 1][2]].key
            BY <1>1, <3>1 DEF InKeyOrder
        <3> QED
            BY <1>1, <3>2
    <2> QED
        BY <1>1, <2>1 DEF InKeyOrder
<1>3. FromContainers'
    <2>1. ASSUME NEW i \in DOMAIN expanded'
          PROVE  \E c \in Containers(expanded[i][1])' : expanded'[i][2] = Direct(c)'
        <3>1. i + 1 \in DOMAIN expanded /\ expanded'[i] = expanded[i + 1]
            BY <1>1, <2>1
        <3>2. PICK c \in Containers(expanded[i + 1][1]) : expanded[i + 1][2] = Direct(c)
            BY <3>1 DEF FromContainers
        <3>3. Direct(c)' = Direct(c)
            BY FileStable
        <3>4. PICK j : j = expanded[i + 1][1]
            OBVIOUS
        <3>5. Containers(j)' = Containers(j)
            BY FileStable
        <3>6. c \in Containers(expanded[i][1])'
            BY <3>1, <3>2, <3>4, <3>5
        <3> QED
            BY <3>1, <3>2, <3>3, <3>6
    <2> QED
        BY <2>1 DEF FromContainers
<1>4. ASSUME NEW k, k # Head(expanded)[1], NEW c, Listed(k, c)
      PROVE  \E i \in DOMAIN expanded' : expanded'[i] = <<k, Direct(c)>>
    <2>1. PICK i \in 1 .. n : expanded[i] = <<k, Direct(c)>>
        BY <1>1, <1>4 DEF Listed
    <2>2. i # 1
        BY <1>1, <1>4, <2>1
    <2>3. i - 1 \in 1 .. n - 1 /\ expanded'[i - 1] = expanded[i]
        BY <1>1, <2>2
    <2> QED
        BY <1>1, <2>1, <2>3
<1> QED
    BY <1>2, <1>3, <1>4

\* An entry is stored, or skipped because its key is there already.
LEMMA ExpandStore ==
    ASSUME ParserInv, StoreFits, ExpandNew \/ ExpandShadowed
    PROVE  StoreFits'
<1>1. /\ pc = "expand" /\ pc' = "expand" /\ expanded # <<>>
      /\ expanded' = Tail(expanded) /\ UNCHANGED <<source, pos>>
    BY DEF ExpandNew, ExpandShadowed
<1>2. FromContainers /\ InKeyOrder /\ Expanding
    BY <1>1 DEF StoreFits
<1>3. FromContainers' /\ InKeyOrder'
    BY <1>1, <1>2, TailFits
<1>4. PICK key \in Keys : key = Head(expanded)[1]
    <2>1. Head(expanded) \in Keys \X Items
        BY <1>1 DEF ParserInv, ShapeInv
    <2> QED
        BY <2>1
<1>5. ASSUME NEW k \in Keys \ DOMAIN objects, k # key, NEW c \in Containers(k)'
      PROVE  \E i \in DOMAIN expanded' : expanded'[i] = <<k, Direct(c)'>>
    <2>1. c \in Containers(k) /\ Direct(c)' = Direct(c)
        BY <1>1, FileStable
    <2>2. Listed(k, c)
        BY <1>2, <2>1 DEF Expanding
    <2> QED
        BY <1>1, <1>2, <1>4, <1>5, <2>1, <2>2, TailFits
<1>6. CASE ExpandShadowed
    <2>1. objects' = objects /\ key \in DOMAIN objects
        BY <1>4, <1>6 DEF ExpandShadowed
    <2>2. DirectKeys' \subseteq DOMAIN objects'
        BY <1>1, <1>2, <2>1, FileStable DEF Expanding
    <2>3. ASSUME NEW k \in DOMAIN objects'
          PROVE  objects'[k] = Meaning(k)' /\ (k \in DirectKeys' \/ Containers(k)' # {})
        BY <1>1, <1>2, <2>1, FileStable DEF Expanding
    <2>4. Expanding'
        BY <1>5, <2>1, <2>2, <2>3 DEF Expanding, Listed
    <2> QED
        BY <1>1, <1>3, <2>4 DEF StoreFits, StoreMatchesFile
<1>7. CASE ExpandNew
    <2>1. /\ DOMAIN objects' = DOMAIN objects \cup {key} /\ key \notin DOMAIN objects
          /\ \A k \in DOMAIN objects : objects'[k] = objects[k]
          /\ objects'[key] = Head(expanded)[2]
        BY <1>4, <1>7 DEF ExpandNew, Insert
    <2>2. DirectKeys' \subseteq DOMAIN objects'
        BY <1>1, <1>2, <2>1, FileStable DEF Expanding
    <2>3. Meaning(key) = objects'[key] /\ Containers(key) # {}
        BY <1>1, <1>2, <1>4, <2>1, HeadIsMeaning
    <2>4. ASSUME NEW k \in DOMAIN objects'
          PROVE  objects'[k] = Meaning(k)' /\ (k \in DirectKeys' \/ Containers(k)' # {})
        <3>1. /\ Meaning(k)' = Meaning(k) /\ Containers(k)' = Containers(k)
              /\ DirectKeys' = DirectKeys
            BY <1>1, FileStable
        <3> QED
            BY <1>2, <2>1, <2>3, <2>4, <3>1 DEF Expanding
    <2>5. Expanding'
        BY <1>5, <2>1, <2>2, <2>4 DEF Expanding, Listed
    <2> QED
        BY <1>1, <1>3, <2>5 DEF StoreFits, StoreMatchesFile
<1> QED
    BY <1>6, <1>7

\* With no entry left, the store is what the file says.
LEMMA FinishStore ==
    ASSUME ParserInv, StoreFits, Finish
    PROVE  StoreFits'
<1>1. /\ pc = "expand" /\ pc' = "done" /\ expanded = <<>>
      /\ UNCHANGED <<source, pos, objects>>
    BY DEF Finish
<1>2. Expanding /\ DOMAIN expanded = {}
    BY <1>1 DEF StoreFits
<1>3. \A k \in Keys \ DOMAIN objects : Containers(k) = {}
    BY <1>2 DEF Expanding, Listed
<1>4. DOMAIN objects \subseteq Keys
    BY DEF ParserInv, StoreInv
<1>5. /\ DOMAIN objects = {k \in Keys : Defining(k) # {} \/ Containers(k) # {}}
      /\ \A k \in DOMAIN objects : objects[k] = Meaning(k)
    BY <1>2, <1>3, <1>4 DEF Expanding, DirectKeys
<1>6. StoreMatchesFile'
    BY <1>1, <1>5, FileStable DEF StoreMatchesFile
<1> QED
    BY <1>1, <1>6 DEF StoreFits

\* Every step keeps the store invariant.
LEMMA NextStore == ParserInv /\ GateInv /\ StoreFits /\ [Next]_vars => StoreFits'
<1> SUFFICES ASSUME ParserInv, GateInv, StoreFits, [Next]_vars PROVE StoreFits'
    OBVIOUS
<1>1. ASSUME ToFailed PROVE StoreFits'
    BY <1>1 DEF ToFailed, StoreFits, StoreMatchesFile
<1>2. ASSUME ParseHeader PROVE StoreFits'
    BY <1>1, <1>2, FileStable DEF ParseHeader, StoreFits, Scanned, StoreMatchesFile
<1>3. ASSUME Materialize PROVE StoreFits'
    BY <1>1, <1>3, XrefStore, ObjStmStore, EndStore, ExpandStore
        DEF Materialize, MaterializeFails, ExpandOverLimit
<1>4. CASE UNCHANGED vars
    <2>1. UNCHANGED <<source, pos, objects, expanded, streams, pc, password>>
        BY <1>4 DEF vars
    <2>2. Scanned' = Scanned /\ InKeyOrder' = InKeyOrder /\ BehindStreams' = BehindStreams
        BY <2>1, FileStable DEF Scanned, InKeyOrder, BehindStreams
    <2>3. FromContainers => FromContainers'
        BY <2>1, FileStable DEF FromContainers
    <2>4. Collected => Collected'
        BY <2>1, FileStable DEF Collected, Listed
    <2>5. Expanding => Expanding'
        BY <2>1, FileStable DEF Expanding, Listed
    <2>6. StoreMatchesFile => StoreMatchesFile'
        BY <2>1, FileStable, LockedStable DEF StoreMatchesFile
    <2> QED
        BY <2>1, <2>2, <2>3, <2>4, <2>5, <2>6 DEF StoreFits
<1> QED
    BY <1>2, <1>3, <1>4, ScanStore, GateStore, FinishStore DEF Next

\* The store of every unlocked document is what its file says: later definitions
\* replace earlier ones, and compressed objects only fill the keys left free.
THEOREM StoreMatchesFileAlways == Spec => []StoreMatchesFile
<1>1. Init => ParserInv /\ GateInv /\ StoreFits
    BY InitParser, InitGate, InitStore
<1>2. ParserInv /\ GateInv /\ StoreFits /\ [Next]_vars => (ParserInv /\ GateInv /\ StoreFits)'
    BY NextParser, NextGate, NextStore
<1>3. StoreFits => StoreMatchesFile
    BY DEF StoreFits
<1> QED
    BY <1>1, <1>2, <1>3, PTL DEF Spec
===============================================================================
