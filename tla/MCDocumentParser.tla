--------------------------- MODULE MCDocumentParser ---------------------------
(***************************************************************************)
(* Files of a few items.  Keys 1 and 2 have two definitions each; key 2 is *)
(* an object stream that holds keys 1 and 3, or the plain object replacing *)
(* it; key 3 is an xref stream, and key 4 a second object stream.          *)
(***************************************************************************)
EXTENDS DocumentParser, TLC

Plain == [kind |-> "object", key |-> 1, stream |-> "no", decodes |-> TRUE,
          holds |-> <<>>, root |-> None, encrypt |-> "no", chain |-> 0]
Object(k) == [Plain EXCEPT !.key = k]
ObjStm(k, held) == [Plain EXCEPT !.key = k, !.stream = "objstm", !.holds = held]
XrefStm(k, e) ==
    [Plain EXCEPT !.key = k, !.stream = "xref", !.root = 1, !.encrypt = e, !.chain = 1]
Trailer(kind, root, e) ==
    [Plain EXCEPT !.kind = kind, !.root = root, !.encrypt = e, !.chain = 1]

MCDesc ==
       "o1"   :> Object(1)
    @@ "p1"   :> Object(1)
    @@ "p2"   :> Object(2)
    @@ "c2"   :> ObjStm(2, <<1, 3>>)
    @@ "c4"   :> ObjStm(4, <<3, 1>>)
    @@ "d4"   :> [ObjStm(4, <<3>>) EXCEPT !.decodes = FALSE]
    @@ "x3"   :> XrefStm(3, "no")
    @@ "e3"   :> XrefStm(3, "supported")
    @@ "t1"   :> Trailer("trailer", 1, "no")
    @@ "t2"   :> Trailer("section", 2, "no")
    @@ "te"   :> Trailer("section", None, "supported")
    @@ "tu"   :> Trailer("trailer", 1, "unsupported")
    @@ "tm"   :> Trailer("trailer", 1, "malformed")
    @@ "junk" :> [Plain EXCEPT !.kind = "skipped"]
    @@ "bad"  :> [Plain EXCEPT !.kind = "malformed"]
    @@ "eof"  :> [Plain EXCEPT !.kind = "eof"]

MCItems == DOMAIN MCDesc

\* Files of at most n items taken from S.
FilesOver(S, n) == UNION {[1 .. m -> S] : m \in 0 .. n}

\* Every short file; longer ones that redefine objects and object streams,
\* that define more than three objects, and whose trailers compete.
MCFiles ==
    FilesOver(MCItems, 3)
    \cup FilesOver({"o1", "p1", "p2", "c2", "c4", "eof"}, 4)
    \cup FilesOver({"o1", "p2", "c2", "c4"}, 5)
    \cup FilesOver({"o1", "p2", "x3", "c4"}, 4)
    \cup FilesOver({"o1", "e3", "t1", "t2", "te", "eof"}, 4)
MCEncryptFiles == FilesOver({"o1", "e3", "te", "eof"}, 3)
MCUpdatedFiles == FilesOver({"o1", "p1", "t1", "eof"}, 4)
===============================================================================
