-------------------------------- MODULE Repair --------------------------------
(***************************************************************************)
(* `pdfv repair-metadata`: one rayon worker per listed input runs          *)
(* repair_metadata_path against a shared file system, which other programs *)
(* write to at the same time.  A worker copies its input to a temporary    *)
(* file in the output directory, validates the copy, and publishes it      *)
(* under the output name without replacing an existing file.               *)
(*                                                                         *)
(* A file is modelled by its two halves, so that a copy taken while the    *)
(* input is rewritten can mix two versions.  What validation says of a     *)
(* file depends on both halves and is a parameter.                         *)
(***************************************************************************)
EXTENDS Naturals, FiniteSets

CONSTANTS
    Workers,            \* the listed inputs, one repair_path call each
    Paths,              \* canonical file paths
    Plans,              \* the pairs of InputOf and OutputOf a run may have
    BadName,            \* the output file name was refused
    Halves,             \* half-file contents
    Absent,             \* no file there
    TooBig,             \* the files longer than max_file_bytes
    Validation,         \* what validate_reader reports for each file
    Jobs,               \* threads of the worker pool
    EnvWrites           \* bound: writes other programs make during the run

Files == Halves \X Halves

\* ValidationReport classes that repair_refusal_for_validation tells apart:
\* "valid" is status Valid with exactly one flavour and no encryption fact.
Reports == {"valid", "parse_failed", "encrypted", "ambiguous", "not_valid"}

ASSUME RepairAssumption ==
    /\ Plans \subseteq [Workers -> Paths] \X [Workers -> Paths \cup {BadName}]
    /\ BadName \notin Paths /\ "user" \notin Workers
    /\ Absent \notin Files /\ Absent \notin Halves
    /\ TooBig \subseteq Files
    /\ Validation \in [Files -> Reports]
    /\ IsFiniteSet(Workers)
    /\ Jobs \in Nat \ {0}
    /\ EnvWrites \in Nat

VARIABLES
    fs,                 \* [Paths -> Files \cup {Absent}]
    owner,              \* history: who wrote the file at a path last
    pc,                 \* [Workers -> step of repair_metadata_path]
    temp,               \* [Workers -> candidate's halves, Absent if no temp file]
    status,             \* [Workers -> RepairStatus, or "none" before the report]
    writes,             \* writes made by other programs so far
    crashed,            \* the process was killed
    InputOf,            \* [Workers -> Paths]
    OutputOf,           \* [Workers -> Paths \cup {BadName}]: repair_output_path
    exit                \* exit code of the process, "none" while it runs

plan == <<InputOf, OutputOf>>
vars == <<fs, owner, pc, temp, status, writes, crashed, exit, plan>>

\* The worker's temp file: nothing read yet, first half read, both read.
NoTemp == <<Absent, Absent>>

Running == {"open", "copy1", "copy2", "validate", "persist"}

Init ==
    /\ \E p \in Plans : InputOf = p[1] /\ OutputOf = p[2]
    /\ fs \in [Paths -> Files \cup {Absent}]
    /\ owner = [p \in Paths |-> "user"]
    /\ pc = [w \in Workers |-> "queued"]
    /\ temp = [w \in Workers |-> NoTemp]
    /\ status = [w \in Workers |-> "none"]
    /\ writes = 0
    /\ crashed = FALSE
    /\ exit = "none"

\* The worker returns: its NamedTempFile is dropped, which removes the file.
\* An Err of repair_path and a caught panic become a Failed report.
Report(w, s) ==
    /\ pc' = [pc EXCEPT ![w] = "reported"]
    /\ status' = [status EXCEPT ![w] = s]
    /\ temp' = [temp EXCEPT ![w] = NoTemp]

Goto(w, label) == pc' = [pc EXCEPT ![w] = label] /\ UNCHANGED status

\* The pool runs at most Jobs inputs at a time.
ThreadFree == Cardinality({w \in Workers : pc[w] \in Running}) < Jobs

\* Summary, output name and canonical paths: an error of any is Failed.
Unusable(w) == fs[InputOf[w]] = Absent \/ OutputOf[w] = BadName

\* The two early refusals: the output is the input, or it exists.
Occupied(w) == InputOf[w] = OutputOf[w] \/ fs[OutputOf[w]] # Absent

\* The checks by path name, before anything is opened.
Start(w) ==
    /\ pc[w] = "queued" /\ ThreadFree
    /\ \/ Unusable(w) /\ Report(w, "failed")
       \/ ~Unusable(w) /\ Occupied(w) /\ Report(w, "refused")
       \/ ~Unusable(w) /\ ~Occupied(w) /\ Goto(w, "open") /\ UNCHANGED temp
    /\ UNCHANGED <<fs, owner, writes, crashed, exit, plan>>

\* Open the input, check its size and create the empty temp file.
OpenSource(w) ==
    /\ pc[w] = "open"
    /\ \/ fs[InputOf[w]] \in TooBig /\ Report(w, "refused")
       \/ fs[InputOf[w]] \notin TooBig /\ Goto(w, "copy1") /\ UNCHANGED temp
    /\ UNCHANGED <<fs, owner, writes, crashed, exit, plan>>

\* io::copy reads the input as it is at that moment.
CopyFirstHalf(w) ==
    /\ pc[w] = "copy1"
    /\ temp' = [temp EXCEPT ![w][1] = fs[InputOf[w]][1]]
    /\ Goto(w, "copy2")
    /\ UNCHANGED <<fs, owner, writes, crashed, exit, plan>>

CopySecondHalf(w) ==
    /\ pc[w] = "copy2"
    /\ temp' = [temp EXCEPT ![w][2] = fs[InputOf[w]][2]]
    /\ Goto(w, "validate")
    /\ UNCHANGED <<fs, owner, writes, crashed, exit, plan>>

\* Mutant of Validate: the input is validated instead of the candidate.
ValidateInput(w) ==
    /\ pc[w] = "validate"
    /\ IF Validation[fs[InputOf[w]]] = "valid"
       THEN Goto(w, "persist") /\ UNCHANGED temp
       ELSE Report(w, "refused")
    /\ UNCHANGED <<fs, owner, writes, crashed, exit, plan>>

\* The candidate is validated, not the input, which may have changed since.
\* The parser applies max_file_bytes again: a copy that grew is a parse failure.
Validate(w) ==
    /\ pc[w] = "validate"
    /\ IF Validation[temp[w]] = "valid" /\ temp[w] \notin TooBig
       THEN Goto(w, "persist") /\ UNCHANGED temp
       ELSE Report(w, "refused")
    /\ UNCHANGED <<fs, owner, writes, crashed, exit, plan>>

\* Mutant of Persist: rename over whatever is there.
PersistClobber(w) ==
    /\ pc[w] = "persist"
    /\ fs' = [fs EXCEPT ![OutputOf[w]] = temp[w]]
    /\ owner' = [owner EXCEPT ![OutputOf[w]] = w]
    /\ Report(w, "no_action")
    /\ UNCHANGED <<writes, crashed, exit, plan>>

\* Mutant of Persist: a lost race is reported as a written output.
PersistHidesRace(w) ==
    /\ pc[w] = "persist"
    /\ IF fs[OutputOf[w]] = Absent
       THEN /\ fs' = [fs EXCEPT ![OutputOf[w]] = temp[w]]
            /\ owner' = [owner EXCEPT ![OutputOf[w]] = w]
       ELSE UNCHANGED <<fs, owner>>
    /\ Report(w, "no_action")
    /\ UNCHANGED <<writes, crashed, exit, plan>>

\* persist_noclobber: the file appears under its name whole, or not at all.
Persist(w) ==
    /\ pc[w] = "persist"
    /\ \/ /\ fs[OutputOf[w]] = Absent
          /\ fs' = [fs EXCEPT ![OutputOf[w]] = temp[w]]
          /\ owner' = [owner EXCEPT ![OutputOf[w]] = w]
          /\ Report(w, "no_action")
       \/ /\ fs[OutputOf[w]] # Absent
          /\ Report(w, "refused")
          /\ UNCHANGED <<fs, owner>>
    /\ UNCHANGED <<writes, crashed, exit, plan>>

\* An I/O error, an error of the validator or a panic in it.
Fails(w) ==
    /\ pc[w] \in Running
    /\ Report(w, "failed")
    /\ UNCHANGED <<fs, owner, writes, crashed, exit, plan>>

WorkerStep(w) ==
    /\ ~crashed
    /\ \/ Start(w)
       \/ OpenSource(w)
       \/ CopyFirstHalf(w)
       \/ CopySecondHalf(w)
       \/ Validate(w)
       \/ Persist(w)
       \/ Fails(w)

\* Another program creates a file or rewrites one in place.
EnvWrite(p, f) ==
    /\ writes < EnvWrites
    /\ fs' = [fs EXCEPT ![p] = f]
    /\ owner' = [owner EXCEPT ![p] = "user"]
    /\ writes' = writes + 1
    /\ UNCHANGED <<pc, temp, status, crashed, exit, plan>>

\* The process is killed: temp files stay behind, no report is written.
Crash ==
    /\ ~crashed /\ exit = "none"
    /\ crashed' = TRUE
    /\ UNCHANGED <<fs, owner, pc, temp, status, writes, exit, plan>>

AllReported == \A w \in Workers : pc[w] = "reported"

\* RepairBatchSummary::from_items.
Count(s) == Cardinality({w \in Workers : status[w] = s})

\* Mutant of repair_exit: refusals do not show in the exit code.
ExitIgnoresRefusals == IF Count("failed") > 0 THEN "internal" ELSE "valid"

repair_exit ==
    IF Count("failed") > 0 THEN "internal"
    ELSE IF Count("refused") > 0 THEN "parse_failed" ELSE "valid"

\* All reports collected: write them out and exit.  Failing to write is an
\* error of main.  (The --output file is taken to be outside Paths.)
Exit ==
    /\ AllReported /\ ~crashed /\ exit = "none"
    /\ exit' \in {repair_exit, "internal"}
    /\ UNCHANGED <<fs, owner, pc, temp, status, writes, crashed, plan>>

Finished == (exit # "none" \/ crashed) /\ UNCHANGED vars

Next ==
    \/ \E w \in Workers : WorkerStep(w)
    \/ \E p \in Paths, f \in Files : EnvWrite(p, f)
    \/ Exit
    \/ Crash
    \/ Finished

Spec == Init /\ [][Next]_vars

-------------------------------------------------------------------------------
MaybeHalf == Halves \cup {Absent}

\* Types of the file system and of the workers' progress.
TypeOK ==
    /\ InputOf \in [Workers -> Paths]
    /\ OutputOf \in [Workers -> Paths \cup {BadName}]
    /\ fs \in [Paths -> Files \cup {Absent}]
    /\ owner \in [Paths -> Workers \cup {"user"}]
    /\ pc \in [Workers -> {"queued", "reported"} \cup Running]
    /\ temp \in [Workers -> MaybeHalf \X MaybeHalf]
    /\ status \in [Workers -> {"none", "no_action", "refused", "failed"}]
    /\ writes \in 0 .. EnvWrites
    /\ crashed \in BOOLEAN
    /\ exit \in {"none", "valid", "parse_failed", "internal"}

\* A file the tool published is one that validation accepted with a single
\* flavour, even if the input changed during the copy, two inputs compete for
\* the name, or the process dies: no torn or unvalidated copy appears.
OutputsValidated ==
    \A p \in Paths : owner[p] \in Workers =>
        fs[p] # Absent /\ Validation[fs[p]] = "valid" /\ fs[p] \notin TooBig

\* At most one input reports a written output for a name, and when the run is
\* over the report says "written" only if the file there is that worker's, or
\* a later write of another program.
WrittenIsThere ==
    \A w \in Workers : status[w] = "no_action" =>
        /\ fs[OutputOf[w]] # Absent
        /\ owner[OutputOf[w]] \in {w, "user"}
        /\ \A v \in Workers \ {w} :
              status[v] = "no_action" => OutputOf[v] # OutputOf[w]

\* Exit code 0 promises an output file of its own for every listed input.
ExitZeroMeansAllWritten ==
    exit = "valid" =>
        /\ \A w \in Workers : OutputOf[w] \in Paths /\ fs[OutputOf[w]] # Absent
        /\ \A v, w \in Workers : OutputOf[v] = OutputOf[w] => v = w

\* The tool never changes a file that exists: inputs are not modified in
\* place, and neither is a file another program put under the output name.
NeverOverwrites ==
    [][(\E w \in Workers : WorkerStep(w)) =>
            \A p \in Paths : fs[p] # Absent => fs'[p] = fs[p]]_vars

===============================================================================
