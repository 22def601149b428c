------------------------------ MODULE RepairProofs ------------------------------
(***************************************************************************)
(* What the repair workers promise whatever the number of inputs, paths    *)
(* and file contents, and whatever other programs write meanwhile.         *)
(***************************************************************************)
EXTENDS Repair, FiniteSetTheorems, TLAPS

USE RepairAssumption DEF Files, Running, Reports, plan

-------------------------------------------------------------------------------
\* A worker past the checks by name has an output path and an input to read,
\* a finished copy is a whole file, and a worker about to publish holds a copy
\* that validation accepted.
Progress ==
    \A w \in Workers :
        /\ pc[w] \in Running => OutputOf[w] \in Paths /\ fs[InputOf[w]] # Absent
        /\ pc[w] = "copy2" => temp[w][1] \in Halves
        /\ pc[w] \in {"validate", "persist"} => temp[w] \in Files
        /\ pc[w] = "persist" =>
              Validation[temp[w]] = "valid" /\ temp[w] \notin TooBig

\* A report says "written" only once the worker has published.
Published ==
    \A w \in Workers : status[w] = "no_action" =>
        /\ pc[w] = "reported" /\ OutputOf[w] \in Paths
        /\ fs[OutputOf[w]] # Absent
        /\ owner[OutputOf[w]] \in {w, "user"}

\* Two workers never both report a written output under one name.
Unique ==
    \A v, w \in Workers :
        v # w /\ status[v] = "no_action" /\ status[w] = "no_action"
            => OutputOf[v] # OutputOf[w]

RepairInv == TypeOK /\ Progress /\ OutputsValidated /\ Published /\ Unique

\* Files are pairs of halves.
LEMMA FileHalves ==
    ASSUME NEW f \in Files
    PROVE  f[1] \in Halves /\ f[2] \in Halves
BY DEF Files

\* The invariant holds before any worker starts.
LEMMA InitRepair == Init => RepairInv
<1> SUFFICES ASSUME Init PROVE RepairInv
    OBVIOUS
<1>1. TypeOK
    <2>1. NoTemp \in MaybeHalf \X MaybeHalf
        BY DEF NoTemp, MaybeHalf
    <2>2. temp \in [Workers -> MaybeHalf \X MaybeHalf]
        BY <2>1 DEF Init
    <2>3. writes \in 0 .. EnvWrites
        BY DEF Init
    <2>4. InputOf \in [Workers -> Paths] /\ OutputOf \in [Workers -> Paths \cup {BadName}]
        <3>1. PICK p \in Plans : InputOf = p[1] /\ OutputOf = p[2]
            BY DEF Init
        <3> QED
            BY <3>1
    <2> QED
        BY <2>2, <2>3, <2>4 DEF Init, TypeOK
<1>2. Progress
    BY DEF Init, Progress
<1>3. OutputsValidated
    BY DEF Init, OutputsValidated
<1>4. Published /\ Unique
    BY DEF Init, Published, Unique
<1> QED
    BY <1>1, <1>2, <1>3, <1>4 DEF RepairInv

\* A worker that reports anything but a written output, or moves on without
\* touching the file system, keeps the invariant.
LEMMA ReportKeeps ==
    ASSUME RepairInv, NEW w \in Workers, NEW s \in {"refused", "failed"},
           pc[w] # "reported", Report(w, s),
           UNCHANGED <<fs, owner, writes, crashed, exit, plan>>
    PROVE  RepairInv'
<1> USE DEF RepairInv
<1>1. TypeOK'
    BY DEF TypeOK, Report, NoTemp, MaybeHalf
<1>2. Progress'
    BY DEF TypeOK, Progress, Report
<1>3. OutputsValidated'
    BY DEF OutputsValidated
<1>4. Published' /\ Unique'
    BY DEF TypeOK, Published, Unique, Report
<1> QED
    BY <1>1, <1>2, <1>3, <1>4

\* Moving on to another step without touching a file keeps the invariant.
LEMMA GotoKeeps ==
    ASSUME RepairInv, NEW w \in Workers, NEW label \in Running,
           pc[w] # "reported", Goto(w, label), TypeOK',
           UNCHANGED <<fs, owner, writes, crashed, exit, plan>>
    PROVE  OutputsValidated' /\ Published' /\ Unique'
<1> USE DEF RepairInv
<1>1. OutputsValidated'
    BY DEF OutputsValidated
<1>2. Published' /\ Unique'
    BY DEF TypeOK, Published, Unique, Goto
<1> QED
    BY <1>1, <1>2

\* Every step of repair_metadata_path keeps the invariant.
LEMMA WorkerKeeps ==
    ASSUME RepairInv, NEW w \in Workers, WorkerStep(w)
    PROVE  RepairInv'
<1> USE DEF RepairInv
<1>0. InputOf' = InputOf /\ OutputOf' = OutputOf
    BY DEF WorkerStep, Start, OpenSource, CopyFirstHalf, CopySecondHalf, Validate, Persist, Fails
<1> USE <1>0
<1>1. ASSUME Start(w) PROVE RepairInv'
    <2>1. CASE Report(w, "failed") \/ Report(w, "refused")
        BY <1>1, <2>1, ReportKeeps DEF Start
    <2>2. CASE ~Unusable(w) /\ ~Occupied(w) /\ Goto(w, "open") /\ UNCHANGED temp
        <3>1. TypeOK'
            BY <1>1, <2>2 DEF Start, TypeOK, Goto
        <3>2. Progress'
            BY <1>1, <2>2 DEF Start, TypeOK, Goto, Progress, Unusable
        <3> QED
            BY <1>1, <2>2, <3>1, <3>2, GotoKeeps DEF Start
    <2> QED
        BY <1>1, <2>1, <2>2 DEF Start
<1>2. ASSUME OpenSource(w) PROVE RepairInv'
    <2>1. CASE Report(w, "refused")
        BY <1>2, <2>1, ReportKeeps DEF OpenSource
    <2>2. CASE Goto(w, "copy1") /\ UNCHANGED temp
        <3>1. TypeOK'
            BY <1>2, <2>2 DEF OpenSource, TypeOK, Goto
        <3>2. Progress'
            BY <1>2, <2>2 DEF OpenSource, TypeOK, Goto, Progress
        <3> QED
            BY <1>2, <2>2, <3>1, <3>2, GotoKeeps DEF OpenSource
    <2> QED
        BY <1>2, <2>1, <2>2 DEF OpenSource
<1>3. ASSUME CopyFirstHalf(w) PROVE RepairInv'
    <2>1. fs[InputOf[w]] \in Files
        BY <1>3 DEF CopyFirstHalf, Progress, TypeOK
    <2>2. fs[InputOf[w]][1] \in Halves
        BY <2>1, FileHalves
    <2>3. TypeOK'
        BY <1>3, <2>2 DEF CopyFirstHalf, TypeOK, Goto, MaybeHalf
    <2>4. Progress'
        BY <1>3, <2>2 DEF CopyFirstHalf, TypeOK, Goto, Progress, MaybeHalf
    <2> QED
        BY <1>3, <2>3, <2>4, GotoKeeps DEF CopyFirstHalf
<1>4. ASSUME CopySecondHalf(w) PROVE RepairInv'
    <2>1. fs[InputOf[w]] \in Files
        BY <1>4 DEF CopySecondHalf, Progress, TypeOK
    <2>2. fs[InputOf[w]][2] \in Halves
        BY <2>1, FileHalves
    <2>3. temp'[w] \in Files
        <3>1. temp[w][1] \in Halves /\ temp[w] \in MaybeHalf \X MaybeHalf
            BY <1>4 DEF CopySecondHalf, TypeOK, Progress
        <3>2. temp'[w] = <<temp[w][1], fs[InputOf[w]][2]>>
            BY <1>4, <3>1 DEF CopySecondHalf, TypeOK
        <3> QED
            BY <3>1, <3>2, <2>2
    <2>4. TypeOK'
        <3>1. temp' \in [Workers -> MaybeHalf \X MaybeHalf]
            <4>1. temp'[w] \in MaybeHalf \X MaybeHalf
                BY <2>3 DEF MaybeHalf
            <4>2. \A v \in Workers \ {w} : temp'[v] = temp[v]
                BY <1>4 DEF CopySecondHalf, TypeOK
            <4>3. temp' = [v \in Workers |-> temp'[v]]
                BY <1>4 DEF CopySecondHalf, TypeOK
            <4> QED
                BY <4>1, <4>2, <4>3 DEF TypeOK
        <3> QED
            BY <1>4, <3>1 DEF CopySecondHalf, TypeOK, Goto
    <2>5. Progress'
        BY <1>4, <2>3 DEF CopySecondHalf, TypeOK, Goto, Progress
    <2> QED
        BY <1>4, <2>4, <2>5, GotoKeeps DEF CopySecondHalf
<1>5. ASSUME Validate(w) PROVE RepairInv'
    <2>1. CASE Report(w, "refused")
        BY <1>5, <2>1, ReportKeeps DEF Validate
    <2>2. CASE /\ Validation[temp[w]] = "valid" /\ temp[w] \notin TooBig
               /\ Goto(w, "persist") /\ UNCHANGED temp
        <3>1. TypeOK'
            BY <1>5, <2>2 DEF Validate, TypeOK, Goto
        <3>2. Progress'
            BY <1>5, <2>2 DEF Validate, TypeOK, Goto, Progress
        <3> QED
            BY <1>5, <2>2, <3>1, <3>2, GotoKeeps DEF Validate
    <2> QED
        BY <1>5, <2>1, <2>2 DEF Validate
<1>6. ASSUME Persist(w) PROVE RepairInv'
    <2>1. CASE Report(w, "refused") /\ UNCHANGED <<fs, owner>>
        BY <1>6, <2>1, ReportKeeps DEF Persist
    <2>2. CASE /\ fs[OutputOf[w]] = Absent
               /\ fs' = [fs EXCEPT ![OutputOf[w]] = temp[w]]
               /\ owner' = [owner EXCEPT ![OutputOf[w]] = w]
               /\ Report(w, "no_action")
        <3>1. OutputOf[w] \in Paths /\ temp[w] \in Files
            BY <1>6 DEF Persist, Progress
        <3>2. TypeOK'
            BY <1>6, <2>2, <3>1 DEF Persist, TypeOK, Report, NoTemp, MaybeHalf
        <3>3. temp[w] # Absent
            BY <3>1
        <3>4. \A p \in Paths : fs[p] # Absent => fs'[p] # Absent
            BY <2>2, <3>1, <3>3 DEF TypeOK
        <3>5. Progress'
            BY <1>6, <2>2, <3>4 DEF Persist, Report, TypeOK, Progress
        <3>6. OutputsValidated'
            BY <1>6, <2>2, <3>1, <3>3 DEF Persist, Progress, TypeOK, OutputsValidated
        <3>7. \A v \in Workers \ {w} :
                    status[v] = "no_action" => OutputOf[v] # OutputOf[w]
            BY <2>2 DEF Published
        <3>8. Published'
            BY <1>6, <2>2, <3>1, <3>4, <3>7 DEF Persist, Report, TypeOK, Published
        <3>9. Unique'
            BY <2>2, <3>7 DEF Report, TypeOK, Unique
        <3> QED
            BY <3>2, <3>5, <3>6, <3>8, <3>9
    <2> QED
        BY <1>6, <2>1, <2>2 DEF Persist
<1>7. ASSUME Fails(w) PROVE RepairInv'
    BY <1>7, ReportKeeps DEF Fails
<1> QED
    BY <1>1, <1>2, <1>3, <1>4, <1>5, <1>6, <1>7 DEF WorkerStep

\* Writes of other programs keep the invariant.
LEMMA EnvKeeps ==
    ASSUME RepairInv, NEW p \in Paths, NEW f \in Files, EnvWrite(p, f)
    PROVE  RepairInv'
<1> USE DEF RepairInv
<1>1. f # Absent
    OBVIOUS
<1>2. TypeOK'
    BY DEF EnvWrite, TypeOK
<1>3. \A q \in Paths : fs[q] # Absent => fs'[q] # Absent
    BY <1>1 DEF EnvWrite, TypeOK
<1>4. Progress'
    BY <1>3 DEF EnvWrite, TypeOK, Progress
<1>5. OutputsValidated'
    BY DEF EnvWrite, TypeOK, OutputsValidated
<1>6. Published' /\ Unique'
    BY <1>3 DEF EnvWrite, TypeOK, Published, Unique
<1> QED
    BY <1>2, <1>4, <1>5, <1>6

\* Every step of the run keeps the invariant.
LEMMA NextRepair == RepairInv /\ [Next]_vars => RepairInv'
<1> SUFFICES ASSUME RepairInv, [Next]_vars PROVE RepairInv'
    OBVIOUS
<1>1. CASE \E w \in Workers : WorkerStep(w)
    BY <1>1, WorkerKeeps
<1>2. CASE \E p \in Paths, f \in Files : EnvWrite(p, f)
    BY <1>2, EnvKeeps
<1>3. CASE Exit \/ Crash
    <2>1. UNCHANGED <<fs, owner, pc, temp, status, writes, plan>>
        BY <1>3 DEF Exit, Crash
    <2>2. TypeOK'
        BY <1>3, <2>1 DEF Exit, Crash, RepairInv, TypeOK, repair_exit
    <2> QED
        BY <2>1, <2>2 DEF RepairInv, Progress, OutputsValidated, Published, Unique
<1>4. CASE UNCHANGED vars
    BY <1>4 DEF vars, RepairInv, TypeOK, Progress, OutputsValidated, Published, Unique
<1> QED
    BY <1>1, <1>2, <1>3, <1>4 DEF Next, Finished

\* The inductive invariant of a repair run.
THEOREM RepairInductive == Spec => []RepairInv
BY InitRepair, NextRepair, PTL DEF Spec

\* The file system and the workers' progress keep their types.
THEOREM TypeCorrect == Spec => []TypeOK
<1>1. RepairInv => TypeOK
    BY DEF RepairInv
<1> QED
    BY <1>1, RepairInductive, PTL

\* Every file the tool publishes passed validation, whatever else happens.
THEOREM OutputsValidatedHolds == Spec => []OutputsValidated
<1>1. RepairInv => OutputsValidated
    BY DEF RepairInv
<1> QED
    BY <1>1, RepairInductive, PTL

\* A report of a written output is true, and exclusive to its name.
THEOREM WrittenIsThereHolds == Spec => []WrittenIsThere
<1>1. RepairInv => WrittenIsThere
    BY DEF RepairInv, Published, Unique, WrittenIsThere
<1> QED
    BY <1>1, RepairInductive, PTL

\* Workers never change a file that exists.
THEOREM NeverOverwritesHolds == Spec => NeverOverwrites
<1>1. ASSUME RepairInv, NEW w \in Workers, WorkerStep(w), NEW p \in Paths,
             fs[p] # Absent
      PROVE  fs'[p] = fs[p]
    BY <1>1 DEF RepairInv, TypeOK, WorkerStep, Start, OpenSource, CopyFirstHalf,
                CopySecondHalf, Validate, Persist, Fails
<1>2. RepairInv /\ [Next]_vars =>
        [(\E w \in Workers : WorkerStep(w)) =>
            \A p \in Paths : fs[p] # Absent => fs'[p] = fs[p]]_vars
    BY <1>1
<1> QED
    BY <1>2, RepairInductive, PTL DEF Spec, NeverOverwrites

-------------------------------------------------------------------------------
\* A worker has a status exactly when it has reported, and exit code 0 is
\* given when every worker reported a written output.
ExitInv ==
    /\ \A w \in Workers : pc[w] = "reported" <=> status[w] # "none"
    /\ exit = "valid" => \A w \in Workers : status[w] = "no_action"

\* A status nobody has is counted 0 times, and conversely.
LEMMA NobodyCounted ==
    ASSUME NEW s, Count(s) = 0, NEW w \in Workers
    PROVE  status[w] # s
<1>1. IsFiniteSet({v \in Workers : status[v] = s})
    BY FS_Subset
<1>2. {v \in Workers : status[v] = s} = {}
    BY <1>1, FS_EmptySet DEF Count
<1> QED
    BY <1>2

\* The counters of RepairBatchSummary are numbers.
LEMMA CountNat == ASSUME NEW s PROVE Count(s) \in Nat
<1>1. IsFiniteSet({v \in Workers : status[v] = s})
    BY FS_Subset
<1> QED
    BY <1>1, FS_CardinalityType DEF Count

\* No exit code before the reports are in.
LEMMA InitExit == Init => ExitInv
BY DEF Init, ExitInv

\* Only Exit sets the exit code, and it counts what the workers reported.
LEMMA NextExit == RepairInv /\ ExitInv /\ [Next]_vars => ExitInv'
<1> SUFFICES ASSUME RepairInv, ExitInv, [Next]_vars PROVE ExitInv'
    OBVIOUS
<1>1. ASSUME NEW w \in Workers, WorkerStep(w) PROVE ExitInv'
    <2>0. pc[w] # "reported" /\ exit' = exit
        BY <1>1 DEF WorkerStep, Start, OpenSource, CopyFirstHalf, CopySecondHalf,
                    Validate, Persist, Fails
    <2>1. ASSUME NEW s \in {"no_action", "refused", "failed"}, Report(w, s)
          PROVE  ExitInv'
        BY <2>0, <2>1 DEF RepairInv, TypeOK, Report, ExitInv
    <2>2. ASSUME NEW label \in Running, Goto(w, label) PROVE ExitInv'
        BY <2>0, <2>2 DEF RepairInv, TypeOK, Goto, ExitInv
    <2> QED
        BY <1>1, <2>1, <2>2 DEF WorkerStep, Start, OpenSource, CopyFirstHalf,
            CopySecondHalf, Validate, Persist, Fails
<1>2. CASE \E p \in Paths, f \in Files : EnvWrite(p, f)
    BY <1>2 DEF EnvWrite, ExitInv
<1>3. CASE Exit
    <2>1. UNCHANGED <<pc, status>>
        BY <1>3 DEF Exit
    <2>2. ASSUME exit' = "valid", NEW w \in Workers PROVE status[w] = "no_action"
        <3>1. repair_exit = "valid"
            BY <1>3, <2>2 DEF Exit
        <3>2. Count("failed") = 0 /\ Count("refused") = 0
            BY <3>1, CountNat DEF repair_exit
        <3>3. status[w] # "failed" /\ status[w] # "refused"
            BY <3>2, NobodyCounted
        <3>4. status[w] # "none"
            BY <1>3 DEF Exit, AllReported, ExitInv
        <3> QED
            BY <3>3, <3>4 DEF RepairInv, TypeOK
    <2> QED
        BY <2>1, <2>2 DEF ExitInv
<1>4. CASE Crash \/ UNCHANGED vars
    BY <1>4 DEF Crash, vars, ExitInv
<1> QED
    BY <1>1, <1>2, <1>3, <1>4 DEF Next, Finished

\* Exit code 0 means an output of its own for every input.
THEOREM ExitZeroHolds == Spec => []ExitZeroMeansAllWritten
<1>1. RepairInv /\ ExitInv => ExitZeroMeansAllWritten
    BY DEF RepairInv, ExitInv, Published, Unique, ExitZeroMeansAllWritten
<1>2. Spec => []ExitInv
    BY InitExit, NextExit, RepairInductive, PTL DEF Spec
<1> QED
    BY <1>1, <1>2, RepairInductive, PTL
===============================================================================
