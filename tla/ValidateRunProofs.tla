-------------------------- MODULE ValidateRunProofs --------------------------
(***************************************************************************)
(* Proofs about a batch validation for any number of inputs, jobs and      *)
(* profiles: what stands behind the status of an input, and that the batch, *)
(* its summary and the exit code tell the truth about all of them.         *)
(***************************************************************************)
EXTENDS ValidateRun, FiniteSetTheorems, TLAPS

JobTypes ==
    /\ pc \in [Inputs -> {"queued", "returned"} \cup Busy]
    /\ left \in [Inputs -> Nat]
    /\ results \in [Inputs -> SUBSET ProfileResults]
    /\ policyResult \in [Inputs -> {"none", "passed", "failed"}]
    /\ status \in [Inputs -> Statuses \cup {"none", "error"}]

\* What is known of an input at each step of validate_path: nothing before the
\* profiles, and a result as soon as no profile is left.
JobAt(i) ==
    /\ pc[i] # "returned" => status[i] = "none"
    /\ pc[i] \in {"queued", "parse", "flavour"} => results[i] = {}
    /\ pc[i] = "profiles" => left[i] > 0 \/ results[i] # {}
    /\ pc[i] = "policy" => left[i] = 0 /\ results[i] # {}
    /\ status[i] = "Valid" =>
          /\ results[i] = {"compliant"} /\ left[i] = 0
          /\ hasPolicy => policyResult[i] = "passed"
    /\ Has(i, "unsupported") => status[i] \in {"none", "error", "Incomplete"}

JobInv == JobTypes /\ \A i \in Inputs : JobAt(i)

\* The status of a set of results, which is not empty when there is no profile
\* left.
LEMMA StatusFact ==
    ASSUME NEW i, results[i] \in SUBSET ProfileResults, results[i] # {}
    PROVE  /\ ProfileStatus(i) \in {"Valid", "Invalid", "Incomplete"}
           /\ ProfileStatus(i) = "Valid" => results[i] = {"compliant"}
           /\ Has(i, "unsupported") => ProfileStatus(i) = "Incomplete"
BY DEF ProfileStatus, ProfileResults, Has

\* A step of the job of one input keeps what is known of that input.
LEMMA OwnStep ==
    ASSUME JobInv, NEW i \in Inputs, Work(i)
    PROVE  JobTypes' /\ JobAt(i)'
<1> USE DEF JobInv, JobTypes, JobAt, Has, At, Goto, shared, args
<1>0. Inputs' = Inputs /\ hasPolicy' = hasPolicy
    BY DEF Work, Take, Parse, SelectProfiles, ValidateProfile, ProfilesDone, EvaluatePolicy,
           Fails, Inputs
<1> USE DEF Busy, Statuses
<1>1. CASE Take(i)
    BY <1>0, <1>1 DEF Take
<1>2. CASE Parse(i)
    BY <1>0, <1>2 DEF Parse, Return
<1>3. CASE SelectProfiles(i)
    <2>1. CASE Return(i, "Incomplete") /\ UNCHANGED left
        BY <1>0, <1>3, <2>1 DEF SelectProfiles, Return
    <2>2. CASE Goto(i, "profiles")
        <3>1. PICK n \in 1 .. MaxProfiles : left' = [left EXCEPT ![i] = n]
            BY <1>3, <2>2 DEF SelectProfiles, Return
        <3>2. n \in Nat /\ n > 0
            BY RunAssumption
        <3> QED BY <1>0, <1>3, <2>2, <3>1, <3>2 DEF SelectProfiles, Return
    <2> QED BY <1>3, <2>1, <2>2 DEF SelectProfiles
<1>4. CASE ValidateProfile(i)
    <2>1. PICK r \in ProfileResults : results' = [results EXCEPT ![i] = @ \cup {r}]
        BY <1>4 DEF ValidateProfile
    <2>2. left' = [left EXCEPT ![i] = @ - 1] /\ left[i] - 1 \in Nat
        BY <1>4 DEF ValidateProfile
    <2> QED BY <1>0, <1>4, <2>1, <2>2 DEF ValidateProfile
<1>5. CASE ProfilesDone(i)
    <2>1. ~hasPolicy => Return(i, ProfileStatus(i))
        BY <1>5 DEF ProfilesDone
    <2>2. /\ pc[i] = "profiles" /\ left[i] = 0 /\ results[i] # {}
          /\ UNCHANGED <<left, results, policyResult>>
        BY <1>5 DEF ProfilesDone
    <2>3. CASE hasPolicy
        BY <1>0, <1>5, <2>2, <2>3 DEF ProfilesDone
    <2>4. CASE ~hasPolicy
        <3> DEFINE s == ProfileStatus(i)
        <3>1. /\ s \in {"Valid", "Invalid", "Incomplete"} /\ (s = "Valid" => results[i] = {"compliant"})
              /\ ("unsupported" \in results[i] => s = "Incomplete")
            BY <2>2, StatusFact
        <3>2. pc' = [pc EXCEPT ![i] = "returned"] /\ status' = [status EXCEPT ![i] = s]
            BY <2>1, <2>4 DEF Return
        <3> HIDE DEF s
        <3> QED BY <1>0, <2>2, <2>4, <3>1, <3>2
    <2> QED BY <2>3, <2>4
<1>6. CASE EvaluatePolicy(i)
    <2>1. PICK p \in {"passed", "failed"} :
              /\ policyResult' = [policyResult EXCEPT ![i] = p]
              /\ Return(i, IF p = "failed" /\ ProfileStatus(i) = "Valid" THEN "Invalid"
                           ELSE ProfileStatus(i))
        BY <1>6 DEF EvaluatePolicy
    <2>2. pc[i] = "policy" /\ left[i] = 0 /\ results[i] # {} /\ UNCHANGED <<left, results>>
        BY <1>6 DEF EvaluatePolicy
    <2> DEFINE s == IF p = "failed" /\ ProfileStatus(i) = "Valid" THEN "Invalid" ELSE ProfileStatus(i)
    <2>3. /\ s \in {"Valid", "Invalid", "Incomplete"}
          /\ s = "Valid" => results[i] = {"compliant"} /\ p = "passed"
          /\ "unsupported" \in results[i] => s = "Incomplete"
        BY <2>2, StatusFact
    <2>4. pc' = [pc EXCEPT ![i] = "returned"] /\ status' = [status EXCEPT ![i] = s]
        BY <2>1 DEF Return
    <2> HIDE DEF s
    <2>5. policyResult' = [policyResult EXCEPT ![i] = p]
        BY <2>1
    <2> QED BY <1>0, <2>2, <2>3, <2>4, <2>5
<1>7. CASE Fails(i)
    BY <1>0, <1>7 DEF Fails, Return
<1> QED BY <1>1, <1>2, <1>3, <1>4, <1>5, <1>6, <1>7 DEF Work

\* It touches no other input.
LEMMA OtherStep ==
    ASSUME JobInv, NEW i \in Inputs, NEW j \in Inputs, i # j, Work(i)
    PROVE  /\ pc'[j] = pc[j] /\ left'[j] = left[j] /\ results'[j] = results[j]
           /\ policyResult'[j] = policyResult[j] /\ status'[j] = status[j]
<1> USE DEF JobInv, JobTypes, At, Goto, Return
<1>1. CASE Take(i) \/ Parse(i) \/ SelectProfiles(i) \/ Fails(i)
    BY <1>1 DEF Take, Parse, SelectProfiles, Fails
<1>2. CASE ValidateProfile(i) \/ ProfilesDone(i) \/ EvaluatePolicy(i)
    BY <1>2 DEF ValidateProfile, ProfilesDone, EvaluatePolicy
<1> QED BY <1>1, <1>2 DEF Work

\* Every step of the batch keeps what is known of every input.
LEMMA JobStep == ASSUME JobInv, [Next]_vars PROVE JobInv'
<1>1. CASE \E i \in Inputs : Work(i)
    <2>1. PICK i \in Inputs : Work(i)
        BY <1>1
    <2>2. Inputs' = Inputs /\ hasPolicy' = hasPolicy
        BY <2>1 DEF Work, Take, Parse, SelectProfiles, ValidateProfile, ProfilesDone,
                    EvaluatePolicy, Fails, Inputs, shared, args
    <2>3. JobTypes' /\ JobAt(i)'
        BY <2>1, OwnStep
    <2>4. ASSUME NEW j \in Inputs, j # i PROVE JobAt(j)'
        <3>1. /\ pc'[j] = pc[j] /\ left'[j] = left[j] /\ results'[j] = results[j]
              /\ policyResult'[j] = policyResult[j] /\ status'[j] = status[j]
            BY <2>1, <2>4, OtherStep
        <3>2. JobAt(j)
            BY DEF JobInv
        <3> QED BY <2>2, <3>1, <3>2 DEF JobAt, Has
    <2>5. \A j \in Inputs' : JobAt(j)'
        BY <2>2, <2>3, <2>4
    <2> QED BY <2>3, <2>5 DEF JobInv
<1>2. CASE UNCHANGED <<args, jobVars>>
    BY <1>2 DEF JobInv, JobTypes, JobAt, Has, Inputs, args, jobVars
<1>3. CASE Start \/ Collect \/ Write \/ Done \/ UNCHANGED vars
    BY <1>2, <1>3 DEF Start, Collect, Write, Done, vars
<1> QED BY <1>1, <1>3 DEF Next

\* Valid is said of an input only after at least one profile was validated and
\* all were compliant, and the policy passed if there is one; an unsupported
\* rule is never hidden behind Invalid. So for any number of inputs, jobs and
\* profiles, in every interleaving, with failures and panics at any step.
THEOREM ValidMeansCheckedAlways == Spec => []ValidMeansChecked
<1>1. ASSUME Init PROVE JobInv
    BY <1>1 DEF Init, JobInv, JobTypes, JobAt, Has, Busy, Statuses
<1>2. JobInv => ValidMeansChecked
    BY DEF JobInv, JobAt, ValidMeansChecked
<1> QED BY <1>1, <1>2, JobStep, PTL DEF Spec

-------------------------------------------------------------------------------
\* The reports are those of the results taken so far, in order and without a
\* gap; nothing is taken before all jobs have returned.
BatchTypes ==
    /\ N \in Nat \ {0} /\ taken \in 0 .. N /\ internal_errors \in Nat
    /\ phase \in {"start", "working", "exit"}
    /\ reports \in Seq(Inputs)

ReportsInOrder ==
    /\ \A k \in DOMAIN reports : reports[k] <= taken
    /\ \A k, m \in DOMAIN reports : k < m => reports[k] < reports[m]

ReportsComplete ==
    /\ Len(reports) + internal_errors = taken
    /\ \A i \in 1 .. taken : (\E k \in DOMAIN reports : reports[k] = i) <=> status[i] # "error"
    /\ internal_errors > 0 <=> \E i \in 1 .. taken : status[i] = "error"

BatchInv ==
    /\ BatchTypes /\ ReportsInOrder /\ ReportsComplete
    /\ \A i \in Inputs : pc[i] = "returned" => status[i] # "none"
    /\ taken > 0 => AllReturned

\* What was written was written from the whole batch.
ExitInv ==
    /\ phase # "exit" => output = "none" /\ exit = "none"
    /\ phase = "exit" /\ output = "none" => exit \in {"incomplete", "usage", "internal"}
    /\ phase = "exit" /\ output # "none" => taken = N /\ exit = WorstExit

\* A run starts with an empty batch.
LEMMA InitBatch == Init => BatchInv /\ ExitInv
<1> SUFFICES ASSUME Init PROVE BatchInv /\ ExitInv
    OBVIOUS
<1>1. N \in Nat \ {0} /\ \A i \in Inputs : pc[i] = "queued"
    BY RunAssumption DEF Init
<1>2. reports \in Seq(Inputs) /\ DOMAIN reports = {} /\ Len(reports) = 0
    BY DEF Init
<1> QED
    BY <1>1, <1>2 DEF Init, BatchInv, BatchTypes, ReportsInOrder, ReportsComplete, ExitInv

\* A job that works has not returned, and the batch takes nothing meanwhile.
LEMMA WorkBatch ==
    ASSUME JobInv, BatchInv, ExitInv, NEW i \in Inputs, Work(i)
    PROVE  BatchInv' /\ ExitInv'
<1>1. /\ pc[i] # "returned" /\ phase = "working"
      /\ UNCHANGED <<args, phase, taken, reports, internal_errors, output, exit>>
    BY DEF Work, Take, Parse, SelectProfiles, ValidateProfile, ProfilesDone, EvaluatePolicy,
        Fails, At, Busy, shared
<1>2. ~AllReturned /\ taken = 0 /\ Inputs' = Inputs
    BY <1>1 DEF AllReturned, BatchInv, BatchTypes, Inputs, args
<1>3. reports = <<>> /\ internal_errors = 0
    BY <1>2 DEF BatchInv, BatchTypes, ReportsComplete
<1>4. pc'[i] = "returned" => status'[i] # "none"
    <2>1. CASE Take(i) \/ ValidateProfile(i)
        BY <1>1, <2>1 DEF Take, ValidateProfile, Goto, JobInv, JobTypes
    <2>2. CASE Parse(i) \/ SelectProfiles(i) \/ Fails(i)
        BY <2>2 DEF Parse, SelectProfiles, Fails, Goto, Return, JobInv, JobTypes
    <2>3. ProfileStatus(i) # "none"
        BY DEF ProfileStatus
    <2>4. CASE ProfilesDone(i)
        BY <2>3, <2>4 DEF ProfilesDone, Goto, Return, JobInv, JobTypes
    <2>5. CASE EvaluatePolicy(i)
        BY <2>3, <2>5 DEF EvaluatePolicy, Goto, Return, JobInv, JobTypes
    <2> QED
        BY <2>1, <2>2, <2>4, <2>5 DEF Work
<1>5. \A j \in Inputs : pc'[j] = "returned" => status'[j] # "none"
    BY <1>4, OtherStep DEF BatchInv
<1>6. BatchInv'
    BY <1>1, <1>2, <1>3, <1>5 DEF BatchInv, BatchTypes, ReportsInOrder, ReportsComplete, args
<1>7. ExitInv'
    BY <1>1 DEF ExitInv
<1> QED
    BY <1>6, <1>7

\* The next result becomes the last report or one more error.
LEMMA CollectBatch ==
    ASSUME JobInv, BatchInv, ExitInv, Collect
    PROVE  BatchInv' /\ ExitInv'
<1> USE DEF BatchInv, BatchTypes
<1> DEFINE t == taken + 1
<1>1. /\ phase = "working" /\ AllReturned /\ taken < N /\ taken' = t
      /\ UNCHANGED <<N, phase, pc, status, output, exit>> /\ Inputs' = Inputs
    BY DEF Collect, args, jobVars, Inputs
<1>2. t \in Inputs /\ t \in Nat /\ t > taken /\ 1 .. t = (1 .. taken) \cup {t}
      /\ AllReturned' /\ DOMAIN reports = 1 .. Len(reports) /\ Len(reports) \in Nat
    BY <1>1 DEF Inputs, AllReturned
<1>3. ExitInv' /\ t \in 0 .. N
    BY <1>1, <1>2 DEF ExitInv, Inputs
<1>4. CASE status[t] # "error"
    <2>1. reports' = Append(reports, t) /\ internal_errors' = internal_errors
        BY <1>1, <1>4 DEF Collect, IsReport
    <2>2. /\ reports' \in Seq(Inputs) /\ Len(reports') = Len(reports) + 1
          /\ DOMAIN reports' = 1 .. Len(reports) + 1 /\ reports'[Len(reports) + 1] = t
          /\ \A k \in DOMAIN reports : reports'[k] = reports[k] /\ reports[k] \in Nat
        BY <1>2, <2>1 DEF Inputs
    <2> HIDE DEF t
    <2>3. ReportsInOrder'
        BY <1>1, <1>2, <2>2 DEF ReportsInOrder
    <2>4. ASSUME NEW i \in 1 .. t
          PROVE  (\E k \in DOMAIN reports' : reports'[k] = i) <=> status[i] # "error"
        <3>1. CASE i = t
            BY <1>2, <1>4, <2>2, <3>1
        <3>2. CASE i \in 1 .. taken
            <4>1. i # t
                BY <1>2, <3>2
            <4>2. \A k \in DOMAIN reports' :
                     reports'[k] = i => k \in DOMAIN reports /\ reports[k] = i
                BY <1>2, <2>2, <4>1
            <4>3. \A k \in DOMAIN reports : k \in DOMAIN reports' /\ reports'[k] = reports[k]
                BY <1>2, <2>2
            <4> QED
                BY <3>2, <4>2, <4>3 DEF ReportsComplete
        <3> QED
            BY <1>2, <3>1, <3>2
    <2>5. (\E i \in 1 .. t : status[i] = "error") <=> \E i \in 1 .. taken : status[i] = "error"
        BY <1>2, <1>4
    <2>6. Len(reports') + internal_errors' = t
        BY <2>1, <2>2 DEF ReportsComplete, t
    <2>7. ReportsComplete'
        BY <1>1, <2>1, <2>4, <2>5, <2>6 DEF ReportsComplete
    <2>8. BatchTypes'
        BY <1>1, <1>3, <2>1, <2>2
    <2> QED
        BY <1>1, <1>2, <1>3, <2>3, <2>7, <2>8
<1>5. CASE status[t] = "error"
    <2>1. reports' = reports /\ internal_errors' = internal_errors + 1
        BY <1>1, <1>5 DEF Collect, IsReport
    <2>2. \A k \in DOMAIN reports : reports[k] \in Nat
        BY DEF Inputs
    <2>3. ReportsInOrder'
        BY <1>1, <1>2, <2>1, <2>2 DEF ReportsInOrder
    <2>4. Len(reports) + internal_errors' = t
        BY <1>2, <2>1 DEF ReportsComplete
    <2> HIDE DEF t
    <2>5. ASSUME NEW i \in 1 .. t
          PROVE  (\E k \in DOMAIN reports : reports[k] = i) <=> status[i] # "error"
        <3>1. CASE i = t
            BY <1>2, <1>5, <2>2, <3>1 DEF ReportsInOrder
        <3>2. CASE i \in 1 .. taken
            BY <3>2 DEF ReportsComplete
        <3> QED
            BY <1>2, <3>1, <3>2
    <2>6. ReportsComplete'
        BY <1>1, <1>2, <1>5, <2>1, <2>4, <2>5 DEF ReportsComplete
    <2>7. BatchTypes'
        BY <1>1, <1>3, <2>1
    <2> QED
        BY <1>1, <1>2, <1>3, <2>3, <2>6, <2>7
<1> QED
    BY <1>4, <1>5

\* Starting and writing change no report.
LEMMA OtherBatch ==
    ASSUME BatchInv, ExitInv, Start \/ Write \/ UNCHANGED vars
    PROVE  BatchInv' /\ ExitInv'
<1>1. /\ UNCHANGED <<args, jobVars, taken, reports, internal_errors>>
      /\ phase' \in {"start", "working", "exit"}
    BY DEF Start, Write, vars, BatchInv, BatchTypes
<1>2. Inputs' = Inputs /\ WorstExit' = WorstExit
    BY <1>1 DEF Inputs, WorstExit, Exits, args, jobVars
<1>3. BatchInv'
    BY <1>1, <1>2 DEF BatchInv, BatchTypes, ReportsInOrder, ReportsComplete, AllReturned, args,
        jobVars
<1>4. ASSUME Start PROVE ExitInv'
    BY <1>4 DEF Start, ExitInv
<1>5. ASSUME Write PROVE ExitInv'
    BY <1>1, <1>2, <1>5 DEF Write, ExitInv, args
<1>6. ASSUME UNCHANGED vars PROVE ExitInv'
    BY <1>1, <1>2, <1>6 DEF vars, ExitInv, args
<1> QED
    BY <1>3, <1>4, <1>5, <1>6

\* Every step keeps the batch what it should be.
LEMMA NextBatch == JobInv /\ BatchInv /\ ExitInv /\ [Next]_vars => BatchInv' /\ ExitInv'
BY WorkBatch, CollectBatch, OtherBatch DEF Next, Done

\* The inductive invariant of a batch.
THEOREM BatchInductive == Spec => [](JobInv /\ BatchInv /\ ExitInv)
<1>1. Init => JobInv
    BY DEF Init, JobInv, JobTypes, JobAt, Has, Busy, Statuses
<1>2. Init => JobInv /\ BatchInv /\ ExitInv
    BY <1>1, InitBatch
<1>3. JobInv /\ BatchInv /\ ExitInv /\ [Next]_vars => (JobInv /\ BatchInv /\ ExitInv)'
    BY JobStep, NextBatch
<1> QED
    BY <1>2, <1>3, PTL DEF Spec

\* The reports stand in the order of the inputs, and every input is a report or
\* an internal error, for any number of inputs and workers.
THEOREM InputOrderKeptAlways == Spec => []InputOrderKept
<1>1. BatchInv => InputOrderKept
    BY DEF BatchInv, BatchTypes, ReportsInOrder, ReportsComplete, InputOrderKept, Inputs
<1> QED
    BY <1>1, BatchInductive, PTL

-------------------------------------------------------------------------------
\* Each report has one of the five statuses when the batch is complete.
Settled ==
    /\ taken = N
    /\ \A k \in DOMAIN reports : status[reports[k]] \in Statuses

\* A batch that has taken all results over is settled.
LEMMA AllSettled == JobInv /\ BatchInv /\ taken = N => Settled
<1> SUFFICES ASSUME JobInv, BatchInv, taken = N PROVE Settled
    OBVIOUS
<1>1. AllReturned
    BY DEF BatchInv, BatchTypes
<1>2. ASSUME NEW k \in DOMAIN reports PROVE status[reports[k]] \in Statuses
    <2>1. reports[k] \in Inputs
        BY DEF BatchInv, BatchTypes
    <2>2. status[reports[k]] # "error"
        BY <2>1 DEF BatchInv, ReportsComplete, Inputs
    <2>3. status[reports[k]] # "none"
        BY <1>1, <2>1 DEF BatchInv, AllReturned
    <2> QED
        BY <2>1, <2>2, <2>3 DEF JobInv, JobTypes
<1> QED
    BY <1>2 DEF Settled

\* The exit of each status, and its rank.
LEMMA ExitFacts ==
    /\ from_status["Valid"] = "valid" /\ from_status["Invalid"] = "invalid"
    /\ from_status["ParseFailed"] = "parse_failed" /\ from_status["Encrypted"] = "encrypted"
    /\ from_status["Incomplete"] = "incomplete"
    /\ rank["valid"] = 0 /\ rank["invalid"] = 1 /\ rank["parse_failed"] = 2
    /\ rank["encrypted"] = 3 /\ rank["incomplete"] = 4 /\ rank["internal"] = 70
BY DEF from_status, rank

ExitNames == {"valid", "invalid", "parse_failed", "encrypted", "incomplete", "internal"}

\* The exits of a settled batch, by what is in it.
LEMMA ExitsOf ==
    ASSUME Settled
    PROVE  /\ Exits \subseteq ExitNames /\ "valid" \in Exits
           /\ "internal" \in Exits <=> internal_errors > 0
           /\ \A e \in ExitNames \ {"valid", "internal"} :
                 e \in Exits <=> \E k \in DOMAIN reports : from_status[status[reports[k]]] = e
<1>1. \A k \in DOMAIN reports : from_status[status[reports[k]]] \in ExitNames \ {"internal"}
    BY ExitFacts DEF Settled, Statuses, ExitNames
<1> QED
    BY <1>1 DEF Exits, ExitNames

\* WorstExit is the exit of highest rank.
LEMMA WorstFact ==
    ASSUME Settled
    PROVE  /\ WorstExit \in Exits
           /\ \A e \in Exits : rank[e] <= rank[WorstExit]
<1>1. Exits \subseteq ExitNames /\ "valid" \in Exits
    BY ExitsOf
<1>2. \E e \in Exits : \A f \in Exits : rank[f] <= rank[e]
    <2>1. CASE "internal" \in Exits
        BY <1>1, <2>1, ExitFacts DEF ExitNames
    <2>2. CASE "internal" \notin Exits /\ "incomplete" \in Exits
        BY <1>1, <2>2, ExitFacts DEF ExitNames
    <2>3. CASE {"internal", "incomplete"} \cap Exits = {} /\ "encrypted" \in Exits
        BY <1>1, <2>3, ExitFacts DEF ExitNames
    <2>4. CASE {"internal", "incomplete", "encrypted"} \cap Exits = {} /\ "parse_failed" \in Exits
        BY <1>1, <2>4, ExitFacts DEF ExitNames
    <2>5. CASE {"internal", "incomplete", "encrypted", "parse_failed"} \cap Exits = {}
        BY <1>1, <2>5, ExitFacts DEF ExitNames
    <2> QED
        BY <2>1, <2>2, <2>3, <2>4, <2>5
<1> QED
    BY <1>2 DEF WorstExit

\* The first n positions are n.
LEMMA CardinalityUpTo ==
    ASSUME NEW n \in Nat
    PROVE  IsFiniteSet(1 .. n) /\ Cardinality(1 .. n) = n
BY FS_Interval

\* The sizes of sets with nothing in common add up.
LEMMA CardinalityOfDisjoint ==
    ASSUME NEW S, NEW T, IsFiniteSet(S), IsFiniteSet(T), S \cap T = {}
    PROVE  /\ IsFiniteSet(S \cup T)
           /\ Cardinality(S \cup T) = Cardinality(S) + Cardinality(T)
<1>1. /\ IsFiniteSet(S \cup T)
      /\ Cardinality(S \cup T) = Cardinality(S) + Cardinality(T) - Cardinality(S \cap T)
    BY FS_Union, Zenon
<1>2. Cardinality(S \cap T) = 0
    BY FS_EmptySet
<1> QED
    BY <1>1, <1>2, FS_CardinalityType

\* The reports with status s, and how many there are.
Those(s) == {k \in DOMAIN reports : status[reports[k]] = s}

LEMMA CountFact ==
    ASSUME BatchInv, NEW s
    PROVE  /\ IsFiniteSet(Those(s)) /\ Count(s) = Cardinality(Those(s)) /\ Count(s) \in Nat
           /\ Count(s) > 0 <=> \E k \in DOMAIN reports : status[reports[k]] = s
<1>1. DOMAIN reports = 1 .. Len(reports) /\ Len(reports) \in Nat
    BY DEF BatchInv, BatchTypes
<1>2. IsFiniteSet(Those(s))
    <2>1. IsFiniteSet(1 .. Len(reports)) /\ Those(s) \subseteq 1 .. Len(reports)
        BY <1>1, CardinalityUpTo DEF Those
    <2> QED
        BY <2>1, FS_Subset
<1>3. Count(s) = Cardinality(Those(s))
    BY DEF Count, Those
<1>4. Cardinality(Those(s)) \in Nat /\ (Cardinality(Those(s)) = 0 <=> Those(s) = {})
    BY <1>2, FS_CardinalityType, FS_EmptySet
<1> QED
    BY <1>2, <1>3, <1>4 DEF Those

\* The five counters add up to the reports.
LEMMA CountsAddUp ==
    ASSUME BatchInv, Settled
    PROVE  Count("Valid") + Count("Invalid") + Count("ParseFailed") + Count("Encrypted")
               + Count("Incomplete") = Len(reports)
<1> DEFINE V == Those("Valid")       I == Those("Invalid")    P == Those("ParseFailed")
           E == Those("Encrypted")   X == Those("Incomplete")
<1>1. /\ IsFiniteSet(V) /\ IsFiniteSet(I) /\ IsFiniteSet(P) /\ IsFiniteSet(E) /\ IsFiniteSet(X)
      /\ Cardinality(V) \in Nat /\ Cardinality(I) \in Nat /\ Cardinality(P) \in Nat
      /\ Cardinality(E) \in Nat /\ Cardinality(X) \in Nat
    BY CountFact
<1>2. V \cup I \cup P \cup E \cup X = 1 .. Len(reports)
    BY DEF Settled, Statuses, Those, BatchInv, BatchTypes
<1>3. /\ V \cap I = {} /\ (V \cup I) \cap P = {} /\ (V \cup I \cup P) \cap E = {}
      /\ (V \cup I \cup P \cup E) \cap X = {}
    BY DEF Those
<1>4. Len(reports) \in Nat
    BY DEF BatchInv, BatchTypes
<1> HIDE DEF V, I, P, E, X
<1>5. IsFiniteSet(V \cup I) /\ Cardinality(V \cup I) = Cardinality(V) + Cardinality(I)
    BY ONLY <1>1, <1>3, CardinalityOfDisjoint
<1>6. /\ IsFiniteSet(V \cup I \cup P)
      /\ Cardinality(V \cup I \cup P) = Cardinality(V) + Cardinality(I) + Cardinality(P)
    BY ONLY <1>1, <1>3, <1>5, CardinalityOfDisjoint
<1>7. /\ IsFiniteSet(V \cup I \cup P \cup E)
      /\ Cardinality(V \cup I \cup P \cup E) =
            Cardinality(V) + Cardinality(I) + Cardinality(P) + Cardinality(E)
    BY ONLY <1>1, <1>3, <1>6, CardinalityOfDisjoint
<1>8. Cardinality(V \cup I \cup P \cup E \cup X) =
            Cardinality(V) + Cardinality(I) + Cardinality(P) + Cardinality(E) + Cardinality(X)
    BY ONLY <1>1, <1>3, <1>7, CardinalityOfDisjoint
<1>9. Cardinality(1 .. Len(reports)) = Len(reports)
    BY <1>4, CardinalityUpTo
<1>10. /\ Count("Valid") = Cardinality(V) /\ Count("Invalid") = Cardinality(I)
       /\ Count("ParseFailed") = Cardinality(P) /\ Count("Encrypted") = Cardinality(E)
       /\ Count("Incomplete") = Cardinality(X)
    BY CountFact DEF V, I, P, E, X
<1> QED
    BY <1>2, <1>8, <1>9, <1>10

\* The exit code read off the batch, status by status.
LEMMA ExitMeaning ==
    ASSUME BatchInv, Settled
    PROVE  LET processing == internal_errors > 0 \/ \E k \in DOMAIN reports :
                                 status[reports[k]] \in {"ParseFailed", "Encrypted", "Incomplete"}
               invalid == \E k \in DOMAIN reports : status[reports[k]] = "Invalid"
           IN  /\ WorstExit = "valid" <=> ~processing /\ ~invalid
               /\ WorstExit = "invalid" <=> ~processing /\ invalid
<1> DEFINE Seen(s) == \E k \in DOMAIN reports : status[reports[k]] = s
<1>1. /\ "invalid" \in Exits <=> Seen("Invalid")
      /\ "parse_failed" \in Exits <=> Seen("ParseFailed")
      /\ "encrypted" \in Exits <=> Seen("Encrypted")
      /\ "incomplete" \in Exits <=> Seen("Incomplete")
      /\ "internal" \in Exits <=> internal_errors > 0
      /\ Exits \subseteq ExitNames /\ "valid" \in Exits
    <2>1. \A k \in DOMAIN reports : status[reports[k]] \in Statuses
        BY DEF Settled
    <2> QED
        BY <2>1, ExitsOf, ExitFacts DEF ExitNames, Statuses
<1>2. (\E k \in DOMAIN reports : status[reports[k]] \in {"ParseFailed", "Encrypted", "Incomplete"})
        <=> Seen("ParseFailed") \/ Seen("Encrypted") \/ Seen("Incomplete")
    OBVIOUS
<1> HIDE DEF Seen
<1>3. WorstExit \in Exits /\ \A e \in Exits : rank[e] <= rank[WorstExit]
    BY WorstFact
<1>4. \A e \in ExitNames : rank[e] <= 0 => e = "valid"
    BY ExitFacts DEF ExitNames
<1>5. \A e \in ExitNames : rank[e] <= 1 => e \in {"valid", "invalid"}
    BY ExitFacts DEF ExitNames
<1>6. WorstExit = "valid" <=> Exits \subseteq {"valid"}
    BY <1>1, <1>3, <1>4, ExitFacts
<1>7. WorstExit = "invalid" <=> "invalid" \in Exits /\ Exits \subseteq {"valid", "invalid"}
    <2>1. ASSUME WorstExit = "invalid"
          PROVE  "invalid" \in Exits /\ Exits \subseteq {"valid", "invalid"}
        BY <1>1, <1>3, <1>5, <2>1, ExitFacts
    <2>2. ASSUME "invalid" \in Exits, Exits \subseteq {"valid", "invalid"}
          PROVE  WorstExit = "invalid"
        <3>1. WorstExit # "valid"
            BY <1>6, <2>2
        <3> QED
            BY <1>3, <2>2, <3>1
    <2> QED
        BY <2>1, <2>2
<1>8. Exits \subseteq {"valid"} <=> /\ ~Seen("Invalid") /\ ~Seen("ParseFailed")
                                   /\ ~Seen("Encrypted") /\ ~Seen("Incomplete")
                                   /\ ~(internal_errors > 0)
    BY <1>1 DEF ExitNames
<1>9. Exits \subseteq {"valid", "invalid"} <=> /\ ~Seen("ParseFailed") /\ ~Seen("Encrypted")
                                              /\ ~Seen("Incomplete")
                                              /\ ~(internal_errors > 0)
    BY <1>1 DEF ExitNames
<1>10. Seen("Invalid") <=> \E k \in DOMAIN reports : status[reports[k]] = "Invalid"
    BY DEF Seen
<1> QED
    BY <1>1, <1>2, <1>6, <1>7, <1>8, <1>9, <1>10

\* Exit code 0 says that all inputs are valid, and only that.
LEMMA ZeroExact ==
    ASSUME JobInv, BatchInv, ExitInv
    PROVE  ExitZeroIffAllValid
<1>1. ASSUME phase = "exit", output # "none"
      PROVE  exit = "valid" <=> \A i \in Inputs : status[i] = "Valid"
    <2>1. taken = N /\ exit = WorstExit /\ Settled
        BY <1>1, AllSettled DEF ExitInv
    <2>2. exit = "valid" <=>
              internal_errors = 0 /\ \A k \in DOMAIN reports : status[reports[k]] = "Valid"
        <3>1. internal_errors \in Nat
            BY DEF BatchInv, BatchTypes
        <3> QED
            BY <2>1, <3>1, ExitMeaning DEF Settled, Statuses
    <2>3. /\ \A i \in Inputs : (\E k \in DOMAIN reports : reports[k] = i) <=> status[i] # "error"
          /\ internal_errors = 0 <=> \A i \in Inputs : status[i] # "error"
          /\ \A k \in DOMAIN reports : reports[k] \in Inputs
        <3>1. /\ Inputs = 1 .. taken /\ internal_errors \in Nat
              /\ reports \in Seq(Inputs) /\ ReportsComplete
            BY <2>1 DEF BatchInv, BatchTypes, Inputs
        <3>2. \A i \in Inputs : (\E k \in DOMAIN reports : reports[k] = i) <=> status[i] # "error"
            BY ONLY <3>1 DEF ReportsComplete
        <3>3. internal_errors = 0 <=> \A i \in Inputs : status[i] # "error"
            BY ONLY <3>1 DEF ReportsComplete
        <3>4. \A k \in DOMAIN reports : reports[k] \in Inputs
            BY <2>1 DEF BatchInv, BatchTypes
        <3> QED
            BY ONLY <3>2, <3>3, <3>4
    <2> QED
        BY <2>2, <2>3
<1>2. ASSUME phase = "exit", exit = "valid" PROVE output # "none"
    BY <1>2 DEF ExitInv
<1> QED
    BY <1>1, <1>2 DEF ExitZeroIffAllValid

\* The summary is a second fold over the same reports.
LEMMA SummaryExact ==
    ASSUME JobInv, BatchInv, ExitInv
    PROVE  SummaryAgreesWithExit
<1> SUFFICES ASSUME phase = "exit", output = "batch"
             PROVE  /\ (worst_exit_category = "Success") <=> (exit = "valid")
                    /\ (worst_exit_category = "ValidationFailed") <=> (exit = "invalid")
                    /\ total_files = N
                    /\ Count("Valid") + Count("Invalid") + Count("ParseFailed")
                         + Count("Encrypted") + Count("Incomplete") + internal_errors = N
    BY DEF SummaryAgreesWithExit
<1>1. taken = N /\ exit = WorstExit /\ Settled
    BY AllSettled DEF ExitInv
<1>2. Len(reports) + internal_errors = N
    BY <1>1 DEF BatchInv, ReportsComplete
<1>3. total_files = N
    BY <1>2 DEF total_files
<1>4. Count("Valid") + Count("Invalid") + Count("ParseFailed") + Count("Encrypted")
        + Count("Incomplete") + internal_errors = N
    BY <1>1, <1>2, CountsAddUp
<1>5. /\ Count("ParseFailed") > 0 \/ Count("Encrypted") > 0 \/ Count("Incomplete") > 0 <=>
             \E k \in DOMAIN reports :
                status[reports[k]] \in {"ParseFailed", "Encrypted", "Incomplete"}
      /\ Count("Invalid") > 0 <=> \E k \in DOMAIN reports : status[reports[k]] = "Invalid"
    BY CountFact
<1>6. /\ (worst_exit_category = "Success") <=> (exit = "valid")
      /\ (worst_exit_category = "ValidationFailed") <=> (exit = "invalid")
    BY <1>1, <1>5, ExitMeaning DEF worst_exit_category
<1> QED
    BY <1>3, <1>4, <1>6

\* Exit code 0 is given exactly when every input has a Valid report, and the
\* summary, a second fold of the same batch, says the same and adds up, for any
\* number of inputs and workers, with failures and panics at any step.
THEOREM VerdictsAgreeAlways == Spec => []VerdictsAgree
<1>1. JobInv /\ BatchInv /\ ExitInv => VerdictsAgree
    BY ZeroExact, SummaryExact DEF VerdictsAgree
<1> QED
    BY <1>1, BatchInductive, PTL
==============================================================================
