------------------------------ MODULE ValidateRun ------------------------------
(***************************************************************************)
(* `pdfv validate`: rayon workers run Validator::validate_path over the    *)
(* listed inputs, the results are collected in input order, folded into an *)
(* exit code and a batch summary, and written out.                         *)
(*                                                                         *)
(* What parsing, flavour detection, one profile and the policy say of an   *)
(* input is left open here; DocumentParser, Traversal and                  *)
(* FeatureExtraction model how they arrive at it.                          *)
(***************************************************************************)
EXTENDS Integers, Sequences, FiniteSets

CONSTANTS
    MaxInputs,          \* bound: inputs listed or discovered
    Jobs,               \* --jobs
    MaxProfiles,        \* bound: profiles selected for one input
    Recursive           \* --recursive, which forces a batch report

ASSUME RunAssumption ==
    /\ MaxInputs \in Nat \ {0} /\ Jobs \in Nat \ {0}
    /\ MaxProfiles \in Nat /\ Recursive \in BOOLEAN

VARIABLES
    N,                  \* number of inputs; input i is the i-th path
    hasPolicy,          \* a policy is configured
    phase,              \* "start", "working", "exit": where run_validate is
    pc,                 \* [Inputs -> step of validate_path]
    left,               \* [Inputs -> profiles still to validate]
    results,            \* [Inputs -> set of the profile results so far]
    policyResult,       \* [Inputs -> "none", "passed" or "failed"]
    status,             \* [Inputs -> ValidationStatus, "none" before]
    finished,           \* history: the inputs in the order they returned
    taken,              \* results the batch has taken over, in input order
    reports,            \* ValidationBatch.reports, by input
    internal_errors,    \* ValidationBatch.internal_errors
    output,             \* what was written: "none", "single" or "batch"
    exit                \* exit code, "none" while running

Inputs == 1 .. N

args == <<N, hasPolicy>>
jobVars == <<pc, left, results, policyResult, status, finished>>
vars == <<args, phase, jobVars, taken, reports, internal_errors, output, exit>>

ProfileResults == {"compliant", "failed", "unsupported"}
Busy == {"parse", "flavour", "profiles", "policy"}

Init ==
    /\ N \in 1 .. MaxInputs /\ hasPolicy \in BOOLEAN
    /\ phase = "start"
    /\ pc = [i \in Inputs |-> "queued"]
    /\ left = [i \in Inputs |-> 0]
    /\ results = [i \in Inputs |-> {}]
    /\ policyResult = [i \in Inputs |-> "none"]
    /\ status = [i \in Inputs |-> "none"]
    /\ finished = <<>>
    /\ taken = 0 /\ reports = <<>> /\ internal_errors = 0
    /\ output = "none" /\ exit = "none"

\* Options, profile selection, policy schema and discovery are all checked
\* before the first input is opened; exit_for_error picks the code.
Start ==
    /\ phase = "start"
    /\ \/ phase' = "working" /\ UNCHANGED exit
       \/ phase' = "exit" /\ exit' \in {"incomplete", "usage", "internal"}
    /\ UNCHANGED <<args, jobVars, taken, reports, internal_errors, output>>

-------------------------------------------------------------------------------
(* Validator::validate_path for input i                                     *)

At(i, label) == phase = "working" /\ pc[i] = label
Goto(i, label) == pc' = [pc EXCEPT ![i] = label]
shared == <<args, phase, taken, reports, internal_errors, output, exit>>

\* validate_path returns a report with status s, or "error".
Return(i, s) ==
    /\ Goto(i, "returned")
    /\ status' = [status EXCEPT ![i] = s]
    /\ finished' = Append(finished, i)

Take(i) ==
    /\ At(i, "queued") /\ Cardinality({j \in Inputs : pc[j] \in Busy}) < Jobs
    /\ Goto(i, "parse")
    /\ UNCHANGED <<shared, left, results, policyResult, status, finished>>

\* The file is opened and parsed.  A ParseError is a report; is_encrypted sends
\* the document past validation.
Parse(i) ==
    /\ At(i, "parse")
    /\ \/ Return(i, "ParseFailed")
       \/ Return(i, "Encrypted")
       \/ Goto(i, "flavour") /\ UNCHANGED <<status, finished>>
    /\ UNCHANGED <<shared, left, results, policyResult>>

\* Mutant of SelectProfiles: no profile is like every profile passing.
SelectProfilesOrNone(i) ==
    /\ At(i, "flavour")
    /\ \E n \in 0 .. MaxProfiles : left' = [left EXCEPT ![i] = n]
    /\ Goto(i, "profiles")
    /\ UNCHANGED <<shared, results, policyResult, status, finished>>

\* The detected, the default or the explicit profiles; none is Incomplete.
SelectProfiles(i) ==
    /\ At(i, "flavour")
    /\ \/ Return(i, "Incomplete") /\ UNCHANGED left
       \/ /\ \E n \in 1 .. MaxProfiles : left' = [left EXCEPT ![i] = n]
          /\ Goto(i, "profiles") /\ UNCHANGED <<status, finished>>
    /\ UNCHANGED <<shared, results, policyResult>>

ValidateProfile(i) ==
    /\ At(i, "profiles") /\ left[i] > 0
    /\ \E r \in ProfileResults : results' = [results EXCEPT ![i] = @ \cup {r}]
    /\ left' = [left EXCEPT ![i] = @ - 1]
    /\ UNCHANGED <<shared, pc, policyResult, status, finished>>

Has(i, r) == r \in results[i]

\* An unsupported rule outweighs a failed one.
ProfileStatus(i) ==
    IF Has(i, "unsupported") THEN "Incomplete"
    ELSE IF Has(i, "failed") THEN "Invalid" ELSE "Valid"

ProfilesDone(i) ==
    /\ At(i, "profiles") /\ left[i] = 0
    /\ IF hasPolicy THEN Goto(i, "policy") /\ UNCHANGED <<status, finished>>
       ELSE Return(i, ProfileStatus(i))
    /\ UNCHANGED <<shared, left, results, policyResult>>

\* Features are extracted and the policy evaluated: it turns Valid into
\* Invalid and leaves every other status.
EvaluatePolicy(i) ==
    /\ At(i, "policy")
    /\ \E p \in {"passed", "failed"} :
          /\ policyResult' = [policyResult EXCEPT ![i] = p]
          /\ Return(i, IF p = "failed" /\ ProfileStatus(i) = "Valid" THEN "Invalid"
                       ELSE ProfileStatus(i))
    /\ UNCHANGED <<shared, left, results>>

\* Mutant of Fails: the input of a worker that panicked is queued again.
FailsRequeues(i) ==
    /\ phase = "working" /\ pc[i] \in Busy
    /\ Goto(i, "queued")
    /\ left' = [left EXCEPT ![i] = 0] /\ results' = [results EXCEPT ![i] = {}]
    /\ UNCHANGED <<shared, policyResult, status, finished>>

\* An unreadable file, any other error of the facade, or a panic caught by catch_unwind.
Fails(i) ==
    /\ phase = "working" /\ pc[i] \in Busy
    /\ Return(i, "error")
    /\ UNCHANGED <<shared, left, results, policyResult>>

Work(i) ==
    \/ Take(i) \/ Parse(i) \/ SelectProfiles(i)
    \/ ValidateProfile(i) \/ ProfilesDone(i) \/ EvaluatePolicy(i) \/ Fails(i)

-------------------------------------------------------------------------------
(* run_validate after the pool has returned                                 *)

IsReport(i) == status[i] # "error"
Statuses == {"Valid", "Invalid", "ParseFailed", "Encrypted", "Incomplete"}

AllReturned == \A i \in Inputs : pc[i] = "returned"

\* Mutant of Collect: results are taken as they came in.
CollectAsFinished ==
    /\ phase = "working" /\ AllReturned /\ taken < N
    /\ taken' = taken + 1
    /\ IF IsReport(finished[taken'])
       THEN reports' = Append(reports, finished[taken']) /\ UNCHANGED internal_errors
       ELSE internal_errors' = internal_errors + 1 /\ UNCHANGED reports
    /\ UNCHANGED <<args, phase, jobVars, output, exit>>

\* par_iter().map().collect() waits for all and keeps the order of the paths;
\* each result is a report of the batch or one more internal error.
Collect ==
    /\ phase = "working" /\ AllReturned /\ taken < N
    /\ taken' = taken + 1
    /\ IF IsReport(taken')
       THEN reports' = Append(reports, taken') /\ UNCHANGED internal_errors
       ELSE internal_errors' = internal_errors + 1 /\ UNCHANGED reports
    /\ UNCHANGED <<args, phase, jobVars, output, exit>>

Count(s) == Cardinality({k \in DOMAIN reports : status[reports[k]] = s})

\* CliExit::rank.
rank == [valid |-> 0, invalid |-> 1, parse_failed |-> 2, encrypted |-> 3,
         incomplete |-> 4, internal |-> 70]

from_status == [Valid |-> "valid", Invalid |-> "invalid", ParseFailed |-> "parse_failed",
                Encrypted |-> "encrypted", Incomplete |-> "incomplete"]

\* The exits of the reports and, with internal errors, Internal; fold starts
\* from Valid.
Exits ==
    {"valid"} \cup {from_status[status[reports[k]]] : k \in DOMAIN reports}
              \cup (IF internal_errors > 0 THEN {"internal"} ELSE {})

\* Mutant of WorstExit: internal errors show in the summary only.
WorstOfReports ==
    LET exits == {"valid"} \cup {from_status[status[reports[k]]] : k \in DOMAIN reports}
    IN  CHOOSE e \in exits : \A f \in exits : rank[f] <= rank[e]

WorstExit == CHOOSE e \in Exits : \A f \in Exits : rank[f] <= rank[e]

\* BatchSummary::finish.
worst_exit_category ==
    IF \/ Count("ParseFailed") > 0 \/ Count("Encrypted") > 0
       \/ Count("Incomplete") > 0 \/ internal_errors > 0
    THEN "ProcessingFailed"
    ELSE IF Count("Invalid") > 0 THEN "ValidationFailed" ELSE "Success"

\* write_reports: one report alone is written as such.
Single == Len(reports) = 1 /\ internal_errors = 0 /\ ~Recursive

total_files == Len(reports) + internal_errors

\* The output is created only now; failing to write it is an error of main.
Write ==
    /\ phase = "working" /\ taken = N /\ phase' = "exit"
    /\ \/ /\ output' = IF Single THEN "single" ELSE "batch"
          /\ exit' = WorstExit
       \/ exit' = "internal" /\ UNCHANGED output
    /\ UNCHANGED <<args, jobVars, taken, reports, internal_errors>>

Done == phase = "exit" /\ UNCHANGED vars

Next == Start \/ (\E i \in Inputs : Work(i)) \/ Collect \/ Write \/ Done

Spec == Init /\ [][Next]_vars

\* rayon keeps every job going until it returns, and main goes on.
FairSpec ==
    /\ Spec
    /\ \A i \in 1 .. MaxInputs : WF_vars(i \in Inputs /\ Work(i))
    /\ WF_vars(Start \/ Collect \/ Write)

-------------------------------------------------------------------------------
\* Types of the jobs, the batch and the exit.
TypeOK ==
    /\ N \in 1 .. MaxInputs /\ hasPolicy \in BOOLEAN
    /\ phase \in {"start", "working", "exit"}
    /\ pc \in [Inputs -> {"queued", "returned"} \cup Busy]
    /\ left \in [Inputs -> 0 .. MaxProfiles]
    /\ results \in [Inputs -> SUBSET ProfileResults]
    /\ policyResult \in [Inputs -> {"none", "passed", "failed"}]
    /\ status \in [Inputs -> Statuses \cup {"none", "error"}]
    /\ finished \in Seq(Inputs) /\ taken \in 0 .. N /\ reports \in Seq(Inputs)
    /\ internal_errors \in 0 .. N
    /\ output \in {"none", "single", "batch"}
    /\ exit \in DOMAIN rank \cup {"none", "usage"}

\* A Valid report rests on at least one profile, every one of them compliant,
\* and on the policy if there is one; Incomplete is never hidden behind Invalid.
ValidMeansChecked ==
    \A i \in Inputs :
        /\ status[i] = "Valid" =>
              /\ results[i] = {"compliant"} /\ left[i] = 0
              /\ hasPolicy => policyResult[i] = "passed"
        /\ Has(i, "unsupported") => status[i] \in {"none", "error", "Incomplete"}

\* Reports come in the order of the inputs however the workers overtake each
\* other, and every input is a report or an internal error, never both.
InputOrderKept ==
    taken = N =>
        /\ \A k, m \in DOMAIN reports : k < m => reports[k] < reports[m]
        /\ Len(reports) + internal_errors = N
        /\ \A i \in Inputs :
              (\E k \in DOMAIN reports : reports[k] = i) <=> status[i] # "error"

\* Exit code 0 means that every listed input has a Valid report, and a run that
\* wrote its output exits with 0 whenever they all have.
ExitZeroIffAllValid ==
    phase = "exit" =>
        /\ exit = "valid" => \A i \in Inputs : status[i] = "Valid"
        /\ output # "none" /\ (\A i \in Inputs : status[i] = "Valid") => exit = "valid"

\* The exit code and the batch summary, computed from the same items by two
\* different folds, tell the same story, and the counters add up.
SummaryAgreesWithExit ==
    phase = "exit" /\ output = "batch" =>
        /\ (worst_exit_category = "Success") <=> (exit = "valid")
        /\ (worst_exit_category = "ValidationFailed") <=> (exit = "invalid")
        /\ total_files = N
        /\ Count("Valid") + Count("Invalid") + Count("ParseFailed") + Count("Encrypted")
             + Count("Incomplete") + internal_errors = N

\* What a caller reads off the exit code is what the reports and the summary
\* say.
VerdictsAgree == ExitZeroIffAllValid /\ SummaryAgreesWithExit

\* Every run ends with an exit code: one input's panic or error never keeps the
\* batch from finishing.
RunEnds == <>(exit # "none")

-------------------------------------------------------------------------------
\* What the summary's documentation says, which the code does not do.

\* "Worst exit category", with InternalError the category of an internal
\* application failure, which is what the process then exits with.
InternalErrorsCategorised ==
    phase = "exit" /\ output = "batch" =>
        (internal_errors > 0 => worst_exit_category = "InternalError")
===============================================================================
