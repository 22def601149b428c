# A TLA+ verification project for pdfv

pdfv validates PDF files against PDF/A, PDF/UA and WTPDF profiles. It parses a
file under resource limits, detects the flavour its metadata claims, builds a
model graph of it, evaluates the rules of the selected profiles on that graph,
optionally extracts features and evaluates a policy over them, and reports. A
command-line tool runs this over many files in parallel, and a repair command
republishes files that validate.

The modules here model the parts of pdfv that keep state, race, give up half
way, or say the same thing in two places, as state machines. TLC checks them on
small instances; TLAPS proves the most important properties for every value of
the constants. `PROJECT.json` maps every definition to the source lines it
stands for, and lists the hazards of the code with the properties that look at
them.

## Inventory

Paths are below `src/`; `core` is `crates/core/src`.

| Component | State | Operations | Hard behaviour | What makes it correct |
|---|---|---|---|---|
| Validation session (`core/validation.rs`: `validate_profile`, `RuleIndex`, `ProfileState`) | work stack, identity keys seen, deferred rules, counters, capped assertion lists | pop, run or defer a rule, follow links, drain | cyclic and shared graphs, budget at its limit, deferred work, counters at their limit | every applicable rule once on every reachable object; the verdict is the truth about them; no failure without its detail |
| Feature extraction and policy (`core/validation.rs`: `extract_features`, `evaluate_policy`) | work stack, keys, feature objects, `truncated` | walk, extract, truncate, evaluate | a policy judged on a truncated or redacted report | untruncated means complete; results are exact, or at least sound, for what was read |
| Document parser (`core/parser.rs`) | position, object store, trailers, parse facts, warnings | header, scan, encryption gate, xref and object streams, expansion | several definitions of one object, competing trailers, lists at their cap, encryption found too late | the store is what the file says; a locked document is neither read nor passed over |
| Content streams and pages (`core/content.rs`; `PageModel` and resources in `core/validation.rs`) | operand list, graphics depth, marked-content stack, spans; page stack and visited set | tokenise, classify operators, walk pages, resolve names | unbalanced ends, caps met in the middle, page trees that go round, inherited resources | spans hold exactly what is between their begin and end; pages in reading order, once; names mean what the nearest node says |
| Model graph (`core/validation.rs`: registry, `ModelGraph`, `linked_objects`, property functions) | none of its own, many tables kept by hand | select families, emit linked objects, answer names | one name in four tables | what import accepts can be walked and answered |
| Profiles (`core/profile.rs`) | importer: one open rule, one text target; evaluator: instruction count | import XML, parse expressions, check schema, evaluate | a file cut off, texts in pieces, precedence, errors as operands, a counter shared by rules | each rule is what was written, read as it was meant, and judged on its own |
| XMP and flavours (`core/xmp.rs`) | namespace bindings, open frames, properties, claims | read events, claim, select or fall back | prefixes redeclared, contradicting or broken claims | a claim is read as written and selects its profile, or a warning says why not |
| Accessibility (`core/accessibility.rs`; facts in `core/validation.rs`) | structure stack, nodes, ID tree and parent tree maps, marked content | walk trees, resolve roles, give content to its owner, analyse tables | shared and cyclic trees, lying parent trees, spans from the file | reading order, nothing lost silently, content has its element |
| Metadata repair (`core/lib.rs`: `repair_metadata_path`; `apps/cli/src/main.rs`: `repair_paths`) | the file system, one temporary file per worker | check paths, copy, validate, rename | workers and other programs racing for names, input changing under the copy, kill at any time | only validated content is published, nothing is overwritten |
| Validation facade and batch CLI (`core/validation.rs`: `validate_reader_with_kind`; `apps/cli/src/main.rs`) | report status; batch of reports, error count, exit code | open, parse, select profiles, validate, policy, collect, fold, write | parallel jobs, panics, two separate folds of one batch | `Valid` and exit code 0 only for what was checked; order kept; summary and exit agree |
| Decryption (`core/parser/encryption.rs`) | file key, per-object keys | classify, authenticate, decrypt | - | only an authenticated password opens a document |
| Report writers, parity and oracle tools, generated profiles | none | formatting, metrics, data | - | - |

Interactions: `apps/cli` calls `Validator::validate_path` from rayon jobs. The
facade calls the parser, then flavour detection, then one session per profile,
then feature extraction and the policy. A session imports nothing: its rules
come from `profile.rs`, bound to the registry of `validation.rs` when they were
imported; it walks the model graph, whose objects read the object store, the
content streams and the accessibility graph when they are asked. The session and
the extraction share the budget function. The repair command validates the
temporary copy with the same facade. The only state shared between jobs is the
file system; within a job everything is sequential, and what can go wrong there
is order, staleness, limits met half way and tables that disagree.

## Modules

| Module | Models | Uses |
|---|---|---|
| `ProfileCheck` | abstract: the checks one profile validation owes its document | |
| `Traversal` | `validate_profile` with `RuleIndex` and `ProfileState` | instantiates `ProfileCheck` (`Refinement`) |
| `FeatureExtraction` | `extract_features`, family selection, redaction, `evaluate_policy` | |
| `DocumentParser` | `ByteParser::parse_document` over files made of items | |
| `ContentStream` | `summarize_content_stream` token by token | |
| `PageContents` | page-tree walk, one page's streams, resolution of the names it uses | extends `ContentStream` |
| `ModelSchema` | the registry and the names each model object answers | |
| `ModelGraph` | import check, family selection, emission and evaluation of one rule path | extends `ModelSchema` |
| `ProfileImport` | the XML import of a profile | |
| `RuleSyntax`, `RuleEvaluator` | expression parser; `DefaultRuleEvaluator` | each extends the one before |
| `RuleLife` | one rule from its text over the schema check to its outcomes | extends `RuleEvaluator` |
| `XmpFlavour` | `PacketBuilder`, claims, `FlavourDetector` | |
| `StructureTree` | `build_accessibility_graph` | |
| `StructureFacts` | facts, tables, rule objects made of its nodes | extends `StructureTree` |
| `Repair` | `repair_metadata_path` by parallel workers over a file system, `repair_exit` | |
| `ValidateRun` | `validate_reader_with_kind` for parallel inputs, `validate_paths`, exit code, summary, output | |
| `MC*` | instances for TLC | extend the module they instantiate |
| `*Proofs` | theorems | extend the module they are about |

Definitions whose comment starts with "Mutant of" are deliberately wrong
variants of the definition below them. They are not part of a specification;
putting one in the place of its original must make a property fail.

### Traversal

`links` is the document graph, chosen at the start from all graphs over
`Objects` with link lists in `LinkLists`; `KeyOf` is `identity_key`, which need
not tell objects apart. `stack`, `visited`, `deferred`, the counters, the
ordinal and the assertion lists are the code's variables. `opened` and
`verdicts` are history. The actions are the loop's control points: `PopSeen`,
`PopNew`, `DeferRule` and `CheckNow` for the rules of the object in hand, then
`FollowLinks` (limit check, budget, push), `Drain`, `CheckDeferred`, `Finish`,
and one failing variant of each step that returns early. What a rule says of an
object is any of its outcomes (`RuleLife` models how it arrives at it); a
`ProfileError` is the outcome "unsupported", a limit of the evaluator ends the
session. `CounterLimit` stands for the `u64` range of counters and ordinals.

`ProfileCheck` says what the session owes: start with no checks; add an
applicable check on a reachable object, each at most once; end either with all
of them made or failed.

### FeatureExtraction

The same walk with three differences: the selected families decide what is
extracted, an object-limit error truncates and is not an error, and the
policy is evaluated after it. A property has one of a few typed values; strings
of a field that is not known to be safe are redacted before the policy sees
them. `feature_selection_for_tasks` adds the families that the policy needs.

### DocumentParser

A file is a sequence of items: indirect objects (plain, object stream, xref
stream), classic xref sections with their trailer, bare trailers, skipped
bytes, `%%EOF` and malformed syntax; `Desc` says what each holds. The COS
grammar is abstracted to these. `pos`, `objects`, `trailers`, `facts` and the
warning of the fact cap are the code's. The steps are the header, one per
scanned item, the encryption gate with its five ways out, one per stream,
one per expanded object, and the end. `push_facts` appends up to the cap and
drops the rest. Passwords are "none", "right" or "wrong".

### ContentStream and PageContents

A stream is a sequence of tokens with a kind, a value and a length, so that both
operand caps mean something. `Read` is one turn of the loop of
`summarize_content_stream` with one action for each class of operator;
`marked_stack` and `marked_depth` are the two records of nesting that the code
keeps apart, `spans` what is told of marked content, `facts` and `uses` what the
rules see. A cap ends the reading, drops the token or only warns, as in the
code. `StreamSpec` reads streams on their own and is what the proofs are about.

`PageContents` chooses a document, walks its page tree with the stack of
`PageModel::from_catalog`, picks a page, collects its fonts, reads one of its streams
with the actions of `ContentStream`, and resolves the names used against the resources
up the parent chain, where cycles and the limit on contexts end the search. A resource
category is a dictionary in place or a reference; `resource_value` passes over a
reference without a word, and so does `CategoryOf`. An XObject must in addition have a
subtype that `classify_xobject` knows. The stream of a form XObject is read like that of
a page, but has the form's own resources or none (`effective_resources`).

### ModelSchema and ModelGraph

The registry, the property functions and the direct-property tables list names
by hand in several places, and `ModelSchema` has each of them as the code has
it, with the names as strings because the names are the question.
`ModelGraph` takes one rule (a type, at most `MaxLinks` links and a last
property), binds it as the import does, selects families with
`for_rules`, and walks the richest document there is (one object of every
kind, what form XObjects draw being kinds of its own) round by round; `Outcome` follows
the path like `DefaultRuleEvaluator::property`. `others` are the families that further
rules of the same profile select, so that what one rule finds can depend on
the rules beside it. The gaps the tables have are listed by name (`LeftToOthers`,
`NeverEmitted`, `Unanswered`, `DeadLinks`, `RefusedOfSome`), so that the properties
hold outside them and any further gap fails a run. Two of them deserve a reader's
attention:

- Inline images have the one supertype `operator` and are built only if a rule selects
  `inlineImage` (validation.rs:5560, 5830). A rule for operators therefore misses
  them, unless another rule of the profile asks for inline images; then it is asked of
  objects that have no links and neither `op` nor `operandCount`, and ends
  in an unknown property (5873-5896).
- Names that an object answers or refuses depending on its data, such as the digest of
  an ICC profile that cannot be read (`RefusedOfSome`; validation.rs:7861, 7954,
  7988-8013, 8103-8113, 8157, 8477, 8520).

### ProfileImport

The document is written while it is read: `at`, `leaf`, `draft` and `written`
say what stands in it, the other variables are the importer's: the one open rule
`current`, the one text `target` with its `buffer`, and the counts. Each XML event
is an action; the file may break off anywhere, and `Malformed` stands for the
errors of the XML library and for unknown elements and attributes. A flavour attribute
is its parts between the underscores, each a prefix and the characters after it;
the display name is that text again, without the separators (`display_flavour`), and
`parse_display_flavour` reads digits off it. So a name may be ambiguous, and
one kind is: `PDFA_1_1`, part 1 and level 1, is shown as `pdfa-11` (`DigitLevel`).

### RuleSyntax, RuleEvaluator and RuleLife

`RuleSyntax` has the eleven levels of `ExprParser` with method calls and lambdas;
`RuleEvaluator` has every operator and call with its types, errors and budgets, numbers
being reduced fractions and integers of `&` and `>>` of `IntBits` bits. Two numbers are
equal when they differ by less than one part in `EpsilonParts` (`f64::EPSILON`), while
the orders are exact, and a divisor that is equal to zero in this sense is an error. The
literal of a lambda is whatever stands between a first and a last quote, as
`parse_static_string` has it. They recurse like the code, so nothing is proved about
them. `RuleLife` lets one rule live: written as text (with the fewest parentheses that
the operators' strengths allow, `Show`), imported, held against the registry, and
evaluated on the objects of its type in any order by one evaluator whose counter is
shared.

### XmpFlavour

A file is a sequence of XML events, each action reads one. Namespace bindings
are the reader's map with the frame's copy restored at the end of an element;
properties collect attributes, element texts and array items. `Finish` makes the
claims, `Select` keeps the compatible ones for which there are profiles, and
`Fallback` takes the default. An attribute without prefix takes the default
namespace, as in the code.

### StructureTree and StructureFacts

`build_accessibility_graph` in its phases: the ID tree and the parent tree are walked
with a stack into maps, the structure tree with a stack of values into `nodes`, then
each page's marked content and the objects of the parent tree are given to nodes. What
/K and the values of the parent tree hold may be an array in place or a reference to
one; the code reads only the former, the elements of the document (`KidsGiven`,
`EntriesFor`) are those of both. A page carries the `rank` of its key, since `PageOf`
takes of several pages that say a number the one whose key comes first, as the code's
ordered map does; `NumberTree` merges what the entries of the parent tree say, the last
one winning. `normalize_role` is a chain of turns (`RoleStep`), at most `MaxRoleSteps`
of them; `Values` is what a kid may be, a reference that leads nowhere included.
`StructureFacts` computes on the finished nodes what rules ask: heading nesting, notes,
headers, the grid of a table with its spans, widgets, and the objects each rule is
evaluated for; nine rules of the PDF/UA profile are written out.

### Repair

A file is a pair of halves, so that a copy can mix two versions; `fs` maps
paths to files. A worker checks the names (`Start`), opens the input and
compares its size (`OpenSource`), copies one half at a time, validates the
copy, and renames it without replacing (`Persist`). `EnvWrite` is another
program writing any file at any time, `EnvWrites` times; `Crash` stops the
process. `Validation` gives the report of each content. Other programs
and the kill are external to the repository and are modelled
from the code's use of them. Who reads and writes which path (`InputOf`,
`OutputOf`) is chosen in `Init` from `Plans`.

### ValidateRun

One program counter per input moves through the facade's steps on at most
`Jobs` threads; `N` inputs were listed or discovered. Parsing,
detection, profiles and the policy have open results; `DocumentParser`,
`XmpFlavour`, `Traversal` and `FeatureExtraction` model how they come about.
`Fails` is any error of the facade and any caught panic. After all have
returned, `Collect` takes their results over one by one in input order (`taken`
counts them) and `Write` computes the
exit code and the summary and writes a single or a batch report, which may fail.

## Runs

| Run | Instance | Shows |
|---|---|---|
| `traversal` | all graphs of 3 objects with up to 2 links each (13^3), three rules, one of them deferred and two with one id, passes recorded; `MaxObjects` 4, `MaxFailed` 1, ordinals that overflow at 5 | `AssertionsComplete`: no failing rule goes without an assertion or its summary, ordinals are contiguous; `VerdictSound`: compliant exactly if every check owed was made and passed; `Refinement` of `ProfileCheck`; `Terminates` |
| `features` | 3 objects with 4 link lists each, absent, numeric and string values, safe and redacted fields, 3 selections, every operator; `MaxObjects` 4 | `FeaturesComplete`, `PolicyExact`, `WitnessSound` |
| `parser` | every password and all files of up to 3 items out of 16, of up to 5 that redefine objects and object streams, of up to 4 with four keys or competing trailers; `MaxObjects` 3, `MaxParseFacts` 4 | `StoreMatchesFile`, `LockedStaysShut`, `LockedIsReported`, `CatalogFromLastTrailer`, `ParseReturns` |
| `pages` | five page trees with resources at three nodes, categories in place and by reference, form XObjects with and without resources; one page with every stream of up to 5 marking tokens, 7 of `q` and `Q`, 4 operands, inline images of up to 6 tokens; caps of 6 operators, 3 operands, depth 2 | `StacksAgree`, `MarkingExact`, `PagesInReadingOrder`, `NamesResolveNearest` |
| `graph` | every registered family and one unknown, every path of up to 2 links, every name published at its end; alone, beside rules for inline images, operators or XObjects, and beside rules of every family | `SelectionHidesNothing`, `AcceptedLinksWork`, `AcceptedNamesWork` |
| `rules` | every operator on every pair of 13 atoms, two operators in every nesting, conditionals, every call; every text of up to 4 tokens out of 9 and lambdas of 3 tokens or two comparisons; numbers that are close or small; three font objects, two of them alike; 9 instructions, depth 3 | `ReadAsMeant`, `BoundNamesKnown`, `LawsHold`, `RulesStartAfresh` |
| `profile_import` | every document of up to 8 elements, two object types, two identities, texts of up to 2 pieces, 6 flavours, one with a `DigitLevel` | `RulesAsWritten`, `NameLeadsBack` |
| `structure` | 8 550 documents: trees of four elements that are shared, nested in arrays, behind a reference to an array or go round, parent and ID trees of two nodes, two pages that may share a number, tables of three rows with spans of any sign, forms | `ReadingOrder`, `NothingLostSilently`, `ContentHasItsElement`, `RolesResolved`, `AcceptedTablesTile` |
| `structure_rules` | the same | violated: see findings |
| `xmp` | about 4 000 packets of up to 3 parts out of 16, and two parts cut off at every event; three defaults, 6 profiles | `ClaimsAsWritten`, `NoClaimLostSilently` |
| `repair` | 3 workers, 2 threads, 4 paths, three plans (two workers compete and one's output is another's input; a refused name; an output for each), 1 foreign write, crash | `OutputsValidated`, `WrittenIsThere`, `NeverOverwrites`, `ExitZeroMeansAllWritten` |
| `validate` | up to 3 inputs with up to 2 profiles each, 2 threads | `ValidMeansChecked`, `InputOrderKept`, `VerdictsAgree`, `RunEnds` |

Why the bounds are enough.

- Three objects give every shape a walk can tell apart: cycles, self links,
  repeated links, an object reached along two paths, and one that is
  unreachable; `MaxObjects` of 4 is met exactly, missed and exceeded by graphs of
  the run because pending duplicates count. A fifth recorded assertion meets
  `CounterLimit`, a session with fewer ends with a verdict; no other counter meets
  that limit here, and a statically unsupported rule, which makes every verdict negative,
  is left to the proofs. Objects that share an identity key
  are left to the proofs, which assume nothing of `KeyOf` except in `Implements`
  and where a property says `KeysDistinct`.
- Four items allow an object to be defined twice, or held by an object stream
  that is itself redefined, and an `%%EOF` with something after it; five let two
  object streams and two direct definitions compete for one key.
- Streams of five marking tokens nest twice and end once too often; seven `q`
  and `Q` exceed the depth of 2, come back and meet the cap of 6 operators. The
  page trees have a shared, a missing, a repeated and a cyclic kid, a cyclic
  parent chain and more pages than the budget.
- A path is followed one link at a time from the objects found so far, so two
  links show every link both from its own family and from where another leads.
- Two operators in every nesting decide every precedence and associativity. The
  budget of 9 instructions is below what the larger expressions need, so both
  outcomes happen; `IntBits` is 6, so that the documents
  have numbers beyond the width, and `EpsilonParts` is 4, so that 9/8 equals 1 and
  dividing by 1/8 fails.
- Eight elements give two rules with a text each, or one rule with all its
  parts, inside the root and the rules element, at every limit. The six flavours have one
  of each family, each kind of level, and none.
- Four elements give shared, repeated and cyclic kids below the depth limit of
  2, above it and at `MaxNodes`; two tree nodes can hold one key twice; the
  tables are the smallest in which spans cross rows and columns; the spans
  of their first cell are 0, 2 or 4 rows and -1, 1 or 3 columns.
- Three parts of a packet give two claims and something that redeclares their
  prefix, or three claims of which two conflict.
- A race for an output name takes two workers and one other program. Three
  inputs can finish in an order other than their own on two threads with one
  still queued; one input alone is written as a single report, not as a batch.

Named bounds (`EnvWrites`, `MaxInputs`, `MaxProfiles`, `MaxLinks`,
`CounterLimit`) appear only as guards and in initial choices. The limits of the
code (`MaxObjects`, `MaxOps`, `MaxNodes`, ...) are constants with small values,
so that they are met.

Deadlock is checked in every run but `pages`, `rules` and `profile_import`,
whose last states (the stream or the file read, all objects evaluated) have
no step because the call has returned there. In the other modules the final states
stutter explicitly, so a deadlock would be a state the code cannot leave.

Fairness. Liveness is checked in `traversal`, `parser` and `validate`. The
session and the parser are sequential loops on the caller's thread that wait for
nothing, hence weak fairness of their step as a whole. rayon runs every
submitted job until it returns, hence weak fairness of each worker, and of
the main thread. A rule is not assumed to succeed and a job may end in an error.
The other runs check safety only. In `repair`, neither `EnvWrite` nor `Crash`
is fair and no liveness is claimed.

## Proofs

TLAPS proves, for all values of the constants that satisfy the named assumptions
in the modules:

**TraversalProofs.** `TypeCorrect`; `BudgetHolds`, from `BudgetInv`, which also
bounds the states between the pop and the push; `NothingLostHolds`, from
`WalkInv`, which says where the object in hand and its links are at each control
point; `VerdictSoundHolds`, from `WorkInv` (checks made, waiting and still to do
are together exactly those of the opened objects) and `VerdictInv` (counters and
lists against the history of verdicts); `AssertionsCompleteAlways`, from
`DetailInv` (each counter is the cardinality of the checks it stands for, a rule
id keeps the first of its failures up to the cap, ordinals are those of the kept
assertions), which needs `WorkInv` to know that a check is new when it is made;
`DeferredLastHolds`, an action property,
from `WorkInv`; and `Implements`: if `KeyOf` is injective (`KeysDistinct`), the
session implements `ProfileCheck`. The last rests on `ReachInv` (only reachable
objects are met) and on the fact that an empty stack with `NothingLost` makes the
opened set closed under links, hence equal to the reachable set. Without
`KeysDistinct` the claim is wrong, as it should be: of two objects with one key
only the first is checked; `VerdictSoundHolds`, which speaks of the objects of the
document, needs it for the same reason. The assumption that a profile lists no rule twice and
an object no type twice is how the code builds them.

**FeatureExtractionProofs.** The same argument for the extraction. `ReachInv`:
what is pending, in hand, seen or reported is reachable, and each feature object
is that of a seen, selected object. `WalkInv`: unless something was cut off, the
links of every seen object are seen or pending (`LinksKnown`) and every seen and
selected object is reported once (`ReportComplete`). When the stack is empty the
seen objects are the reachable ones, which gives `FeaturesCompleteAlways`; with
the facts about redaction (`RedactionFact`) it gives `PolicyExactAlways`.
`WitnessSoundAlways` needs `ReachInv` alone, so it also holds of truncated reports.

**DocumentParserProofs.** `ParserInv` (`ShapeInv`, `FactsInv`, `StoreInv`) gives
`TypeCorrect` and `LimitsHoldAlways`. `GateInv` relates the trailer list during
the scan to the items passed (`AllClassic`, `AllDirect`, `LastDeclared`: the last
trailer that declares encryption is the last such item of the file), which gives
`LockedStaysShutAlways` and `LockedIsReportedAlways`. `CatalogInv` does the same
for the `/Root` entries (`LastRooted`) and adds that only objects of the scan are
looked into (`ObjectsOnly`), so that an appended xref stream is visible as one; it
gives `CatalogFromLastTrailerAlways`. `StoreFits` says what the store is in each
phase: after the scan the last direct definition of every key (`Scanned`); while
object streams are opened, a work list that comes from the containers in key
order and misses none of those already opened (`FromContainers`, `InKeyOrder`,
`Collected`); and while the list is stored, that a key in the store has its
meaning and a key that is not still has all its entries in the list
(`Expanding`). The order matters because the first entry of a key wins and must
be that of its lowest container. It gives `StoreMatchesFileAlways`.

**ContentStreamProofs.** `StreamInv` is `ShapeInv`, `StacksAgree` and
`WithinLimits`: the spans form a sequence whose nesting depths no step but
`BeginMarkedContent` writes (`MarkedKeeps`), so the stack and the counter agree
at every token (`StacksAgreeAlways`), and no counter passes its cap
(`WithinLimitsAlways`). `MarkingInv` ties the stacks to the operators executed so
far: an open span has above it on the stack as many entries as operators
that open marked content were executed since, less those that close it, and has
text or an image exactly if such an operator was executed inside (`SpanFits`); until
the warning the depth is the largest rise of `q` over `Q` on any stretch that ends here
(`DepthInv`), which is why ignoring an unmatched `Q` loses nothing. It gives
`MarkingExactAlways`.

**ProfileImportProofs.** The importer has one open rule and one text target
where a nested document would suggest a stack. `ImportInv` says why that is
enough (`OneOpenRuleIsEnough`): a rule is open exactly inside a rule element and
equals the document's draft (`OpenInv`), and a text has a target exactly inside
its own element and then equals what stands there (`TargetInv`). It gives
`RulesAsWrittenAlways`. The name of a flavour is text, and it leads back because the
digits of the part end where the level begins: `PartIsTheDigits` shows that a part written
in digits before something that is no digit is what is read, and `NameReadBack` puts the
name together again. `NamedInv` says that the flavour of a run is one that
`ValidationFlavour::new` makes from an attribute (`ParsedIsNamed`), which gives
`NameLeadsBackAlways` for all flavours but those of a `DigitLevel`. It assumes of
the attributes (`ImportFlavours`) that a part after a prefix is text.

**RepairProofs.** `RepairInv` adds to the properties what each program counter
implies about the temporary file (a copy about to be persisted is whole and its
validation said valid) and who owns each published path. From it:
`TypeCorrect`, `OutputsValidatedHolds`, `WrittenIsThereHolds`,
`NeverOverwritesHolds` for any number of workers, paths, plans and foreign
writes, and with `ExitInv` (the exit code was computed from the final statuses)
`ExitZeroHolds`.

**ValidateRunProofs.** `JobInv` says what is known of an input at each step of
`validate_path` (`JobAt`: no result before the profiles, and at least one as
soon as no profile is left); it gives `ValidMeansCheckedAlways`. `BatchInv` says
that what was taken over are the first `taken` results, their reports in order and
the others counted as errors (`InputOrderKeptAlways`); `ExitInv` that the exit code
was folded from the whole batch. The two folds are then compared status by status:
`CountsAddUp` splits the reports into five disjoint sets, and `ExitMeaning` and
`SummaryExact` say what each outcome tells of the batch
(`VerdictsAgreeAlways`).

**StructureTreeProofs.** Roles: `normalize_role` keeps the roles it has passed, the
reference `RolesAfter` only applies the map again and again. `ChainFollows` says that
until the loop ends it stands where the map leads; it ends at a role that is not
mapped, where `RolesAfter` stays for ever (`UnmappedStays`), or at a role it has
passed, from which the map goes round and never meets an unmapped one
(`RoundForever`). So the verdict is the same with and without the set of passed
roles (`RolesResolvedAlways`). Nodes: `TreeInv` says that what waits on the stack has a
parent among the nodes made so far or none, and that the object of each node was
noted as visited; `NodesFormTreeAlways` follows: parents come before their children, a
node is in the list of its parent and in no other, the lists ascend, and no object
is two nodes, so `NodeOf` has no choice, although kids may be shared, repeated or
lead back. A tree cut off by a limit is warned of, and `max_structure_nodes` holds.
Induction and recursion over `0 .. n` are proved with sets and functions
(`InductionUpTo`, `IterationExists`), and what the library's folds over sequences of
sequences return (`FlattenFact`).

*Document order* (`ReadingOrderAlways`). That siblings stand as they are written and
that lines do not cross is not inductive: it depends on what still waits on the stack.
`CrossInv` says that what waits for a later node waits further up, and that a node
which siblings have passed over has nothing waiting. `OrderInv` tells, once the walk
has begun, of two functions (`Fits`): `base`, above which place on the stack each node
put its kids (`StackFits`), and `place`, where among its siblings each node waited
(`PlacesFit`): later siblings waited further down, since `collect_kids` pushes an array
backwards, and what waits or is written before a node is not the same dictionary, so
that the place of a node is its first.

*Completeness* (`NothingLostAlways`). `GoneFits`, the third part of `Fits`, says that until
the tree is cut off an element that does not wait any more became a node there, or was
one already, reached by reference and warned of. With an empty stack the nodes'
dictionaries are then closed under the kids the walk takes (`Walkable`), so they hold the least
such set; where every /K stands in place (`KidsInPlace`) that is
`InDocument` (`WalkableInDocument`). As each node stands below its parent and an array in
place is among the kids given (`BelowInPlace`), they are in any case no more than that.
`StreamsTold` says that each page done has all its streams read or was warned of.

*Ownership* (`ContentHasItsElementAlways`). `ContentInv` adds that each node's page is
the one said by the nearest element above it (`PagesFit`), that `parent_tree` is what
the entries walked come to and the last entry of a number wins (`ParentTreeFits`), and
that each piece of content marked so far has the node that `OwnerOf` gave it, with the
nodes unchanged since (`MarkedFits`). `ClaimsAreListed` shows that a node's items list a
number on a page exactly if the element's kids do; `ParentTreeSays` and `ItemsSay`
relate the maps to what is written in the file, on pages whose entries of the parent
tree stand in place (`EntriesInPlace`).

What these proofs assume of documents is `DocumentShape` and `InPlace`, which TLC
evaluates on the documents of the run: a kid, and a member of an array of kids, is a
value; `None`, the absence of a value, names nothing and is no number; the page walk of
`collect_pages` takes each page once; a dictionary written in place stands in one place;
an array that is an object of its own holds values and is no dictionary. What siblings
and completeness promise is limited to `PlainRoot`: the code opens arrays nested in the
array of the root's kids, and passes over such arrays everywhere else, so the elements
in them are not those of the reference.

Only model-checked:

- liveness (`Terminates`, `ParseReturns`, `RunEnds`), which needs fairness and
  `ENABLED` and is out of the prover's reach;
- `PagesInReadingOrder` and `NamesResolveNearest` of `PageContents`, whose
  module declares `RECURSIVE` operators over the page tree, as the code recurses;
- the properties of `RuleLife`, whose modules recurse like the code (`RECURSIVE`),
  and those of `ModelGraph`, which are about fixed tables and need no
  generalisation;
- `AcceptedTablesTile`: the grid of a table is folded over rows and cells found with
  `SelectSeq`, and that the cells tile it is a statement about sums over these folds,
  that is, induction over data through operators given as parameters;
- `ClaimsAsWritten` and `NoClaimLostSilently`: the claims of the code and the
  text they are compared with are both folds and `SelectSeq` over the events of the
  packet, with the same difficulty.

## Findings

One run, `structure_rules`, ends in a violation that is a defect of the code:
`map_verapdf_object_type` maps every `SE*` object of a profile to the one family
`structureElement` and nothing keeps the kind, so that a rule for `SENote`
(`generated_profiles/PDFUA-1.xml:859`, "Note tag shall have ID entry") is evaluated on
every element, and a paragraph without an ID fails it.

Further disagreements between the code and the repository's documents. Each
configuration ends in the violation of the property named; where one names several,
TLC stops at the first, and the others are seen by leaving it out.

| Configuration | Property | The document says | The code does |
|---|---|---|---|
| `MCTraversalOrder.cfg` | `DocumentOrder` | `specs/13-validation-engine-design.md:57`: linked objects are pushed in reverse order | pushes forward, so the last link is visited first; no verdict depends on it, the order of assertions does |
| `MCDocumentParserFactCap.cfg` | `DeclaredEncryptionReported` | `specs/14-password-decryption-design.md:137`: encrypted without password is `Encrypted` | at `max_parse_facts` the encryption fact is dropped too, and `is_encrypted` looks for the fact; `LockedIsReported` excepts exactly this case |
| `MCDocumentParserXrefEncrypt.cfg` | `XrefStreamEncryptionReported` | `specs/11-parser-core-design.md:67`: encrypted files are detected | an `/Encrypt` entry in an xref stream only is seen after the gate |
| `MCDocumentParserRevisions.cfg` | `LatestRevisionWins` | `specs/15-parser-filter-source-parity-design.md:72`: the latest revision wins | the scan stops at the first `%%EOF`, so incremental updates are not read |
| `ValidateRunCategory.cfg` | `InternalErrorsCategorised` | `core/lib.rs:2231`: "Worst exit category" | `BatchSummary::finish` never yields `InternalError`, although the process exits with the internal code |
| `MCModelGraphGaps.cfg` | `RegisteredAnswered` | `specs/22-resource-font-color-semantics-design.md:75`: missing properties are found at import, not as evaluation failures | names published by five families (`Unanswered`) have no arm in the property functions |
| `MCModelGraphGaps.cfg` | `LinksEmitted` | `CHANGELOG.md:113`: links that are not implemented are not advertised | six links (`DeadLinks`) are advertised and lead to no object |
| `MCModelGraphGaps.cfg` | `SelectionInvisible` | `specs/13-validation-engine-design.md:47`: linked objects are materialized when traversal reaches the link | objects of some families (`LeftToOthers`) exist only if another rule of the profile selects the family that links to them; inline images only if one selects `inlineImage` |
| `MCStructureGaps.cfg` | `WidgetsCountedOnce` | `generated_profiles/PDFUA-2-ISO32005.xml:1011`: a form has at most one widget annotation (`widgetAnnotsCount <= 1`) | a widget named in the kids of the form and in the parent tree is counted twice |
| `MCStructureGaps.cfg` | `ArraysOfKidsFollowed` | `specs/23-structure-accessibility-design.md:91`: malformed structure data is represented as facts or warnings | a /K that is a reference to an array is passed over without a warning (accessibility.rs:479-482, 598, 616), and its elements are no nodes |
| `MCStructureGaps.cfg` | `ArraysOfParentsRead` | `specs/23-structure-accessibility-design.md:78`: missing or inconsistent parent-tree links become facts or warnings | a value of the parent tree that is a reference to an array is taken for the element of MCID 0, without a warning (accessibility.rs:919-921) |
| `MCPageContentsByRef.cfg` | `NamesResolveAnywhere` | `specs/22-resource-font-color-semantics-design.md:82`: uses resolve through the effective resources, which line 35 builds from page tree ancestors and nested forms | a resource category given by reference is passed over (validation.rs:4813, 7596); its names are missing, or mean what a node above says. Forms that have no resources of their own have none (5433-5447), which is kept in the model and no property objects to |
| `MCRuleLifeGaps.cfg` | `LambdasReadWhole` | `core/profile.rs:3830`: "unsupported lambda predicate" of a lambda that mixes its comparisons | `filter(v => v == "a" && v != "b")` is accepted, with the one literal `a" && v != "b` |
| `MCRuleLifeGaps.cfg` | `OrderKnowsEquality` | the meaning of `>=` as `>` or `==`; no document says otherwise | equality allows for `f64::EPSILON` (profile.rs:1871-1873), the orders do not (1419): of 0.3 and 0.1 + 0.2 the one is `==` to the other and not `>=` it |
| `MCProfileImportGaps.cfg` | `EveryNameLeadsBack` | `core/profile.rs:2262`: "the stable CLI/catalog spelling" of a flavour | `PDFA_1_1` is shown as `pdfa-11`, which reads as part 11 |
| `MCProfileImportGaps.cfg` | `NothingCutOff` | `specs/12-profile-rule-ir-design.md:55`: malformed profile XML returns `Result` | a file that ends inside its elements is imported with the rules read so far |
| `MCXmpFlavourRecognised.cfg` | `RecognisedClaimUsed` | `specs/18-xmp-metadata-flavour-design.md:56`: all recognized claims are extracted | a PDF/UA part other than 1 and 2 makes the packet malformed, and the PDF/A claim beside it is not validated |

Seen while reading and not modelled: the lambda `filter(v => v == "||")` is cut at the
separator inside its quotes, and `parse_static_string` then slices a text of one
character from 1 to 0, which panics, where `specs/12-profile-rule-ir-design.md:55` asks
for a `Result`.

## Not modelled

- Cryptographic primitives and key derivation: out of TLC's reach. What follows from
  each class of password is in `DocumentParser`.
- Report writers (formatting without state), generated profiles (data), and the parity
  and oracle tools (sequential metrics, no state that outlives a call).
- Of the parser: the COS grammar below items, source storage and stream filters, which
  transform bytes and keep nothing between calls.
- Of the model graph: what a property computes from a dictionary (several hundred
  independent computations without state), name trees and the walkers of annotations and
  actions. `Traversal` takes any finite graph.
- Of the rules: white space and the scanning of one literal, the regular-expression
  crate (external; a pattern matches its own text or does not compile), the rounding of
  floating-point numbers and decimal literals, the second kind of quotes, and
  identifiers that start with `true`, `false` or `null`.
- Of the profile import: flavour attributes with leading zeros in a number.
- Of XMP: UTF-16 and UTF-32 input, `xml:lang`, the attributes of the packet wrapper, and
  encrypted metadata or metadata that is no stream.
- Of accessibility: documents without a structure tree root, class maps, the decoding of
  attribute objects, spans beyond 32 bits, and entries of the ID and parent trees that
  are of the wrong type.
- Of the command line: directory discovery, configuration merging and password sources,
  which only choose the inputs, and the elapsed time of a batch.

## Running

    tlc -workers 2 -config MCTraversal.cfg MCTraversal
    tlapm TraversalProofs.tla

The largest runs are `profile_import` (5 086 387 distinct states), `features`
(2 261 248) and `validate` (1 227 158); each of the others has fewer than a million.
All end within two or three minutes on two cores (`structure`, whose states are large, is the
slowest), and each proof module within a few minutes, but for `StructureTreeProofs`, which
takes about a quarter of an hour from nothing.
