# Verification of ReceiptOS (Crystal Receipt) in TLA+

This directory holds TLA+ modules for the parts of ReceiptOS whose correctness depends on the
*order* in which things happen, the TLC configurations that check them on small instances, and
proofs, checked by TLAPS, of what holds for every value of the parameters. Paths are relative to
the root of the repository; file names without a directory are in `src/receiptos/challenge/`.

1. [The system](#1-the-system): inventory of components, their state and their hazards
2. [Modules](#2-modules): what is modelled, and how it corresponds to the code
3. [Runs](#3-runs): what TLC checks, on which instances, and why they are enough
4. [Proofs](#4-proofs): what is proved, from what, and how
5. [Disagreements](#5-disagreements-between-code-and-documents): where code and documents differ
6. [Limits](#6-limits): what is only model-checked, and what is not modelled
7. [Plan](#7-plan): what was done in which order, and what could follow

## 1. The system

ReceiptOS turns evidence of a piece of work into a *receipt*, commits to it by digests, links the
commitments into chains, and lets third parties challenge the programs that verify them. The
TypeScript core (`src/receiptos/`) is a library of evaluators plus a few command-line drivers.
Around it are a desktop application (`desktop-v1/`, a vendored editor to which ReceiptOS adds a
receipt panel, a dialog and the server side of both), a viewer, a Python renderer and conformance
packages with frozen vectors.

Most of the library has no shared state. What makes it hard is something else: evaluators with
many ordered stages, each of which may refuse, report failure or throw in code that belongs to
someone else; data that is read again after it may have changed; verdicts that are composed of
other verdicts. Three places are concurrent in the ordinary sense: the traversal coordinator with
its processes, pipes and timers; the desktop application, where an agent, forked computations,
requests and a user run beside one another; and the package generators, which may be killed
between two writes.

### Components

| Component | State | Operations | Depends on | What makes it correct |
|---|---|---|---|---|
| **Transformation cycle** `transformation-stability-cycle.ts` | edge index, current node, previous result, results of edges, outcome | `evaluateTransformationCycleV0`: validate, recompute the start, then for each edge precondition, transform, recompute, compare; last, compare the ends | a profile's `recompute`, `precondition`, `transform`, projections | no edge's violation is hidden by a later edge; edges compose; a failure names its edge; counters say how far it went |
| **Transformation stability** `transformation-stability.ts` | stage, target, verdict | `evaluateTransformationStabilityV0`: contract, precondition, transform, two recomputations, comparison | as above, for one edge | one verdict, the first failing stage decides |
| **Coverage plane** `transformation-stability-coverage.ts` | profile, mismatching paths by class, composed verdict | `defineCoverageProfileV0`, `classifyPathV0`, `runCoveragePlaneV0`, `evaluateTransformationStabilityWithCoverageV0` | runs the flat evaluator, then walks both artifacts | each path has one class; nobody's difference survives unnoticed; composition only escalates |
| **Traversal schedules** `counterfactual-traversal-schedules*.ts` | frozen constants | `FROZEN_TRAVERSAL_SCHEDULES_V0` and `_V1`, integrity checks, authentication of a schedule | used by coordinator and worker | each pair of members occurs in both orders; in v1 each member comes first once |
| **Traversal coordinator, workers** `counterfactual-traversal-stability*.ts`, `conformance/.../run_schedule_worker.ts` | accepted results, current process, its output, exit code, timer | launch, read output, wait, time out, judge, accept, compare, conclude; the worker evaluates, prints, exits | one operating-system process after another | a verdict rests on fresh processes and on answers to the question asked; a run that ends leaves no worker behind, and it ends unless a worker ignores its signal |
| **Chronicle checkpoints** `src/receiptos/capsule/chronicle-portfolio-v0.ts`, `chronicle-checkpoint-continuity-v0.ts` | none of its own: checkpoints are stored by others | create, verify locally, evaluate continuity of a pair | digests; a store nobody guards | from one root, everybody reads one history, complete and in order |
| **Entry admission, proof objects** `capsule/portable-proof-object-v0.ts`, `evidence-capsule-v0.ts`, `canon/` | none | derive a proof object, nine ordered checks, admit an entry | recomputed receipt roots | the first failing check decides; a genuine proof object is admitted |
| **Recursive singleton fold** `rsf/` | values passed from position to position | 28 ordered check positions in three stages | entry admission, which it repeats at position 12 | a finding is reported at the position that owns it; an expected failure never throws |
| **Neighborhood conformance** `counterfactual-neighborhood*.ts` | observations of members, counts | preflight of every member, then one execution after another | the verifier runner | counts and verdict agree; one unresolved member leaves no verdict |
| **Verifier runner** `counterfactual-verifier-runner.ts`, evaluators | stage | bind, input, subject, output | verifiers under test | a failure is attributed to the stage that caused it |
| **Package generators** `counterfactual-dcn-generator.ts`, `counterfactual-traversal-stability*.ts`, `counterfactual-conformance-package.ts` | the files of a package | `--write`, `--check`, verification of package identity | sources under edit, file system, crashes | a package that is accepted is of one generation; an undisturbed write is accepted |
| **Session changes, receipt panel** (desktop) `opencode/src/session/summary.ts`, `session/handoff/evidence.ts`, `app/src/pages/session.tsx`, `app/src/pages/session/session-side-panel.tsx` | messages, stored diffs, files listed in the last turn; which list of changes is shown, question, requests in flight, receipt on screen | start a turn, fork a summary, store, list; navigate, select a list, ask again, serve, answer, cancel, fail | the agent that works meanwhile; the working tree | the receipt answers the latest question and, beside the turn's files, is not behind them |
| **Receipt dialog, anchor, Merkle proof** `app/src/components/dialog-receipt-explorer.tsx`, `app/src/utils/`, `src/receiptos/anchor/`, `merkle/` | attached proof, payload, imported result, verification | open, attach, prepare, import, verify, close | the panel, which may replace the receipt; an external chain | what is shown as anchored was attached; a verification is of one receipt |
| Materialized inputs, profiles, Lane K, normalizer authority, adapters, schema, canonicalization, render plan, scripts, viewer, rest of the desktop application, Python renderer | – | pure functions, thin drivers, third-party code | – | see [section 6](#6-limits) |

### Interactions

* The coverage plane runs the flat evaluator first and then itself on the same pair of artifacts;
  it calls the profile's `transform` *again* and relies on its being deterministic.
* The coordinator starts one worker for each schedule and waits for it. They share nothing but the
  worker's standard output and its exit code. The timer runs beside both of them.
* A worker evaluates the members of the neighborhood one after another *in one process*: a verifier
  that leaves something behind can change a later one's answer. Finding this out is the purpose of
  the schedules.
* Continuity takes two checkpoints from its caller and keeps nothing. A consumer that follows a
  chain calls it once for each step, and the store may change between two calls.
* The fold evaluator repeats, position by position, what entry admission does in one call, and then
  makes that call. The two must decide alike.
* The receipt panel sees the server only through answers. It asks again when the list of changes
  beside it changes. By default that list is the working tree's, which a file watcher and the end of
  a turn refresh; if the user selects the turn's changes it is the list summaries write into the last
  user message. Diffs are stored before that list is published: this order carries the receipt.
* The dialog reads its evidence through the panel that opened it, so each of its signals may
  outlive the receipt it was computed from.
* A package on disk is what generators, developers and readers share. No lock and no transaction
  spans its files; the manifest, written last, is all that holds them together.

### Hazards

`PROJECT.json` lists each hazard at the line where it bites, with the properties that would catch
it. In short: a later edge that restores an earlier state (cycle); differences at paths nobody
declared, and resolution that depends on the order of declarations (coverage); a timer that races
exit, output and the read of the exit code, a worker that hangs, one that answers for another
schedule or ignores the signal, state that leaks from one verifier to the next (traversal); a store that changes between
two evaluations, arithmetic above 2^53, lists in another order (chronicle); checks made twice that
may disagree, and digests recomputed over an altered fact (fold); answers to cancelled questions,
summaries that overtake one another, a list on screen that never stops changing, a receipt replaced under an open dialog (desktop); crashes
between two writes and files changed between writing and hashing (packages).

## 2. Modules

| Module | Models | Abstract specification | Proofs |
|---|---|---|---|
| `TransformationCycle` | the cycle evaluator | `EdgewisePreservation` | `TransformationCycleProofs` |
| `TransformationStability` | the flat evaluator, one action for each stage | – | with coverage |
| `CoverageSelectors` | coverage profiles, `classifyPathV0`, and the document's resolution beside it | the operator `Resolves` | `CoverageProofs` |
| `CoverageEvaluation` | the plane composed with `TransformationStability` | – | `CoverageProofs` |
| `ScheduleComparison` | `counterfactual-traversal-stability-compare.ts` | – | with traversal |
| `TraversalSchedules` | the frozen v0 and v1 orders | – | with traversal |
| `TraversalStability` | coordinator, worker processes, timer | `StabilityCampaign` | `TraversalStabilityProofs` |
| `DefectDetection` | subjects with one defect, under `TraversalStability` and `TraversalSchedules` | – | with traversal |
| `ChronicleCheckpoint` | creation, local verification, shape, pairwise continuity | – | with the audit |
| `ChronicleAudit` | consumers that follow a chain through a changing store | `WriteOnceHistory` | `ChronicleAuditProofs` |
| `EntryAdmission` | creation of proof objects, the nine checks of admission, as operators | – | with the fold |
| `SingletonFold` | the 28 positions of the fold evaluator, composed with `EntryAdmission` | `FirstFailureWins` | `SingletonFoldProofs` |
| `SessionSummary` | messages, stored diffs and file lists of sessions, forked summaries | – | with the receipt |
| `SessionReceipt` | the server's handoff requests and the panel's effect, composed with `SessionSummary` | `LatestRequestWins` | `SessionReceiptProofs` |
| `ReceiptExplorer` | the dialog, over the panel that `LatestRequestWins` describes | – | `ReceiptExplorerProofs` |
| `PackageGenerator` | both kinds of generator, developers, crashes, `--check` and verification | – | `PackageGeneratorProofs` |

The modules named `MC...` only give the constants values. In the other modules an operator whose
comment begins with "Mutant" is a plausible mistake in the definition that follows it. No action
uses it; it documents what the properties of the runs are able to notice.

### Transformation cycle

The registers are those of `evaluateTransformationCycleV0`: `edgeIndex`, `startValue`
(`startOutcome.value`), `currentNode`, `previousResult`, `edges` (`edgeResults`). `pc` is the place
in the function, and `outcome` what it returns. `visited` is a history variable: the nodes whose
recomputation succeeded. There is one action for each way a stage can end; the code of the
profile's author may throw at each of them. A node is a model value and `Recompute` gives its
result, which is the four projections the profile compares. Brands and identity strings of a
profile are represented by `ValidProfile`.

`EdgewisePreservation` has no nodes, stages or counters: a path of results grows as long as each
neighbouring pair is preserved, and the verdict is a function of the path. It never compares the
first result with the last, so the refinement says that the endpoint comparison of the code can
neither excuse nor cause anything.

### Coverage

An artifact is a function from the positions of its leaves, in the order of the structural walk,
to leaves. `WalkOrder` gives the path of each position; two positions may have one path, because
the walk joins keys with dots and a key may contain a dot. `LeafAt` keeps the last leaf written to
a path, as the `Map` does. Selectors are parsed data (segments, wildcard, side); text that does not
parse is `Malformed`. `NormalizeForPath` is the lookup `value_normalizers[path]`, which finds
properties an object inherits. `ClassOf` is `classifyPathV0`, by position in the array;
`Resolves` is the document's rule, which mentions no order.

### Traversal

`parent` is where the coordinator waits: `launching`, `reading` (the stream), `awaiting` (the
exit), `judging`, `settled`. `proc`, `code`, `ran`, `obs` and `stdout` belong to the worker, `timer`
and `signalled` to the timer. `Launch` resets what belongs to a process: a fresh process has run
nothing. `Observe(subject, member, earlier)` is what a verifier answers after the members
`earlier` have run in the same process; any influence among verifiers is a function of this form.
`Scripts` are the worker programs a caller may point to: the frozen one, one that prints nothing,
one that prints garbage, one that runs another schedule, one that ignores signals. The timer calls
`proc.kill()` without an argument (`counterfactual-traversal-stability.ts:229`), which is SIGTERM:
`DieOfSignal` is what it does to a worker that does not ignore it. `DistinctPids` selects v0 (which compares
the pids of its workers) or v1 (which does not). The timer may fire after the worker has exited;
the signal then reaches nobody, and the code still reports a timeout.

`StabilityCampaign` has neither processes nor timers: the subject is observed under one schedule
after another, each time as if nothing had run before.

`DefectDetection` says what a defect is (a cause, a victim, and what the victim is then observed
as) and states what the schedules are for. Both traversal runs take their subjects from it.

### Chronicle

A checkpoint is a record with a root; `Digest` is an operator without collisions, `Preimage` its
inverse (`CheckpointAssumption`). `label` stands for `checkpoint_id` and `collection_ref`, which
nothing here reads; `schema` is apart, because creation pins it and nobody compares it. `Verifies` recomputes over the stored order *and* asks for the
canonical order, as `verifyChronicleCheckpointV0` does; `ShapeIsValid` stands for the checks
continuity and creation write down separately; `Continuity` returns the reason codes in the code's
order. A number above `ExactLimit` is even, and `current.sequence - 1` is rounded to an even
number, as doubles behave above 2^53.

The library keeps no store. `ChronicleAudit` models what it is used for: auditors that take a root
from a decision's `as_of`, fetch the checkpoint stored under it, and step back with the continuity
evaluation, while whoever holds the store creates, loses, reorders, renumbers, detaches and
recomputes checkpoints between any two steps. The store and the auditors are the library's
environment and are marked external in the map, `Create` and the evaluation itself are the code.
`WriteOnceHistory` is what the auditors get together: a register that is written once for a root.

### Admission and fold

A receipt root is what it hashes and the way its digits are written, because the code compares
roots without regard to case and derives identities from the text. `Rejection` is the chain of nine
checks of `tryCreateChronicleEntryV0`; an entry is what `EntryOf` builds from an admitted proof
object. In `SingletonFold` the registers are what one position hands to later ones
(`verifiedReceiptRoot`, `expectedProofObjectId`, `sourceEntry`, `sourceCommitment`), `position` is
the next check, and `evaluation` the envelope returned, with its state and finding. Each position
is a step; 12 calls admission and may throw, 14 owns no finding. Shape checks are a verdict of the
input (`Malformed` or not), and texts that have one legal value are one field `terms`. `Digest` is
an operator; no property of the fold needs it to be free of collisions.

`FirstFailureWins` knows claims about an input and no positions, registers or hand-overs: the first
claim that is false decides. The claims (`Holds`) are written about the entry admission would
give, not about the registers, so the refinement says that what each position is handed is right.

### Session changes and receipt

Messages and diffs are *versions*: the number of changes the message list has seen, and the version
a diff was computed from. `ForkSummary` is the fork together with the read it begins with,
`StoreDiffs` and `ListFiles` its two writes, of which the first may fail unnoticed. `NewTurn` is a
new user message, which has no files listed; a fork for the message before it goes on
(`current` is then false), and its list is not shown. `stored` also says whether names are quoted,
because a question about such a session stores the diffs again (`StoreAgain`), a read and a write
without a lock. `settled` is a history variable: diffs of the session were only stored by summaries
that ran alone, no write failed, and none came while a request was storing diffs again.

In the panel, `changes` is the list selected in `session.tsx` (`reviewDiffs`), `git` after each
navigation, and `tree` the list of the working tree while it is shown. `TreeChanges` is whatever
repeats its query; it may happen at any time and has nothing to do with what the server stores.
`wanted` is the request whose answer is wanted and how far the server is with it, `dropped` holds
the cancelled ones, with which the server goes on; `Refetch` is the effect with its clean-up. If one
update changes both the session and the list, the two are one run of the effect.

`LatestRequestWins` has no server, no requests and no lists: a question, what became of it, and the
receipt shown. `ReceiptExplorer` is built over it and uses nothing else of the panel.

### Receipt dialog

One variable for each signal (`proof`, `payload`, `imported`, `verification`), verifications in
flight with what they read before the digest was awaited, and `Anchor` for `effectiveEvidence`,
which lays proof and imported result over the receipt of the moment. A receipt stands for its root. A
pasted result is any root with or without an event (`Results`): the dialog compares the root with
the one attached and asks no chain.

### Packages

A package is a hand-written SPEC, two generated files and a manifest of their hashes; a hash stands
for its file. `style` tells the umbrella generator, which renames a finished file into place and
computes the manifest in memory, from those of the traversal packages, which truncate, write and
then hash what lies on disk. `EditSource`, `EditSpec` and `Touch` are developers and version
control; `Crash` may follow any system call. `CheckAccepts` and `Verifies` are the two readers.

## 3. Runs

Twelve runs: nine that pass and three that show a disagreement ([section 5](#5-disagreements-between-code-and-documents)).

| Run | Instance | Distinct states, depth | Question |
|---|---|---|---|
| `cycle` | at most 3 edges out of 3 identifiers (repetitions too), both policies, 2 values for each of four projections: 16 nodes, and one that cannot be recomputed | 331,004, 16 | may any verdict depend on the ends alone? are failures local and final? |
| `coverage` | artifacts of 2 leaves with 3 values or absent, at most 2 declarations over 5 selectors (exact, two wildcards, sided, malformed), at most one normalizer of 3 | 1,211,648, 10 | what does the composed verdict mean, independently of the order of declarations? |
| `traversal_worker` | 3 members, 3 orders, every single defect, 5 worker scripts, pids that repeat | 116,825, 32 | do processes, pipes and the timer ever reach the verdict? does each run end unless a worker ignores its signal? |
| `traversal_schedules` | the 12 v1 orders over the 10 members, 221 subjects with at most one defect | 2,262,377, 206 | do the frozen schedules expose each defect they are meant to expose? |
| `chronicle` | 2 auditors (symmetric), 2 stored checkpoints at a time, sequences 0 to 2, 2 schemas, roots up to three checkpoints deep | 547,162, 29 | is there one complete history for a root? |
| `fold` | proof objects with all combinations of roots, identities, references and labels; bundles and candidates with at most two deviations, their digests recomputed or not | 38,491, 29 | what is accepted, which position is blamed, do evaluator and admission agree? |
| `receipt` | two sessions: an empty one, and one that changes twice with a quoted name in between; 2 lists of the working tree, 2 modes; 2 summaries and 1 cancelled request in flight | 858,296, 24 | which receipt does the panel show, and does it ever? |
| `explorer` | 3 receipts of 2 sessions, 1 verification in flight | 158,059, 24 | what do the dialog's roots belong to while the receipt is replaced? |
| `packages` | 4 versions of the sources, 2 texts of the SPEC, edited, missing and torn files, any number of crashes | 1,625,526, 32 | which packages are accepted? |

**Why the bounds are enough.** A cycle hides a violation with two edges (away and back); three add
an edge in the middle with neighbours on both sides, so that an edge can be compared with the
wrong one. Two values are enough for projections that are only compared for equality. Two
declarations are enough for conflict, for precedence between exact selector and wildcard, and
between two wildcards of different length; two leaves make a difference at one path and none at
the other. A worker's life does not depend on how many members it evaluates; three orders are
enough for a first, a middle and a last launch. `traversal_schedules` uses the real orders, and
there the bound is one defect: *what* it needs in order to show (a certain earlier member, being
first, or nothing) is enumerated completely, and so is the member it affects. Chains of three
checkpoints have a newest, an inner and a genesis checkpoint; beside the well-formed ones there are
a genesis over a reordered list, a checkpoint without predecessor numbered one, one with a
predecessor numbered zero, and one of another schema. The store holds two checkpoints at a
time, the pair one evaluation needs, and since it changes between evaluations an audit sees more
of them. `ExactLimit` moves the boundary 2^53 to a small number; what happens there does not
depend on its size. Two deviations of a bundle are enough for one check to hide another, and
recomputed digests are the case in which an altered fact agrees with everything around it. A busy
session that changes twice (`Changes`) has summaries that overlap and lists that go back;
`MaxForks = 2` and `MaxDropped = 1` are the least with which an older computation or answer
overtakes a newer one, and the theorems of section 4 hold for any number of either. Two lists
are enough for a working tree whose list changes for ever, and `branch` differs from `git` in
nothing the model sees. Three receipts
are one before, one after a change and one of another session; `MaxChecks = 1` is enough for a
verification during which the receipt is replaced. The four versions of the sources are one, one
that differs where no pin looks, one that differs together with its pins, and one that contradicts
them; crashes and edits are not bounded.

**Properties.** *Cycle:* `NonErasure` (an accepted cycle was walked to its end and preserved at
each pair), `EdgesCompose` (an edge is judged on its own two results), `FailureIsLocal`,
`AggregateTellsHowFar`, and the refinement `ImplementsEdgewise`. *Coverage:*
`SurvivingDifferenceIsDeclared` (a difference that survives acceptance was named by the author),
`VerdictFollowsResolution` (the verdict is the one the document's order-free rules define),
`ResolutionIsUnique`. *Traversal:* `ImplementsCampaign`, `TimeoutIsFinal`, `NoOrphan`,
`EventuallySettles`; `DefectsAreDetected` (under v1, stable if and only if there is no defect) and
`OrderDefectsAreDetectedByV0` (the five orders of v0 suffice for defects that depend on what ran
before). *Chronicle:* `SameHistory`, `HistoryIsComplete` (each number exactly once, down to
genesis), `AcceptedWasCreatable` (what continuity accepts is what creation makes of the same fields, except
for the schema: three copies of the shape rules have not drifted apart), and
`ImplementsHistory`. *Fold:* `AcceptsExactlyTheDerived` (an aggregate is accepted if and only if
it is the one its source allows), `AgreesWithAdmission` (positions 8 to 11 find something exactly when admission refuses),
`ImplementsFirstFailure`. *Receipt:* `ReceiptFollowsRoute`, `ReceiptHashesListedFiles`,
`QuestionIsSettled`, `ImplementsLatestRequestWins`. *Explorer:* `OneReceiptOneRoot`,
`AnchoredWasAttached`, `NoFalseAlarm`. *Packages:* `AcceptedIsOneGeneration`,
`CompletedWriteIsAccepted`, `UpToDateSurvivesCrash`, `CheckedIsVerified`. Each run also checks the
`TypeOK` of its module where there is one, and each property has at least one mutant in
`PROJECT.json` that violates it.

**Deadlock.** An evaluator of the cycle, of coverage or of the fold returns, so these runs say
`CHECK_DEADLOCK FALSE`. The coordinator has an explicit action `Finished`, and the other systems
always have a step; their runs check for deadlock.

**Fairness.** Two runs need it. `FairSpec` of `traversal_worker` assumes weak fairness of the
coordinator's steps and of the timer, which the event loop of the parent serves; of the death of a
worker that was sent a signal and does not ignore it; and of the removal of a process that is
exiting. A worker may hang anywhere, and `EventuallySettles` then rests on the timer. The signal is
SIGTERM, which a program may ignore; the script `deaf` does, its worker may hang for ever, and
`EventuallySettles` excepts it. The frozen worker installs no handler.
`Spec` of `SessionReceipt` assumes that the server goes on with the request that is wanted until it
is answered: it waits for no other request and for nothing that has to happen first. Cancelled
requests, the agent, the user, the forked summaries and the working tree owe nothing, and any
request may fail. Each change of the list on screen supersedes the question before, and nothing in
the code bounds how often it changes. `QuestionIsSettled` therefore has the premise
`ListStopsChanging`: from some time on the user stays and the list stays as it is. Without the
premise TLC finds a working tree that changes back and forth for ever while the panel asks and
asks; `TreeChanges` is not bounded, so this is no matter of the instance.

## 4. Proofs

All 5384 obligations are proved by Z3, Zenon and LS4; no statement is without proof. Each module
proves the properties its run checks for every value of the constants, and adds results that have
no run of their own; those say how far a guarantee reaches, or why it needs what it needs.

**`TransformationCycleProofs`** (874 obligations), from `CycleAssumption` (`Null` is no result, node
or edge identifier) and `NullIsNoOutcome`, for any number of edges and any results. The invariant is
`TypeOK`, `Progress` (the history has the length the stage demands), `Registers` (the registers hold
the results of the last nodes), `Unbroken` and the properties. `NonErasure` is not inductive on its
own: while the walk is under way it says nothing. `Unbroken` says that until then each neighbouring
pair was preserved and, by transitivity, each result is preserved with respect to the start, which
is what makes the endpoint comparison redundant. `FailureIsLocal` and `AggregateTellsHowFar` need no
more than that: until an edge fails all recorded edges were accepted (`WalkedEdges`), so the sets
the counters count are intervals (`CompletedCounts`, `FailedCounts`), and a validated profile names
each edge once (`EdgeIdIsUnique`). Proved: `TypeOK`, `NonErasure`, `EdgesCompose`, `FailureIsLocal`,
`AggregateTellsHowFar`, the refinement `ImplementsEdgewise`. Beyond the run: `EndpointIsImplied` and
`EdgesAreFinal`.

**`CoverageProofs`** (411), from `SelectorAssumption`, `CoverageAssumption` and the assumption that
`Null` is no class, for any profiles, artifacts and normalizers. The central lemma is
`WinnerIsMostSpecific`: what `classifyPathV0` picks by position is most specific in the document's
sense. `EquallySpecificAgree` adds that two most specific declarations of a validated profile have
one class: they are the same selector. Together they give `ClassIsUnique`, and with it
`ResolutionIsUnique` and `VerdictFollowsResolution`. `NoUnnamedDifferenceSurvives` carries the
hypothesis `InheritedPaths = {}`: without it the property fails (section 5). Beyond the run:

* `UndeclaredIsIdenticalWithoutDottedKeys`: the property that the run `coverage_dotted_key`
  violates holds whenever no two leaves share a joined path and no path is an inherited name. These
  two are therefore all that stands between the code and its header comment.
* `CoverageNeverImproves`: the composed verdict repeats the evaluator's, escalates it over a path
  of class N or F, or is `unresolved` because a leaf cannot be compared. A violation gets lost in
  that one way (section 5) and in no other.

**`TraversalStabilityProofs`** (1141), from `TraversalAssumption` and `ComparisonAssumption`, for any
schedules, subjects and scripts. The invariant is `TypeOK`, `Phases` (which stages of coordinator,
process and timer occur together), `Observing` (a process has observed a prefix of its order, from
nothing) and `Collected` (accepted results are fresh observations of the schedules, in their
order). Proved: `TypeOK`, `NoOrphan`, `TimeoutIsFinal`, `ImplementsCampaign`. From the same
invariant `VerdictIsDrawnFromAllResults`, and `StableIsConformance`: a verdict is stable exactly
when each member, at each position of each schedule, is observed as conformant. What the schedules
find is then a question about positions:

* `CoverageDetectsDefects` proves `DefectsAreDetected` for *any* schedules in which each two members
  occur in both orders and each member comes first once. `FrozenSchedulesDetectDefects` shows that
  the twelve orders of v1 are such (a sequence and its reverse cover all pairs; the others begin
  with the members that neither of these begins with), `V0DetectsOrderDefects` that the five of v0
  suffice for `OrderDefectsAreDetectedByV0`.
* `ColdStartsAreNeeded`: v0 calls a member stable that misbehaves only when it runs first, for each
  of the seven members v1 adds a schedule for.

`DefectsUnderTest` in the hypotheses says that the subjects have at most one defect; the runs assume
it and TLC evaluates it. Two theorems are the safety content of `EventuallySettles`:
`NoRunGoesOnForever` (each step decreases, lexicographically, the schedules left, the stages left in
the launch, and what worker and timer can still do) and `CoordinatorIsNeverStranded` (until the run
settles, the coordinator, the timer or the system owes a step, or the worker was sent the signal and
ignores it; a worker that hangs has its timer).

**`ChronicleAuditProofs`** (614), from `CheckpointAssumption` (the digest has no collisions) and
`AuditAssumption`, for any number of auditors and chains of any length. The invariant is `TypeOK`,
`Chains` (a walk is linked by roots, and its sequence numbers count down) and `SameHistory`.
`SameHistory` needs `RootDeterminesCheckpoint`: two checkpoints that verify and have one root are
equal; then two walks with a common position agree on the next. Proved: `TypeOK`, `SameHistory`,
`HistoryIsComplete`, `AcceptedWasCreatable`, `ImplementsHistory`. Beyond the run:
`OneAuditSpeaksForAll` (two audits of one root that reach genesis hold the same list, and no other
audit of it gets further; numbers need not be exact), and two theorems about the reason codes:
`DirectSuccessorExactly` for exact numbers, and `RoundingHidesSameSequence`, which says when
`predecessor_same_sequence` is not reported.

**`SingletonFoldProofs`** (925), from `AdmissionAssumption`, `FoldAssumption` and `NoEnvelope`, for
any inputs and any digest, even one with collisions. The invariant says of each position what its
predecessors have established: the registers hold what is derived from the input, and every claim
below `position` holds (in terms of `Holds`, that is, of the abstract specification). Proved:
`TypeOK`, `AcceptsExactlyTheDerived`, `AgreesWithAdmission`, `ImplementsFirstFailure`. That the
digest may collide is no oversight: the evaluator compares every object as well as its digest.
Soundness is `AcceptedMeansAll`; completeness is `DerivedHolds`, what follows from its source
satisfies every claim. Beyond the run:

* `OnlyTheWritingMakesItThrow`: an evaluation throws at position 12 only for evidence whose root is
  stored in another writing, and no such evidence gets past it. `AdmissionCannotFailAsRecomputed`:
  if every root is stored as recomputation writes it, the property `fold_position12` violates holds.
* `CreatedIsAdmittedAsRecomputed` and `OneContentOneIdentityPerWriting`, about the operators of
  `EntryAdmission`: the writing of the stored root decides whether a proof object made from evidence
  is admitted with it, and one content has as many identities as its root has writings.

**`SessionReceiptProofs`** (846), from `SummaryAssumption` and `ReceiptAssumption`, for any sessions,
versions, working trees and number of summaries and requests. The invariant has a part for the
server (`Behind`: nothing is of a later version than the messages; `OneFork` and `Ordered`: while a
session is settled one summary of it runs at most, its stored diffs are not older than its list, and
nothing older than they are is about to be stored) and a part for the requests and the panel
(`JobOK`, `QuestionOK`: what a request has read is at least what the panel knew when it asked, and
beside the turn's list that is the list shown). `Ordered` is why storing comes before listing; it is
lost as soon as two summaries overlap, or one stores while a request is storing again. Proved:
`TypeOK`, `ReceiptFollowsRoute`, `ReceiptHashesListedFiles`, the refinement
`ImplementsLatestRequestWins`. Beyond the run: `ReceiptNeverGoesBack`; `StoredDiffsAdvance` (the
diffs of a settled session never go back, whatever the requests store again);
`ReceiptIsOfThePast` (a receipt may mix two states of a session, but no state yet to come).

**`ReceiptExplorerProofs`** (160), from `ExplorerAssumption`, for any receipts and any behaviour of a
panel in which the latest request wins. The properties need two additions: a proof that is there was
attached in this dialog, and a verification in flight compares root and content of one receipt.
Proved: `TypeOK`, `OneReceiptOneRoot`, `AnchoredWasAttached`, `NoFalseAlarm`. Beyond the run:
`AnchorMatchesUntilReplaced` (while the receipt is the one the dialog was opened on, the imported
transaction is the anchor of the root shown) and `MatchIsLostByReattachingOnly` (the step that makes
the two differ is attaching a proof anew).

**`PackageGeneratorProofs`** (413), from `PackageAssumption` and `ManifestAssumption`, for any
versions and contents. `AcceptedIsOneGeneration` is a statement about files that lie there after
crashes, so the invariant says where manifests come from: each was made of files of one generation
(`ManifestIsOneGeneration`), because a run that reached the hashing had written those two
(`WrittenSoFar`, `HashedIsWritten`) or was touched. `StillCurrent` says of an undisturbed run that
it still writes what the sources say, and `RenamesHaveSpec` that a run by renames began with a SPEC.
Proved: `TypeOK`, `AcceptedIsOneGeneration`, `CompletedWriteIsAccepted`, `UpToDateSurvivesCrash`,
`CheckedIsVerified`. Beyond the run: `RenamesLeaveWholeFiles` and `RenamesNeedNoException` (written
by renames, files are whole or absent, and what verifies is of one generation without the exception
of section 6), and `VerifiedIsUpToDate`: where the pinned identities tell generations apart,
verification is as strict as `--check`.

## 5. Disagreements between code and documents

Three runs each check one statement of a document or comment and violate it. Quotations and line
numbers are in `PROJECT.json`, under `findings`.

* `coverage_dotted_key`: a key that contains a dot and a nested key share one joined path. The walk
  keeps one of the two leaves, and a difference in the other one passes. Without such keys, and
  without inherited names, nothing passes (`UndeclaredIsIdenticalWithoutDottedKeys`).
* `fold_position12`: the repeated checks at position 12 "cannot fail", but evidence that stores its
  root in upper case passes positions 8 to 11, is refused by admission, and the evaluator throws. The writing is the
  only cause (`OnlyTheWritingMakesItThrow`).
* `explorer_anchor`: an imported result "must match" the Merkle root of the evidence; it is compared
  once, and after the receipt was replaced and a proof attached anew the transaction of the old root
  is shown as the anchor of the new one. No other step makes them differ
  (`MatchIsLostByReattachingOnly`).

Met while modelling, and not kept as runs; the models follow the code:

* The cycle recomputes the start node before it asks the first edge whether it applies
  (`transformation-stability-cycle.ts:285`); `docs/TRANSFORMATION_STABLE_EVIDENCE_INTEROPERABILITY_V0.md:117`
  wants applicability checked first.
* The same line says that coverage "MUST NOT downgrade `violation`", as does the comment at
  `transformation-stability-coverage.ts:588`; a plane that throws turns a violation into
  `unresolved`, and it is the only way one is lost (`CoverageNeverImproves`).
* A path named `constructor` is "normalized" by the property of that name that every object
  inherits, and never differs, although it is unclassified. The run `coverage` has no such path
  (`InheritedPaths = {}`), and the theorem says so in its hypothesis.
* v0 of the traversal rejects a complete run because the operating system reused a pid, which the
  documents call telemetry; and a member that fails under *each* schedule in the same way is
  reported as history sensitive, although the two axes are called independent.
* Above 2^53 a checkpoint may be a direct successor of one with its own sequence number, which
  `docs/CHRONICLE_CHECKPOINT_CONTINUITY_V0.md:115` says is reported as `predecessor_same_sequence`;
  it happens exactly where `n - 1` rounds to `n` (`RoundingHidesSameSequence`).
* Creation of a checkpoint pins its `schema` (`capsule/chronicle-portfolio-v0.ts:446`, `:453`);
  neither local verification (463-481) nor continuity compares it. A checkpoint of another schema
  with a root recomputed over it is accepted, and creation could not have made it.
* The default list of changes beside the receipt is of the working tree, and the receipt hashes the
  diffs stored at the last finished step: the two need not agree at any time. A change of the tree
  makes the panel ask although nothing it hashes has changed.

## 6. Limits

**Only model-checked.** `EventuallySettles` and `QuestionIsSettled`: liveness under fairness, and
`ENABLED`, are beyond the prover. Of the first, the two safety properties it rests on are proved
(section 4). Every other property of a run that passes is also proved.

**Abstracted.** Digests have no collisions, except in the fold, which does not need it. Text
(identities, reasons, JSON, hashes of packages) is a model value or left out, except where two
texts may coincide: joined paths, inherited names, roots in upper and lower case. Deep equality of
projections is equality.

**Exceptions stated in properties**, because the code promises no more; the hazards behind them are
real, and `PROJECT.json` lists them as covered by no property. `ReceiptHashesListedFiles` speaks of
the turn's list only, and excepts sessions whose summaries overlapped, whose write failed, or for
which a summary stored diffs while a request was storing them again (`settled`): nothing orders
these writes. `EventuallySettles` excepts a worker that ignores its signal, for which the
coordinator waits for ever, and `QuestionIsSettled` a list that changes for ever. `HistoryIsComplete`
excepts numbers above 2^53. `AcceptedIsOneGeneration` excepts generated files changed between their
writing and their hashing by a generator that writes in place; their manifest is then true to them.

**Known and not covered by a property.** Coverage: the second call of `transform` throws after the
first succeeded (`transformation-stability-coverage.ts:614`); coverage profile and transformation
profile carry separate policies that may disagree (line 291). Chronicle: two producers that extend
one checkpoint are out of the scope of `docs/CHRONICLE_CHECKPOINT_CONTINUITY_V0.md`. Fold: the
findings `*_commitment_mismatch` of positions 15 to 17 are never reported, because the shape checks
of the declarations pin every literal (`rsf/declaration-commitments.ts:225-354`) and a declaration
that passes them has the commitment. Desktop: a receipt combines messages and diffs of different
versions; an edit that leaves the list of *files* alone does not make the panel ask again; a request
that fails is not repeated, and the receipt before it stays under the identifier of the new session;
an imported anchor result is what somebody pasted, and no chain is asked whether it is true.
Neighborhood conformance: one member whose execution fails leaves the aggregate without a verdict
(`counterfactual-neighborhood-conformance.ts:661`).

**Left out of modelled parts.** Reverting and restoring a session
(`opencode/src/session/revert.ts:79`): it stores the diffs of the messages taken back in place of
the session's and lists nothing, so no property about stored diffs could hold across it; sessions
of the model are not reverted. Diffs of single messages, and snapshots torn by a concurrent edit.
Collections and portfolios of the chronicle: their order comes from `localeCompare`, whose result
depends on the machine. Traversal: a read of the worker's output that rejects
(`counterfactual-traversal-stability.ts:234-240` has a `finally` and no `catch`) would end the run and
leave its worker behind; reads do not fail in the model. Packages: manifests are not edited by hand;
one writer at a time, a reader in one step, a torn file is one
that does not parse, and temporary files a crash leaves behind are not part of the package.

**Not modelled.** *Neighborhood conformance and the verifier runner* evaluate one vector after
another within one call and share nothing but what the verifiers themselves leave behind; that, and
the order it makes visible, is `Observe` and `Evaluate` of `TraversalStability`. What remains of
them (a failure class for each stage, counts) is a function of one input. *No order or state to
check:* materialized input derivation, profiles handed to the evaluators (the modules take a profile
as a parameter), the Lane K classification, the normalizer registry (a constant of the coverage
modules), canonicalization and schema validation, producer adapters, render plan and crystal
mapping, frozen repository paths, command-line scripts. *Outside the library:* the viewer, the
Python renderer, interoperability experiments, conformance packages, whose documents are what the
statements of section 5 are taken from, and the vendored editor in `desktop-v1/`. The editor makes
up nearly all lines of the repository and is not about receipts; what ReceiptOS added to it is
modelled, so the share of lines the modules stand for is small, and would only grow by modelling
an unrelated program.

## 7. Plan

Done, in this order, each with its proofs: cycle with `EdgewisePreservation`; flat evaluator and
coverage; schedules, comparison and coordinator with `StabilityCampaign`; checkpoints and audits
with `WriteOnceHistory`; admission and fold with `FirstFailureWins`; summaries, server and panel
with `LatestRequestWins`, and the dialog over it; package generators.

What could follow, in order of worth:

1. `NeighborhoodConformance`: preflight before the first execution, each member through the stages
   of the runner, aggregate verdict and counts, composed with `TraversalStability`. Abstract
   specification: the verdict is a function of the *set* of observations, and a failure of the
   harness never blames a subject.
2. Reverting in `SessionSummary`, with diffs that know the range of messages they were made from, so
   that one can state what a receipt after a restored revert hashes.
3. `ChronicleCollection`: collections and portfolios with an order that is a parameter. Abstract
   specification: the root is a function of a set of entries if the order is total.
