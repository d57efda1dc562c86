----------------------------- MODULE PackageGenerator -----------------------------
(***************************************************************************)
(* The generators of the closed conformance packages, a developer who      *)
(* changes the sources they generate from, and crashes. A package is a     *)
(* hand-written SPEC, two generated files (the contract and the DCN or the *)
(* schedule set) and a manifest of their hashes. --write replaces the      *)
(* generated files one by one; --check and the verification of package     *)
(* identity read what lies there.                                          *)
(*                                                                         *)
(* The two generators differ. That of the umbrella package replaces each   *)
(* file by a rename and computes the manifest in memory; those of the      *)
(* traversal packages write in place and hash what they find on disk.      *)
(* The hash of a file stands for the file.                                 *)
(***************************************************************************)

CONSTANTS
    Sources,        \* versions of the constants the package is generated from
    Consistent,     \* those whose pinned digests agree with what they generate
    Contracts, Contract,   \* contract.json: all contents, and that of a version
    Data, Datum,    \* dcn/neighborhood.json or schedules/schedule-set.json, likewise
    Pin,            \* the pinned identity a content carries, which verification compares
    Specs,          \* contents of SPEC.md
    Missing, Torn,  \* no file; a file cut short
    None

ASSUME PackageAssumption ==
    /\ Consistent \subseteq Sources
    /\ Contract \in [Sources -> Contracts] /\ Datum \in [Sources -> Data]
    /\ {Missing, Torn} \cap (Contracts \cup Data \cup Specs) = {}

Manifests == [spec : Specs, contract : Contracts, data : Data]

ASSUME ManifestAssumption == {Missing, Torn, None} \cap Manifests = {}

VARIABLES
    style,      \* "rename" or "inPlace": which generator, never changes
    source,     \* the version of the sources in the repository
    spec, contract, data, manifest,   \* the package on disk
    writer,     \* the run of --write, None if there is none
    outcome,    \* how the last run of --write ended
    calm,       \* history: nobody else changed anything since it began
    upToDate,   \* history: the package it began with was accepted by --check
    tainted     \* history: a generated file was changed while the manifest was made

package == <<spec, contract, data, manifest>>
vars == <<style, source, package, writer, outcome, calm, upToDate, tainted>>

Stages == {"contract", "data", "hash", "manifest"}

(* A run: the sources and SPEC it read, the hashes it took from disk, whether *)
(* a file is open and truncated, and whether somebody changed a generated one. *)
Runs == [stage : Stages, source : Consistent, spec : Specs \cup {Missing},
         hashes : Manifests \cup {None}, open : BOOLEAN, touched : BOOLEAN]

OnDisk == [spec |-> spec, contract |-> contract, data |-> data]

GeneratedFrom(s, text) == [spec |-> text, contract |-> Contract[s], data |-> Datum[s]]
-----------------------------------------------------------------------------
(* What the readers say of the package as it lies on disk.                   *)

(* The generated files are compared with what the sources generate; the       *)
(* manifest with one over the files that lie on disk.                         *)
\* Mutant: --check does not compare the manifest.
ChecksFilesOnly ==
    /\ source \in Consistent
    /\ contract = Contract[source] /\ data = Datum[source]
    /\ spec # Missing
CheckAccepts ==
    /\ source \in Consistent
    /\ contract = Contract[source] /\ data = Datum[source]
    /\ spec # Missing
    /\ manifest = OnDisk

\* Mutant: verification compares pinned identities and not the hashes of the files.
MatchesByPin == manifest \in Manifests /\ contract \in Contracts /\ data \in Data
MatchesManifest == manifest \in Manifests /\ manifest = OnDisk

Verifies ==
    /\ source \in Consistent
    /\ MatchesManifest
    /\ Pin[contract] = Pin[Contract[source]] /\ Pin[data] = Pin[Datum[source]]
-----------------------------------------------------------------------------
Init ==
    /\ style \in {"rename", "inPlace"}
    /\ source \in Sources /\ spec \in Specs
    /\ \/ contract = Missing /\ data = Missing /\ manifest = Missing
       \/ contract = Contract[source] /\ data = Datum[source] /\ manifest = OnDisk
    /\ writer = None /\ outcome = "none"
    /\ calm = FALSE /\ upToDate = FALSE /\ tainted = FALSE

(* The developer commits another version of the sources, or saves the SPEC. *)
EditSource(s) ==
    /\ source' = s /\ calm' = FALSE
    /\ UNCHANGED <<style, package, writer, outcome, upToDate, tainted>>

EditSpec(text) ==
    /\ spec' = text /\ calm' = FALSE
    /\ UNCHANGED <<style, source, contract, data, manifest, writer, outcome, upToDate, tainted>>

(* Somebody edits, restores or deletes a generated file. *)
Touch ==
    /\ \/ contract' \in Contracts \cup {Missing} /\ UNCHANGED data
       \/ data' \in Data \cup {Missing} /\ UNCHANGED contract
    /\ calm' = FALSE
    /\ writer' = IF writer = None THEN None ELSE [writer EXCEPT !.touched = TRUE]
    /\ UNCHANGED <<style, source, spec, manifest, outcome, upToDate, tainted>>

(* --write: everything is generated before anything is written; sources that *)
(* contradict their pins, and here a missing SPEC, end the run.               *)
StartWrite ==
    /\ writer = None
    /\ calm' = TRUE /\ upToDate' = CheckAccepts
    /\ IF source \in Consistent /\ (style = "rename" => spec # Missing)
       THEN /\ writer' = [stage |-> "contract", source |-> source, spec |-> spec, hashes |-> None,
                          open |-> FALSE, touched |-> FALSE]
            /\ outcome' = "running"
       ELSE writer' = None /\ outcome' = "failed"
    /\ UNCHANGED <<style, source, package, tainted>>

(* A file is truncated before its bytes are written, or replaced in one step. *)
\* Mutant: the umbrella generator writes in place as well.
TruncatesAlways == ~writer.open
Truncates == style = "inPlace" /\ ~writer.open

Opened == [writer EXCEPT !.open = TRUE]
Filled(next) == [writer EXCEPT !.open = FALSE, !.stage = next]

WriteContract ==
    /\ writer # None /\ writer.stage = "contract"
    /\ IF Truncates
       THEN contract' = Torn /\ writer' = Opened
       ELSE contract' = Contract[writer.source] /\ writer' = Filled("data")
    /\ UNCHANGED <<style, source, spec, data, manifest, outcome, calm, upToDate, tainted>>

\* Mutant: a data file that is there is left alone.
WriteMissingData ==
    /\ writer # None /\ writer.stage = "data"
    /\ IF data # Missing
       THEN UNCHANGED data /\ writer' = Filled(IF style = "inPlace" THEN "hash" ELSE "manifest")
       ELSE data' = Datum[writer.source] /\ writer' = Filled(IF style = "inPlace" THEN "hash" ELSE "manifest")
    /\ UNCHANGED <<style, source, spec, contract, manifest, outcome, calm, upToDate, tainted>>
WriteData ==
    /\ writer # None /\ writer.stage = "data"
    /\ IF Truncates
       THEN data' = Torn /\ writer' = Opened
       ELSE /\ data' = Datum[writer.source]
            /\ writer' = Filled(IF style = "inPlace" THEN "hash" ELSE "manifest")
    /\ UNCHANGED <<style, source, spec, contract, manifest, outcome, calm, upToDate, tainted>>

(* The files are read back; one that is missing ends the run, the others stay written. *)
\* Mutant: a missing file goes into the manifest like the others.
HashAnything ==
    /\ writer # None /\ writer.stage = "hash"
    /\ writer' = [writer EXCEPT !.stage = "manifest", !.hashes = OnDisk]
    /\ UNCHANGED <<style, source, package, outcome, calm, upToDate, tainted>>
Hash ==
    /\ writer # None /\ writer.stage = "hash"
    /\ IF OnDisk \in Manifests
       THEN writer' = [writer EXCEPT !.stage = "manifest", !.hashes = OnDisk] /\ UNCHANGED outcome
       ELSE writer' = None /\ outcome' = "failed"
    /\ UNCHANGED <<style, source, package, calm, upToDate, tainted>>

MadeManifest ==
    IF style = "inPlace" THEN writer.hashes ELSE GeneratedFrom(writer.source, writer.spec)

WriteManifest ==
    /\ writer # None /\ writer.stage = "manifest"
    /\ IF Truncates
       THEN manifest' = Torn /\ writer' = Opened /\ UNCHANGED <<outcome, tainted>>
       ELSE /\ manifest' = MadeManifest
            /\ tainted' = (style = "inPlace" /\ writer.touched)
            /\ writer' = None /\ outcome' = "ok"
    /\ UNCHANGED <<style, source, spec, contract, data, calm, upToDate>>

(* The process dies between two system calls. *)
Crash ==
    /\ writer # None
    /\ writer' = None /\ outcome' = "crashed"
    /\ UNCHANGED <<style, source, package, calm, upToDate, tainted>>

Next ==
    \/ \E s \in Sources : EditSource(s)
    \/ \E text \in Specs \cup {Missing} : EditSpec(text)
    \/ Touch
    \/ StartWrite \/ WriteContract \/ WriteData \/ Hash \/ WriteManifest
    \/ Crash

Spec == Init /\ [][Next]_vars
-----------------------------------------------------------------------------
(* Properties                                                                *)

(* Types of the package and of a run. *)
TypeOK ==
    /\ style \in {"rename", "inPlace"} /\ source \in Sources
    /\ spec \in Specs \cup {Missing}
    /\ contract \in Contracts \cup {Missing, Torn} /\ data \in Data \cup {Missing, Torn}
    /\ manifest \in Manifests \cup {Missing, Torn}
    /\ writer \in {None} \cup Runs
    /\ outcome \in {"none", "running", "ok", "failed", "crashed"}
    /\ calm \in BOOLEAN /\ upToDate \in BOOLEAN /\ tainted \in BOOLEAN

(* Wherever runs of the generator crashed and from whatever sources they     *)
(* wrote, a package that verifies is the whole of one generation. It rests   *)
(* on the manifest being written last. The in-place generators hash what     *)
(* they find, so a file changed between their writing and their hashing is   *)
(* excepted.                                                                 *)
AcceptedIsOneGeneration ==
    Verifies /\ ~tainted =>
       \E s \in Sources : contract = Contract[s] /\ data = Datum[s]

(* A run that ends well, with nobody changing anything meanwhile, leaves a   *)
(* package that --check and verification accept, whatever a crash before it  *)
(* left there.                                                               *)
CompletedWriteIsAccepted == outcome = "ok" /\ calm => CheckAccepts /\ Verifies

(* Renaming pays: writing a package that is up to date never spoils it, not  *)
(* for a moment and not by a crash.                                          *)
UpToDateSurvivesCrash == style = "rename" /\ upToDate /\ calm => CheckAccepts

(* --check and the verification, which read the files each in a way of its   *)
(* own, do not contradict each other: what has no drift verifies.            *)
CheckedIsVerified == CheckAccepts => Verifies
===============================================================================
