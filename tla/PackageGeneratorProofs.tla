--------------------------- MODULE PackageGeneratorProofs ---------------------------
(***************************************************************************)
(* The package invariants for any number of generations, contents and      *)
(* pins. What makes them inductive is the progress of the run: what it has *)
(* written lies on disk unless somebody touched it, what it hashed is what *)
(* it had written, and while nobody interferes the sources and the SPEC it *)
(* read are still the current ones.                                        *)
(***************************************************************************)
EXTENDS PackageGenerator, TLAPS

WrittenSoFar ==
    writer # None /\ ~writer.touched =>
       /\ writer.stage # "contract" => contract = Contract[writer.source]
       /\ writer.stage \in {"hash", "manifest"} => data = Datum[writer.source]

HashedIsWritten ==
    writer # None /\ writer.stage = "manifest" /\ style = "inPlace" =>
       /\ writer.hashes \in Manifests
       /\ ~writer.touched => /\ writer.hashes.contract = Contract[writer.source]
                             /\ writer.hashes.data = Datum[writer.source]

StillCurrent ==
    writer # None /\ calm =>
       /\ writer.source = source /\ writer.spec = spec /\ ~writer.touched
       /\ writer.stage = "manifest" /\ style = "inPlace" => writer.hashes = OnDisk

RenamesHaveSpec == writer # None /\ style = "rename" => writer.spec \in Specs

RunsEnd == outcome = "ok" => writer = None

ManifestIsOneGeneration ==
    manifest \in Manifests /\ ~tainted =>
       \E s \in Sources : manifest.contract = Contract[s] /\ manifest.data = Datum[s]

CompletedIsChecked == outcome = "ok" /\ calm => CheckAccepts

Progress == WrittenSoFar /\ HashedIsWritten /\ StillCurrent /\ RenamesHaveSpec /\ RunsEnd
Package == ManifestIsOneGeneration /\ CompletedIsChecked /\ UpToDateSurvivesCrash

Inv == TypeOK /\ Progress /\ Package

(* What opening and filling a file do to the record of the run.              *)
LEMMA FilledFields ==
    ASSUME NEW next \in Stages, writer \in Runs
    PROVE  /\ Filled(next) \in Runs /\ Filled(next).stage = next
           /\ Filled(next).source = writer.source /\ Filled(next).spec = writer.spec
           /\ Filled(next).hashes = writer.hashes /\ Filled(next).touched = writer.touched
BY DEF Filled, Runs

LEMMA OpenedFields ==
    ASSUME writer \in Runs
    PROVE  /\ Opened \in Runs /\ Opened.stage = writer.stage
           /\ Opened.source = writer.source /\ Opened.spec = writer.spec
           /\ Opened.hashes = writer.hashes /\ Opened.touched = writer.touched
BY DEF Opened, Runs

(* A generation's manifest is a manifest, over its own files.                *)
LEMMA GeneratedManifest ==
    ASSUME NEW s \in Sources, NEW text \in Specs
    PROVE  /\ GeneratedFrom(s, text) \in Manifests
           /\ GeneratedFrom(s, text).spec = text
           /\ GeneratedFrom(s, text).contract = Contract[s]
           /\ GeneratedFrom(s, text).data = Datum[s]
BY PackageAssumption DEF GeneratedFrom, Manifests

LEMMA InitInv == ASSUME Init PROVE Inv
<1>1. TypeOK
  <2>1. /\ source \in Sources /\ spec \in Specs
        /\ Contract[source] \in Contracts /\ Datum[source] \in Data
    BY PackageAssumption DEF Init
  <2>2. /\ contract \in Contracts \cup {Missing} /\ data \in Data \cup {Missing}
        /\ manifest \in Manifests \cup {Missing}
    BY <2>1 DEF Init, OnDisk, Manifests
  <2>. QED BY <2>1, <2>2 DEF Init, TypeOK
<1>2. Progress
  BY DEF Init, Progress, WrittenSoFar, HashedIsWritten, StillCurrent, RenamesHaveSpec, RunsEnd
<1>3. ManifestIsOneGeneration
  BY ManifestAssumption DEF Init, ManifestIsOneGeneration, OnDisk
<1>4. CompletedIsChecked /\ UpToDateSurvivesCrash
  BY DEF Init, CompletedIsChecked, UpToDateSurvivesCrash
<1>. QED BY <1>1, <1>2, <1>3, <1>4 DEF Inv, Package

(* The developer's edits end the calm, and a touched file marks the run.     *)
LEMMA EditInv ==
    ASSUME Inv, \/ \E s \in Sources : EditSource(s)
                \/ \E text \in Specs \cup {Missing} : EditSpec(text)
    PROVE  Inv'
<1>1. /\ source' \in Sources /\ spec' \in Specs \cup {Missing} /\ calm' = FALSE
      /\ UNCHANGED <<style, contract, data, manifest, writer, outcome, upToDate, tainted>>
  BY DEF EditSource, EditSpec, package, Inv, TypeOK
<1>2. TypeOK'
  BY <1>1 DEF Inv, TypeOK
<1>3. Progress'
  BY <1>1 DEF Inv, Progress, WrittenSoFar, HashedIsWritten, StillCurrent, RenamesHaveSpec, RunsEnd
<1>4. Package'
  BY <1>1 DEF Inv, Package, ManifestIsOneGeneration, CompletedIsChecked, UpToDateSurvivesCrash
<1>. QED BY <1>2, <1>3, <1>4 DEF Inv

LEMMA TouchInv == ASSUME Inv, Touch PROVE Inv'
<1>1. /\ contract' \in Contracts \cup {Missing, Torn} /\ data' \in Data \cup {Missing, Torn}
      /\ calm' = FALSE
      /\ UNCHANGED <<style, source, spec, manifest, outcome, upToDate, tainted>>
  BY DEF Touch, Inv, TypeOK
<1>2. IF writer = None THEN writer' = None
      ELSE /\ writer' \in Runs /\ writer'.touched /\ writer'.stage = writer.stage
           /\ writer'.spec = writer.spec /\ writer'.hashes = writer.hashes
  BY DEF Touch, Inv, TypeOK, Runs
<1>3. TypeOK'
  BY <1>1, <1>2 DEF Inv, TypeOK
<1>4. Progress'
  BY <1>1, <1>2 DEF Inv, Progress, WrittenSoFar, HashedIsWritten, StillCurrent, RenamesHaveSpec, RunsEnd
<1>5. Package'
  BY <1>1 DEF Inv, Package, ManifestIsOneGeneration, CompletedIsChecked, UpToDateSurvivesCrash
<1>. QED BY <1>3, <1>4, <1>5 DEF Inv

(* A run begins with what it reads, and has written nothing.                 *)
LEMMA StartInv == ASSUME Inv, StartWrite PROVE Inv'
<1>1. /\ calm' = TRUE /\ upToDate' = CheckAccepts /\ writer = None /\ outcome' \in {"running", "failed"}
      /\ UNCHANGED <<style, source, spec, contract, data, manifest, tainted>>
  BY DEF StartWrite, package
<1>2. \/ writer' = None
      \/ /\ writer' \in Runs /\ writer'.stage = "contract" /\ ~writer'.touched
         /\ writer'.source = source /\ writer'.spec = spec
         /\ style = "rename" => spec # Missing
  <2>. DEFINE run == [stage |-> "contract", source |-> source, spec |-> spec, hashes |-> None,
                      open |-> FALSE, touched |-> FALSE]
  <2>1. /\ run.stage = "contract" /\ ~run.touched /\ run.source = source /\ run.spec = spec
        /\ source \in Consistent => run \in Runs
    BY DEF Inv, TypeOK, Runs, Stages
  <2>2. \/ writer' = None
        \/ writer' = run /\ source \in Consistent /\ (style = "rename" => spec # Missing)
    BY DEF StartWrite
  <2>. HIDE DEF run
  <2>. QED BY <2>1, <2>2
<1>3. CheckAccepts \in BOOLEAN
  BY DEF CheckAccepts
<1>4. TypeOK'
  BY <1>1, <1>2, <1>3 DEF Inv, TypeOK
<1>5. Progress'
  BY <1>1, <1>2 DEF Inv, TypeOK, Progress, WrittenSoFar, HashedIsWritten, StillCurrent, RenamesHaveSpec, RunsEnd
<1>6. CheckAccepts' <=> CheckAccepts
  BY <1>1 DEF CheckAccepts, OnDisk
<1>7. Package'
  BY <1>1, <1>6 DEF Inv, Package, ManifestIsOneGeneration, CompletedIsChecked, UpToDateSurvivesCrash
<1>. QED BY <1>4, <1>5, <1>7 DEF Inv

(* Writing the contract: in place it is torn first and the run goes nowhere; *)
(* otherwise it is the one its sources give.                                 *)
LEMMA WriteContractInv == ASSUME Inv, WriteContract PROVE Inv'
<1>1. writer \in Runs /\ writer # None /\ writer.stage = "contract"
  BY DEF WriteContract, Inv, TypeOK
<1>2. UNCHANGED <<style, source, spec, data, manifest, outcome, calm, upToDate, tainted>>
  BY DEF WriteContract
<1>3. writer.source \in Sources /\ Contract[writer.source] \in Contracts
  BY <1>1, PackageAssumption DEF Runs
<1>4. /\ writer' \in Runs /\ writer'.source = writer.source /\ writer'.spec = writer.spec
      /\ writer'.hashes = writer.hashes /\ writer'.touched = writer.touched
      /\ contract' \in Contracts \cup {Torn}
      /\ \/ style = "inPlace" /\ writer'.stage = "contract"
         \/ writer'.stage = "data" /\ contract' = Contract[writer.source]
  <2>1. CASE Truncates
    <3>1. writer' = Opened /\ contract' = Torn /\ style = "inPlace"
      BY <2>1 DEF WriteContract, Truncates
    <3>. QED BY <3>1, <1>1, OpenedFields
  <2>2. CASE ~Truncates
    <3>1. writer' = Filled("data") /\ contract' = Contract[writer.source] /\ "data" \in Stages
      BY <2>2 DEF WriteContract, Stages
    <3>. QED BY <3>1, <1>1, <1>3, FilledFields
  <2>. QED BY <2>1, <2>2
<1>5. TypeOK'
  BY <1>2, <1>4 DEF Inv, TypeOK
<1>6. Progress'
  BY <1>1, <1>2, <1>4 DEF Inv, Progress, WrittenSoFar, HashedIsWritten, StillCurrent, RenamesHaveSpec, RunsEnd
<1>7. Package'
  <2>1. ManifestIsOneGeneration'
    BY <1>2 DEF Inv, Package, ManifestIsOneGeneration
  <2>2. outcome' # "ok"
    BY <1>1, <1>2 DEF Inv, Progress, RunsEnd
  <2>3. UpToDateSurvivesCrash'
    BY <1>1, <1>2, <1>4 DEF Inv, Package, Progress, StillCurrent, UpToDateSurvivesCrash, CheckAccepts, OnDisk
  <2>. QED BY <2>1, <2>2, <2>3 DEF Package, CompletedIsChecked
<1>. QED BY <1>5, <1>6, <1>7 DEF Inv

(* Writing the data; a run in place then hashes, the other goes on to the    *)
(* manifest.                                                                 *)
LEMMA WriteDataInv == ASSUME Inv, WriteData PROVE Inv'
<1>1. writer \in Runs /\ writer # None /\ writer.stage = "data"
  BY DEF WriteData, Inv, TypeOK
<1>2. UNCHANGED <<style, source, spec, contract, manifest, outcome, calm, upToDate, tainted>>
  BY DEF WriteData
<1>3. writer.source \in Sources /\ Datum[writer.source] \in Data
  BY <1>1, PackageAssumption DEF Runs
<1>4. /\ writer' \in Runs /\ writer'.source = writer.source /\ writer'.spec = writer.spec
      /\ writer'.hashes = writer.hashes /\ writer'.touched = writer.touched
      /\ data' \in Data \cup {Torn}
      /\ \/ style = "inPlace" /\ writer'.stage = "data"
         \/ /\ data' = Datum[writer.source]
            /\ \/ style = "inPlace" /\ writer'.stage = "hash"
               \/ style # "inPlace" /\ writer'.stage = "manifest"
  <2>1. CASE Truncates
    <3>1. writer' = Opened /\ data' = Torn /\ style = "inPlace"
      BY <2>1 DEF WriteData, Truncates
    <3>. QED BY <3>1, <1>1, OpenedFields
  <2>2. CASE ~Truncates
    <3>1. /\ data' = Datum[writer.source] /\ {"hash", "manifest"} \subseteq Stages
          /\ \/ style = "inPlace" /\ writer' = Filled("hash")
             \/ style # "inPlace" /\ writer' = Filled("manifest")
      BY <2>2 DEF WriteData, Stages
    <3>. QED BY <3>1, <1>1, <1>3, FilledFields
  <2>. QED BY <2>1, <2>2
<1>5. TypeOK'
  BY <1>2, <1>4 DEF Inv, TypeOK
<1>6. Progress'
  BY <1>1, <1>2, <1>4 DEF Inv, Progress, WrittenSoFar, HashedIsWritten, StillCurrent, RenamesHaveSpec, RunsEnd
<1>7. Package'
  <2>1. ManifestIsOneGeneration'
    BY <1>2 DEF Inv, Package, ManifestIsOneGeneration
  <2>2. outcome' # "ok"
    BY <1>1, <1>2 DEF Inv, Progress, RunsEnd
  <2>3. UpToDateSurvivesCrash'
    BY <1>1, <1>2, <1>4 DEF Inv, Package, Progress, StillCurrent, UpToDateSurvivesCrash, CheckAccepts, OnDisk
  <2>. QED BY <2>1, <2>2, <2>3 DEF Package, CompletedIsChecked
<1>. QED BY <1>5, <1>6, <1>7 DEF Inv

(* What is hashed lies on disk, and so is what was written unless touched.   *)
LEMMA HashInv == ASSUME Inv, Hash PROVE Inv'
<1>1. writer \in Runs /\ writer # None /\ writer.stage = "hash"
  BY DEF Hash, Inv, TypeOK
<1>2. UNCHANGED <<style, source, spec, contract, data, manifest, calm, upToDate, tainted>>
  BY DEF Hash, package
<1>3. outcome' \in {outcome, "failed"}
  BY DEF Hash
<1>4. \/ writer' = None
      \/ /\ writer' \in Runs /\ writer'.stage = "manifest" /\ writer'.source = writer.source
         /\ writer'.spec = writer.spec /\ writer'.touched = writer.touched
         /\ writer'.hashes = OnDisk /\ OnDisk \in Manifests
  <2>1. CASE OnDisk \in Manifests
    <3>1. writer' = [writer EXCEPT !.stage = "manifest", !.hashes = OnDisk]
      BY <2>1 DEF Hash
    <3>. QED BY <3>1, <2>1, <1>1 DEF Runs, Stages
  <2>2. CASE OnDisk \notin Manifests
    BY <2>2 DEF Hash
  <2>. QED BY <2>1, <2>2
<1>5. OnDisk' = OnDisk /\ OnDisk.contract = contract /\ OnDisk.data = data
  BY <1>2 DEF OnDisk
<1>6. outcome # "ok" /\ outcome' # "ok"
  BY <1>1, <1>3 DEF Inv, Progress, RunsEnd
<1>7. TypeOK'
  BY <1>2, <1>3, <1>4 DEF Inv, TypeOK
<1>8. Progress'
  BY <1>1, <1>2, <1>4, <1>5, <1>6
  DEF Inv, Progress, WrittenSoFar, HashedIsWritten, StillCurrent, RenamesHaveSpec, RunsEnd
<1>9. Package'
  BY <1>2, <1>5, <1>6
  DEF Inv, Package, ManifestIsOneGeneration, CompletedIsChecked, UpToDateSurvivesCrash, CheckAccepts
<1>. QED BY <1>7, <1>8, <1>9 DEF Inv

(* The last file: from here on the package is one generation, and the        *)
(* current one if nobody interfered.                                         *)
LEMMA WriteManifestInv == ASSUME Inv, WriteManifest PROVE Inv'
<1>1. writer \in Runs /\ writer # None /\ writer.stage = "manifest"
  BY DEF WriteManifest, Inv, TypeOK
<1>2. UNCHANGED <<style, source, spec, contract, data, calm, upToDate>>
  BY DEF WriteManifest
<1>3. writer.source \in Sources /\ writer.source \in Consistent
  BY <1>1, PackageAssumption DEF Runs
<1>4. style \in {"rename", "inPlace"} /\ outcome # "ok"
  BY <1>1 DEF Inv, TypeOK, Progress, RunsEnd
<1>5. CASE Truncates
  <2>1. writer' = Opened /\ manifest' = Torn /\ style = "inPlace" /\ UNCHANGED <<outcome, tainted>>
    BY <1>5 DEF WriteManifest, Truncates
  <2>2. /\ writer' \in Runs /\ writer'.stage = writer.stage /\ writer'.source = writer.source
        /\ writer'.spec = writer.spec /\ writer'.hashes = writer.hashes
        /\ writer'.touched = writer.touched
    BY <2>1, <1>1, OpenedFields
  <2>3. OnDisk' = OnDisk
    BY <1>2 DEF OnDisk
  <2>4. TypeOK'
    BY <1>2, <2>1, <2>2 DEF Inv, TypeOK
  <2>5. Progress'
    BY <1>1, <1>2, <1>4, <2>1, <2>2, <2>3
    DEF Inv, Progress, WrittenSoFar, HashedIsWritten, StillCurrent, RenamesHaveSpec, RunsEnd
  <2>6. Package'
    BY <1>2, <1>4, <2>1, ManifestAssumption
    DEF Package, ManifestIsOneGeneration, CompletedIsChecked, UpToDateSurvivesCrash
  <2>. QED BY <2>4, <2>5, <2>6 DEF Inv
<1>6. CASE ~Truncates
  <2>1. /\ manifest' = MadeManifest /\ writer' = None /\ outcome' = "ok"
        /\ tainted' = (style = "inPlace" /\ writer.touched)
    BY <1>6 DEF WriteManifest
  <2>2. MadeManifest \in Manifests
        /\ \/ style = "inPlace" /\ writer.touched
           \/ MadeManifest.contract = Contract[writer.source] /\ MadeManifest.data = Datum[writer.source]
    <3>1. CASE style = "inPlace"
      <4>1. MadeManifest = writer.hashes
        BY <3>1 DEF MadeManifest
      <4>. QED BY <4>1, <3>1, <1>1 DEF Inv, Progress, HashedIsWritten
    <3>2. CASE style = "rename"
      <4>1. writer.spec \in Specs
        BY <3>2, <1>1 DEF Inv, Progress, RenamesHaveSpec
      <4>2. MadeManifest = GeneratedFrom(writer.source, writer.spec)
        BY <3>2 DEF MadeManifest
      <4>. QED BY <4>1, <4>2, <1>3, GeneratedManifest
    <3>. QED BY <1>4, <3>1, <3>2
  <2>3. calm => /\ source = writer.source /\ contract = Contract[source] /\ data = Datum[source]
                /\ spec # Missing /\ MadeManifest = OnDisk
    <3>. SUFFICES ASSUME calm
                  PROVE  /\ source = writer.source /\ contract = Contract[source]
                         /\ data = Datum[source] /\ spec # Missing /\ MadeManifest = OnDisk
      OBVIOUS
    <3>1. /\ source = writer.source /\ writer.spec = spec /\ ~writer.touched
          /\ contract = Contract[source] /\ data = Datum[source]
      BY <1>1 DEF Inv, Progress, StillCurrent, WrittenSoFar
    <3>2. MadeManifest = OnDisk
      BY <1>1, <1>4, <3>1 DEF MadeManifest, GeneratedFrom, OnDisk, Inv, Progress, StillCurrent
    <3>3. spec \in Specs
      BY <2>2, <3>2 DEF OnDisk, Manifests
    <3>. QED BY <3>1, <3>2, <3>3, PackageAssumption
  <2>4. TypeOK'
    BY <1>2, <2>1, <2>2 DEF Inv, TypeOK
  <2>5. Progress'
    BY <2>1 DEF Progress, WrittenSoFar, HashedIsWritten, StillCurrent, RenamesHaveSpec, RunsEnd
  <2>6. ManifestIsOneGeneration'
    BY <1>3, <2>1, <2>2 DEF ManifestIsOneGeneration
  <2>7. calm => CheckAccepts'
    BY <1>2, <1>3, <2>1, <2>3 DEF CheckAccepts, OnDisk
  <2>. QED
    BY <1>2, <2>4, <2>5, <2>6, <2>7 DEF Inv, Package, CompletedIsChecked, UpToDateSurvivesCrash
<1>. QED BY <1>5, <1>6

(* A crash leaves the disk as it is.                                         *)
LEMMA CrashInv == ASSUME Inv, Crash PROVE Inv'
BY DEF Crash, package, Inv, TypeOK, Progress, WrittenSoFar, HashedIsWritten, StillCurrent,
   RenamesHaveSpec, RunsEnd, Package, ManifestIsOneGeneration, CompletedIsChecked,
   UpToDateSurvivesCrash, CheckAccepts, OnDisk

LEMMA StutterInv == ASSUME Inv, UNCHANGED vars PROVE Inv'
BY DEF vars, package, Inv, TypeOK, Progress, WrittenSoFar, HashedIsWritten, StillCurrent,
   RenamesHaveSpec, RunsEnd, Package, ManifestIsOneGeneration, CompletedIsChecked,
   UpToDateSurvivesCrash, CheckAccepts, OnDisk

(* A package without drift has the hashes and identities its sources pin.    *)
LEMMA CheckImpliesVerification == ASSUME TypeOK PROVE CheckedIsVerified
<1>. SUFFICES ASSUME CheckAccepts PROVE Verifies
  BY DEF CheckedIsVerified
<1>1. OnDisk \in Manifests
  BY PackageAssumption DEF TypeOK, CheckAccepts, OnDisk, Manifests
<1>. QED BY <1>1 DEF CheckAccepts, Verifies, MatchesManifest

(* The invariant holds wherever runs crash and whatever is edited.           *)
THEOREM PackageInvariant == Spec => []Inv
<1>1. Init => Inv
  BY InitInv
<1>2. Inv /\ [Next]_vars => Inv'
  BY EditInv, TouchInv, StartInv, WriteContractInv, WriteDataInv, HashInv, WriteManifestInv,
     CrashInv, StutterInv DEF Next
<1>. QED BY <1>1, <1>2, PTL DEF Spec

(* Files and runs keep their types through crashes and edits.                *)
THEOREM PackageTypeCorrect == Spec => []TypeOK
<1>1. Inv => TypeOK
  BY DEF Inv
<1>. QED BY <1>1, PackageInvariant, PTL

(* A package that verifies is the whole of one generation, whichever runs    *)
(* crashed before, because the manifest is written last.                     *)
THEOREM VerifiedPackageIsOneGeneration == Spec => []AcceptedIsOneGeneration
<1>1. Inv => AcceptedIsOneGeneration
  BY DEF Inv, Package, ManifestIsOneGeneration, AcceptedIsOneGeneration, Verifies, MatchesManifest, OnDisk
<1>. QED BY <1>1, PackageInvariant, PTL

(* An undisturbed --write that ends well leaves a package that is accepted.  *)
THEOREM UndisturbedWriteIsAccepted == Spec => []CompletedWriteIsAccepted
<1>1. Inv => CompletedWriteIsAccepted
  BY CheckImpliesVerification DEF Inv, Package, CompletedIsChecked, CompletedWriteIsAccepted, CheckedIsVerified
<1>. QED BY <1>1, PackageInvariant, PTL

(* Replacing files by renames, --write never spoils a package that is up to  *)
(* date, at no point of the run.                                             *)
THEOREM RenamesKeepUpToDate == Spec => []UpToDateSurvivesCrash
<1>1. Inv => UpToDateSurvivesCrash
  BY DEF Inv, Package
<1>. QED BY <1>1, PackageInvariant, PTL

(* --check never accepts what the verification of package identity refuses.  *)
THEOREM CheckedPackagesVerify == Spec => []CheckedIsVerified
<1>1. Inv => CheckedIsVerified
  BY CheckImpliesVerification DEF Inv
<1>. QED BY <1>1, PackageInvariant, PTL

-----------------------------------------------------------------------------
(* What renaming buys: no file is ever half written.                         *)
RenamesAreWhole ==
    style = "rename" =>
       /\ contract \in Contracts \cup {Missing}
       /\ data \in Data \cup {Missing}
       /\ manifest \in Manifests \cup {Missing}
       /\ ~tainted

LEMMA WholeInvariance == ASSUME Inv, RenamesAreWhole, [Next]_vars PROVE RenamesAreWhole'
<1>1. CASE (\E s \in Sources : EditSource(s)) \/ (\E text \in Specs \cup {Missing} : EditSpec(text))
  BY <1>1 DEF EditSource, EditSpec, package, RenamesAreWhole
<1>2. CASE Touch
  BY <1>2 DEF Touch, RenamesAreWhole
<1>3. CASE StartWrite \/ Hash \/ Crash \/ UNCHANGED vars
  BY <1>3 DEF StartWrite, Hash, Crash, vars, package, RenamesAreWhole
<1>4. ASSUME writer # None
      PROVE  writer.source \in Sources /\ Contract[writer.source] \in Contracts
             /\ Datum[writer.source] \in Data
  BY <1>4, PackageAssumption DEF Inv, TypeOK, Runs
<1>5. CASE WriteContract
  BY <1>4, <1>5 DEF WriteContract, Truncates, RenamesAreWhole
<1>6. CASE WriteData
  BY <1>4, <1>6 DEF WriteData, Truncates, RenamesAreWhole
<1>7. CASE WriteManifest
  <2>1. ASSUME style = "rename"
        PROVE  MadeManifest \in Manifests
    <3>1. writer.spec \in Specs
      BY <1>7, <2>1 DEF WriteManifest, Inv, Progress, RenamesHaveSpec
    <3>2. MadeManifest = GeneratedFrom(writer.source, writer.spec)
      BY <2>1 DEF MadeManifest
    <3>. QED BY <3>1, <3>2, <1>4, <1>7, GeneratedManifest DEF WriteManifest
  <2>. QED BY <2>1, <1>7 DEF WriteManifest, Truncates, RenamesAreWhole
<1>. QED BY <1>1, <1>2, <1>3, <1>5, <1>6, <1>7 DEF Next

(* The umbrella generator replaces files by renames: wherever it crashes,    *)
(* and whoever edits beside it, every file is there as a whole or not at     *)
(* all, and its manifest needs no exception for files changed meanwhile.     *)
THEOREM RenamesLeaveWholeFiles == Spec => []RenamesAreWhole
<1>1. Init => RenamesAreWhole
  <2>. SUFFICES ASSUME Init PROVE RenamesAreWhole
    OBVIOUS
  <2>1. /\ source \in Sources /\ spec \in Specs
        /\ Contract[source] \in Contracts /\ Datum[source] \in Data
    BY PackageAssumption DEF Init
  <2>. QED BY <2>1 DEF Init, OnDisk, Manifests, RenamesAreWhole
<1>2. Inv /\ RenamesAreWhole /\ [Next]_vars => RenamesAreWhole'
  BY WholeInvariance
<1>. QED BY <1>1, <1>2, PackageInvariant, PTL DEF Spec

(* A package written by renames that verifies is of one generation, without  *)
(* any condition on what else happened.                                      *)
RenamedIsOneGeneration ==
    style = "rename" /\ Verifies =>
       \E s \in Sources : contract = Contract[s] /\ data = Datum[s]

(* The exception for tainted manifests is one for in-place writing only.     *)
THEOREM RenamesNeedNoException == Spec => []RenamedIsOneGeneration
<1>1. AcceptedIsOneGeneration /\ RenamesAreWhole => RenamedIsOneGeneration
  BY DEF AcceptedIsOneGeneration, RenamesAreWhole, RenamedIsOneGeneration
<1>. QED BY <1>1, VerifiedPackageIsOneGeneration, RenamesLeaveWholeFiles, PTL

(* The pinned identities tell any two generations apart.                     *)
PinsTellApart ==
    \A s, t \in Sources :
       Pin[Contract[s]] = Pin[Contract[t]] /\ Pin[Datum[s]] = Pin[Datum[t]] =>
          Contract[s] = Contract[t] /\ Datum[s] = Datum[t]

(* What verification leaves open is what the pins leave open: where they     *)
(* tell generations apart, a package that verifies is also up to date for    *)
(* --check.                                                                  *)
THEOREM VerifiedIsUpToDate ==
    ASSUME PinsTellApart
    PROVE  Spec => [](Verifies /\ ~tainted => CheckAccepts)
<1>1. Inv /\ AcceptedIsOneGeneration => (Verifies /\ ~tainted => CheckAccepts)
  <2>. SUFFICES ASSUME Inv, AcceptedIsOneGeneration, Verifies, ~tainted
                PROVE  CheckAccepts
    OBVIOUS
  <2>1. PICK s \in Sources : contract = Contract[s] /\ data = Datum[s]
    BY DEF AcceptedIsOneGeneration
  <2>2. source \in Sources /\ source \in Consistent
    BY DEF Inv, TypeOK, Verifies
  <2>3. contract = Contract[source] /\ data = Datum[source]
    BY <2>1, <2>2, PinsTellApart DEF PinsTellApart, Verifies
  <2>4. spec \in Specs /\ manifest = OnDisk
    BY DEF Verifies, MatchesManifest, OnDisk, Manifests
  <2>. QED BY <2>2, <2>3, <2>4, PackageAssumption DEF CheckAccepts
<1>. QED BY <1>1, PackageInvariant, VerifiedPackageIsOneGeneration, PTL
===============================================================================
