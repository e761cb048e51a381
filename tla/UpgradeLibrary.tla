--------------------------- MODULE UpgradeLibrary ---------------------------
(***************************************************************************)
(* One call of the Solidity library (src/src/Upgrades.sol, internal/Core)  *)
(* that validates and deploys an implementation.  It reads the output      *)
(* directory many times: the provenance helper compares the artifact with  *)
(* the build-infos before the validation, after it and before the creation,*)
(* the validator reads the build-infos only, and the creation code is read *)
(* from the artifact at the end.  Between any two reads another process    *)
(* may compile the project.                                                *)
(***************************************************************************)
EXTENDS Naturals, FiniteSets

CONSTANTS
  Builds,      \* the builds of the contract
  Safe,        \* those that validate as upgrade safe
  Compatible,  \* those whose storage fits the reference contract
  NeedsLibs,   \* those with placeholders of linked libraries
  Jobs,        \* the calls of the library, with their options
  None,        \* no build: there is no such file
  MaxEdits     \* how often the output directory changes

ASSUME LibraryAssumption ==
  /\ None \notin Builds /\ None \notin Jobs
  /\ MaxEdits \in Nat
  /\ \A job \in Jobs :
       /\ job.op \in {"validate", "deploy"}
       /\ {job.upgrade, job.skipAll, job.skipStorage, job.reference} \subseteq BOOLEAN
       /\ job.libs \in {"none", "given"}

VARIABLES
  artifact, \* the build that the artifact file holds
  infos,    \* the builds whose build-info is in the directory
  edits,    \* how often the directory has changed
  left,     \* what the build-infos were, and no longer are, since the call began
  restored, \* have they become again what they were?
  job,      \* the call, None if there is none
  pc,       \* where it stands
  round,    \* which of the three provenance checks is next or under way
  seen,     \* the artifact that this check has read
  checked,  \* the build that the checks have agreed on so far
  shown,    \* the build that the validator was shown
  report,   \* how the validator ended: its exit code and marker lines
  deployed  \* the build whose creation code was deployed

disk == <<artifact, infos, edits>>
callVars == <<job, pc, round, seen, checked, shown, report, deployed>>
libVars == <<disk, left, restored, callVars>>

Markers == {"SUCCESS", "FAILED"}

NoReport == [exit |-> 0, lines |-> {}]

-----------------------------------------------------------------------------
(***************************************************************************)
(* The output directory, in the hands of other processes.                  *)
(***************************************************************************)
Intact(b) == artifact = b /\ infos = {b}

Touch ==
  /\ edits < MaxEdits
  /\ edits' = edits + 1
  /\ UNCHANGED callVars

WriteArtifact ==
  /\ Touch
  /\ artifact' \in (Builds \cup {None}) \ {artifact}
  /\ UNCHANGED <<infos, left, restored>>

WriteInfos ==
  /\ Touch
  /\ infos' \in (SUBSET Builds) \ {infos}
  /\ left' = IF pc = "idle" THEN {} ELSE left \cup {infos}
  /\ restored' = (restored \/ infos' \in left')
  /\ UNCHANGED artifact

-----------------------------------------------------------------------------
Goto(step) == pc' = step

\* What a call remembers, at its start and when it is over.
Afresh ==
  /\ round' = 1 /\ seen' = None /\ checked' = None
  /\ shown' = None /\ report' = NoReport /\ deployed' = None
  /\ left' = {} /\ restored' = FALSE

LibInit ==
  /\ artifact \in Builds /\ infos = {artifact}
  /\ edits \in 0..MaxEdits /\ left = {} /\ restored = FALSE
  /\ job = None /\ pc = "idle"
  /\ round = 1 /\ seen = None /\ checked = None
  /\ shown = None /\ report = NoReport /\ deployed = None

\* unsafeSkipAllChecks returns before anything is read: the deployment then
\* only looks the artifact up.
Begin(j) ==
  /\ pc = "idle"
  /\ job' = j
  /\ Goto(IF ~j.skipAll THEN "check" ELSE IF j.op = "deploy" THEN "lookup" ELSE "passed")
  /\ Afresh
  /\ UNCHANGED disk

Fail == Goto("failed")

-----------------------------------------------------------------------------
(***************************************************************************)
(* assertMatchDetailed, three times: the artifact is read, then the one    *)
(* build-info that holds the contract, and the two must be of one build;   *)
(* the second and third check must find what the first did.                *)
(***************************************************************************)
ReadArtifact ==
  /\ pc = "check"
  /\ \/ /\ artifact # None
        /\ seen' = artifact
        /\ Goto("match")
     \/ /\ artifact = None
        /\ Fail
        /\ UNCHANGED seen
  /\ UNCHANGED <<disk, left, restored, job, round, checked, shown, report, deployed>>

\* Mutant: what was validated is not compared with what is deployed.
UnchangedValidation == round # 2 \/ seen = checked

\* assertUnchanged: nothing to compare with in the first round.
UnchangedBuild == round = 1 \/ seen = checked

\* Exactly one build-info holds the contract, and it is of the same build.
Matches == infos = {seen}

MatchBuildInfo ==
  /\ pc = "match"
  /\ \/ /\ Matches /\ UnchangedBuild
        /\ checked' = seen
        /\ Goto(CASE round = 1 -> "validator" [] round = 2 -> "classify" [] OTHER -> "read")
     \/ /\ ~(Matches /\ UnchangedBuild)
        /\ Fail
        /\ UNCHANGED checked
  /\ UNCHANGED <<disk, left, restored, job, round, seen, shown, report, deployed>>

-----------------------------------------------------------------------------
(***************************************************************************)
(* The validator, a process of its own.                                    *)
(***************************************************************************)
\* What the options ask of a build (_buildValidateCommand): a reference is
\* required of an upgrade unless the storage check is skipped.
Passes(b, j) ==
  /\ b \in Safe
  /\ j.upgrade /\ ~j.skipStorage => j.reference
  /\ j.reference /\ ~j.skipStorage => b \in Compatible

\* It may be cut off at any moment, and a diagnostic may contain a marker.
Reports(passes) ==
  IF passes THEN [exit : {0, 1}, lines : {{}, {"SUCCESS"}}]
  ELSE [exit : {0, 1}, lines : {{}, {"FAILED"}, Markers}]

Validate ==
  /\ pc = "validator"
  /\ \/ \E b \in infos :
          /\ shown' = b
          /\ report' \in Reports(Passes(b, job))
     \/ /\ report' = [exit |-> 1, lines |-> {}]
        /\ UNCHANGED shown
  /\ round' = 2
  /\ Goto("check")
  /\ UNCHANGED <<disk, left, restored, job, seen, checked, deployed>>

\* classifyValidationResult; a failure of the tool reverts like a rejection.
Succeeded == report.exit = 0 /\ report.lines = {"SUCCESS"}

Classify ==
  /\ pc = "classify"
  /\ \/ /\ Succeeded
        /\ round' = 3
        /\ Goto(IF job.op = "deploy" THEN "check" ELSE "passed")
     \/ /\ ~Succeeded
        /\ Fail
        /\ UNCHANGED round
  /\ UNCHANGED <<disk, left, restored, job, seen, checked, shown, report, deployed>>

-----------------------------------------------------------------------------
(***************************************************************************)
(* deploy.                                                                 *)
(***************************************************************************)
LookUp ==
  /\ pc = "lookup"
  /\ Goto(IF artifact # None THEN "read" ELSE "failed")
  /\ UNCHANGED <<disk, left, restored, job, round, seen, checked, shown, report, deployed>>

\* The hashes that creationCodeFromSnapshot expects, none if nothing was
\* checked.
SnapshotExpected == job.skipAll \/ artifact = checked

\* Every library that is needed is given, and no other is.
LinksWell == job.libs = IF artifact \in NeedsLibs THEN "given" ELSE "none"

Deploy ==
  /\ pc = "read"
  /\ \/ /\ artifact # None /\ SnapshotExpected /\ LinksWell
        /\ deployed' = artifact
        /\ Goto("deployed")
     \/ /\ ~(artifact # None /\ SnapshotExpected /\ LinksWell)
        /\ Fail
        /\ UNCHANGED deployed
  /\ UNCHANGED <<disk, left, restored, job, round, seen, checked, shown, report>>

\* The script goes on; a call that failed has reverted it.
Return ==
  /\ pc \in {"passed", "deployed", "failed"}
  /\ Goto("idle")
  /\ job' = None
  /\ Afresh
  /\ UNCHANGED disk

-----------------------------------------------------------------------------
LibStep ==
  \/ ReadArtifact \/ MatchBuildInfo \/ Validate \/ Classify \/ LookUp \/ Deploy

Compile == WriteArtifact \/ WriteInfos

LibNext == Compile \/ LibStep \/ Return \/ \E j \in Jobs : Begin(j)

LibSpec == LibInit /\ [][LibNext]_libVars

-----------------------------------------------------------------------------
Steps == {"idle", "check", "match", "validator", "classify", "lookup", "read",
          "passed", "deployed", "failed"}

LibTypeOK ==
  /\ artifact \in Builds \cup {None} /\ infos \subseteq Builds
  /\ edits \in 0..MaxEdits
  /\ left \subseteq SUBSET Builds /\ restored \in BOOLEAN
  /\ pc \in Steps /\ round \in 1..3
  /\ job \in IF pc = "idle" THEN {None} ELSE Jobs
  /\ {seen, checked, shown, deployed} \subseteq Builds \cup {None}
  /\ report \in [exit : {0, 1}, lines : SUBSET Markers]

(* An implementation that is deployed has passed the validation that its    *)
(* options ask for: the validator was shown this very build and accepted it.*)
(* Not if the build-infos were replaced and put back under the validation,  *)
(* which compares what was there before with what is there after, nor with  *)
(* unsafeSkipAllChecks (Core.sol, _validate and deploy).                    *)
DeploysWhatPassed ==
  pc = "deployed" /\ ~job.skipAll /\ ~restored => shown = deployed /\ Passes(deployed, job)
=============================================================================
