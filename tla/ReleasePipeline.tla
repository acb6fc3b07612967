-------------------------- MODULE ReleasePipeline --------------------------
(***************************************************************************)
(* The Release Validation workflow the release policy checker accepts      *)
(* (tools/releasepolicy/policy.go, acceptedReleasePolicy): its triggers,   *)
(* its concurrency group, its job graph and what its jobs do, for one v*   *)
(* tag.                                                                    *)
(*                                                                         *)
(* The workflow is pushed or dispatched several times, jobs fail for any   *)
(* reason, maintainers re-run what failed or everything, and creating the  *)
(* GitHub Release can fail half-way.  The tag itself never moves: a        *)
(* repository ruleset restricts v* tags (ADR-0007).                        *)
(*                                                                         *)
(* How the runner schedules jobs and keeps outputs and artifacts between   *)
(* the attempts of a run is external.                                      *)
(***************************************************************************)
EXTENDS Naturals

CONSTANTS Runs,        \* workflow runs
          MaxAttempts, \* bound on the attempts of a run
          NoRelease    \* the tag has no published release

ASSUME AttemptsAssumption == MaxAttempts \in Nat \ {0}

VARIABLES tag,        \* what the checks would find out about the tag
          event,      \* event[r]: how the run was triggered
          phase,      \* phase[r]: where the run stands in its concurrency group
          attempt,    \* attempt[r]: 0 before the run is triggered
          status,     \* status[r][j]: state or conclusion of job j
          scan,       \* scan[r]: steps.gosec.outcome
          sha,        \* sha[r]: needs.sbom.outputs.sbom-sha256, 0 if not set
          sboms,      \* sboms[r]: versions uploaded as release-sbom
          assets,     \* assets[r]: versions uploaded as release-assets
          step,       \* step[r]: next step of the release job
          dist,       \* dist[r]: the SBOM version the release job downloaded
          misled,     \* misled[r]: its gh release view missed a release or draft
          draft,      \* a release creation failed half-way and left a draft
          published   \* the published release, or NoRelease

vars == <<tag, event, phase, attempt, status, scan, sha, sboms, assets, step, dist,
          misled, draft, published>>

runVars  == <<event, phase, attempt>>
dataVars == <<scan, sha, sboms, assets>>
pubVars  == <<step, dist, misled, draft, published>>

---------------------------------------------------------------------------
Jobs == {"unsupported-ref", "verify-tag", "check", "race", "vuln", "gosec", "sbom",
         "sbom-attestation", "release"}

Gates == {"check", "race", "vuln"}

needs(j) ==
  CASE j \in Gates \cup {"gosec"} -> {"verify-tag"}
    [] j = "sbom"             -> {"verify-tag", "check", "race", "vuln", "gosec"}
    [] j = "sbom-attestation" -> {"sbom"}
    [] j = "release"          -> {"verify-tag", "sbom", "sbom-attestation"}
    [] OTHER                  -> {}

(* tagGuard, for every job but the one that explains the refusal.          *)
ifCond(j, e) == IF j = "unsupported-ref" THEN e = "branch" ELSE e \in {"push", "dispatch"}

(* One group per ref: the runs for the tag share one.                      *)
SameGroup(r, q) == (event[r] = "branch") <=> (event[q] = "branch")

Digests == 1..MaxAttempts  \* the SBOM of each attempt of a run is a new file

TypeOK ==
  /\ tag \in [signed : BOOLEAN, supported : BOOLEAN]
  /\ event \in [Runs -> {"none", "push", "dispatch", "branch"}]
  /\ phase \in [Runs -> {"new", "pending", "active", "done", "cancelled"}]
  /\ attempt \in [Runs -> 0..MaxAttempts]
  /\ status \in [Runs -> [Jobs -> {"waiting", "running", "success", "failure", "skipped"}]]
  /\ scan \in [Runs -> {"none", "success", "failure"}]
  /\ sha \in [Runs -> {0} \cup Digests]
  /\ sboms \in [Runs -> SUBSET Digests]
  /\ assets \in [Runs -> SUBSET Digests]
  /\ step \in [Runs -> {"none", "view", "create"}]
  /\ dist \in [Runs -> {0} \cup Digests]
  /\ misled \in [Runs -> BOOLEAN]
  /\ draft \in BOOLEAN
  /\ published \in [run : Runs, sbom : Digests] \cup {NoRelease}

Init ==
  /\ tag \in [signed : BOOLEAN, supported : BOOLEAN]
  /\ event = [r \in Runs |-> "none"]
  /\ phase = [r \in Runs |-> "new"]
  /\ attempt = [r \in Runs |-> 0]
  /\ status = [r \in Runs |-> [j \in Jobs |-> "waiting"]]
  /\ scan = [r \in Runs |-> "none"]
  /\ sha = [r \in Runs |-> 0]
  /\ sboms = [r \in Runs |-> {}]
  /\ assets = [r \in Runs |-> {}]
  /\ step = [r \in Runs |-> "none"]
  /\ dist = [r \in Runs |-> 0]
  /\ misled = [r \in Runs |-> FALSE]
  /\ draft = FALSE
  /\ published = NoRelease

---------------------------------------------------------------------------
(* A run enters its concurrency group: it starts if nobody is there, and   *)
(* otherwise waits, in place of any run that was waiting before it; a run  *)
(* in progress is left alone (cancel-in-progress: false).                  *)
Others(r) == {q \in Runs \ {r} : event'[q] # "none" /\ SameGroup(r, q)'}

EnqueueCancelMutant(r) ==
  phase' = [q \in Runs |-> IF q = r THEN "active"
                           ELSE IF q \in Others(r) /\ phase[q] \in {"pending", "active"}
                           THEN "cancelled" ELSE phase[q]]

Enqueue(r) ==
  phase' =
    IF \A q \in Others(r) : phase[q] \notin {"pending", "active"}
    THEN [phase EXCEPT ![r] = "active"]
    ELSE [q \in Runs |-> IF q = r THEN "pending"
                         ELSE IF q \in Others(r) /\ phase[q] = "pending" THEN "cancelled"
                         ELSE phase[q]]

Trigger(r, e) ==
  /\ phase[r] = "new"
  /\ event' = [event EXCEPT ![r] = e]
  /\ attempt' = [attempt EXCEPT ![r] = 1]
  /\ Enqueue(r)
  /\ UNCHANGED <<tag, status, dataVars, pubVars>>

Start(r) ==
  /\ phase[r] = "pending"
  /\ \A q \in Runs : SameGroup(r, q) => phase[q] # "active"
  /\ phase' = [phase EXCEPT ![r] = "active"]
  /\ UNCHANGED <<tag, event, attempt, status, dataVars, pubVars>>

(* A job starts once every job it needs has succeeded.                     *)
Ready(r, j) ==
  /\ phase[r] = "active"
  /\ status[r][j] = "waiting"
  /\ ifCond(j, event[r])
  /\ \A n \in needs(j) : status[r][n] = "success"

Conclude(r, j, c) == status' = [status EXCEPT ![r][j] = c]

(* Nothing is left to start: the jobs that never will are skipped.         *)
Complete(r) ==
  /\ phase[r] = "active"
  /\ \A j \in Jobs : ~Ready(r, j) /\ status[r][j] # "running"
  /\ status' = [status EXCEPT ![r] =
                  [j \in Jobs |-> IF @[j] = "waiting" THEN "skipped" ELSE @[j]]]
  /\ phase' = [phase EXCEPT ![r] = "done"]
  /\ UNCHANGED <<tag, event, attempt, dataVars, pubVars>>

(* A maintainer re-runs all jobs, or those that did not succeed; outputs   *)
(* and artifacts of earlier attempts stay.  For the bound, re-running ends *)
(* once a run has come to its last attempt.                                *)
Rerun(r, all) ==
  /\ phase[r] \in {"done", "cancelled"}
  /\ \A q \in Runs : attempt[q] < MaxAttempts
  /\ attempt' = [attempt EXCEPT ![r] = @ + 1]
  /\ status' = [status EXCEPT ![r] =
                  [j \in Jobs |-> IF all \/ @[j] # "success" THEN "waiting" ELSE @[j]]]
  /\ UNCHANGED event
  /\ Enqueue(r)
  /\ UNCHANGED <<tag, dataVars, pubVars>>

---------------------------------------------------------------------------
(* Any job may fail: runner, network, time limit, or its own finding.      *)
Explain(r) ==
  /\ Ready(r, "unsupported-ref")
  /\ Conclude(r, "unsupported-ref", "failure")
  /\ UNCHANGED <<tag, runVars, dataVars, pubVars>>

TagVerifiesMutant == tag.signed
TagVerifies == tag.signed /\ tag.supported

VerifyTag(r) ==
  /\ Ready(r, "verify-tag")
  /\ \/ TagVerifies /\ Conclude(r, "verify-tag", "success")
     \/ Conclude(r, "verify-tag", "failure")
  /\ UNCHANGED <<tag, runVars, dataVars, pubVars>>

Gate(r, j) ==
  /\ j \in Gates
  /\ Ready(r, j)
  /\ \E c \in {"success", "failure"} : Conclude(r, j, c)
  /\ UNCHANGED <<tag, runVars, dataVars, pubVars>>

(* The scan step continues on error so that its report is uploaded; a last *)
(* step fails the job if the scan did.                                     *)
ReportPasses(outcome) == outcome # "failure"

Gosec(r) ==
  /\ Ready(r, "gosec")
  /\ \E outcome \in {"success", "failure"}, uploaded \in BOOLEAN :
       /\ scan' = [scan EXCEPT ![r] = outcome]
       /\ Conclude(r, "gosec",
                   IF uploaded /\ ReportPasses(outcome) THEN "success" ELSE "failure")
  /\ UNCHANGED <<tag, runVars, sha, sboms, assets, pubVars>>

(* Generate, validate, hash, upload.                                       *)
Sbom(r) ==
  /\ Ready(r, "sbom")
  /\ \/ /\ Conclude(r, "sbom", "success")
        /\ sha' = [sha EXCEPT ![r] = attempt[r]]
        /\ sboms' = [sboms EXCEPT ![r] = @ \cup {attempt[r]}]
     \/ /\ Conclude(r, "sbom", "failure")
        /\ sboms' \in {sboms, [sboms EXCEPT ![r] = @ \cup {attempt[r]}]}
        /\ UNCHANGED sha
  /\ UNCHANGED <<tag, runVars, scan, assets, pubVars>>

(* Download the SBOM, attest it, upload it with its bundle.  The download  *)
(* gives some version this run has uploaded.                               *)
Attest(r) ==
  /\ Ready(r, "sbom-attestation")
  /\ \E d \in sboms[r] :
       \/ /\ Conclude(r, "sbom-attestation", "success")
          /\ assets' = [assets EXCEPT ![r] = @ \cup {d}]
       \/ /\ Conclude(r, "sbom-attestation", "failure")
          /\ assets' \in {assets, [assets EXCEPT ![r] = @ \cup {d}]}
  /\ UNCHANGED <<tag, runVars, scan, sha, sboms, pubVars>>

---------------------------------------------------------------------------
(* The release job: download, compare the digest with the sbom job's       *)
(* output, extract the release notes (or fail for want of them).  Only a   *)
(* push goes on to publish.                                                *)
PrepareOKMutant(r, d) == TRUE
PrepareOK(r, d) == d = sha[r]

Download(r, d) == dist' = [dist EXCEPT ![r] = d]

publishGuard(r) == event[r] = "push"

PrepareRelease(r) ==
  /\ Ready(r, "release")
  /\ \E d \in assets[r] :
       \/ /\ PrepareOK(r, d) /\ publishGuard(r)
          /\ Conclude(r, "release", "running")
          /\ step' = [step EXCEPT ![r] = "view"]
          /\ Download(r, d)
       \/ /\ PrepareOK(r, d) /\ ~publishGuard(r)
          /\ Conclude(r, "release", "success")
          /\ UNCHANGED <<step, dist>>
       \/ /\ Conclude(r, "release", "failure")
          /\ UNCHANGED <<step, dist>>
  /\ UNCHANGED <<tag, runVars, dataVars, misled, draft, published>>

EndRelease(r, c) ==
  /\ Conclude(r, "release", c)
  /\ step' = [step EXCEPT ![r] = "none"]
  /\ misled' = [misled EXCEPT ![r] = FALSE]

(* gh release view: a release or draft that is found ends the job.  A call *)
(* that fails for another reason reads like one that found nothing.        *)
ReleaseExistsMutant == published # NoRelease
ReleaseExistsDraftMutant == draft
ReleaseExists == draft \/ published # NoRelease

ViewRelease(r) ==
  /\ step[r] = "view"
  /\ \/ ReleaseExists /\ EndRelease(r, "failure")
     \/ /\ step' = [step EXCEPT ![r] = "create"]
        /\ misled' = [misled EXCEPT ![r] = ReleaseExists]
        /\ UNCHANGED status
  /\ UNCHANGED <<tag, runVars, dataVars, dist, draft, published>>

(* gh release create.  Whether the service would refuse a second release   *)
(* for the tag is left open: it may take the place of the first.  The call *)
(* can fail leaving nothing, a draft, or a complete release.               *)
Created(r) == published' = [run |-> r, sbom |-> dist[r]]

CreateRelease(r) ==
  /\ step[r] = "create"
  /\ \/ Created(r) /\ EndRelease(r, "success") /\ UNCHANGED draft
     \/ Created(r) /\ EndRelease(r, "failure") /\ UNCHANGED draft
     \/ EndRelease(r, "failure") /\ UNCHANGED <<draft, published>>
     \/ EndRelease(r, "failure") /\ draft' = TRUE /\ UNCHANGED published
  /\ UNCHANGED <<tag, runVars, dataVars, dist>>

(* The maintainer follows the advice of the refusal.                       *)
DeleteRelease ==
  /\ ReleaseExists
  /\ draft' = FALSE
  /\ published' = NoRelease
  /\ UNCHANGED <<tag, runVars, status, dataVars, step, dist, misled>>

---------------------------------------------------------------------------
Work(r) ==
  \/ Explain(r) \/ VerifyTag(r) \/ (\E j \in Gates : Gate(r, j)) \/ Gosec(r)
  \/ Sbom(r) \/ Attest(r)
  \/ PrepareRelease(r) \/ ViewRelease(r) \/ CreateRelease(r)

Schedule(r) == Start(r) \/ Work(r) \/ Complete(r)

Next ==
  \/ \E r \in Runs :
       \/ \E e \in {"push", "dispatch", "branch"} : Trigger(r, e)
       \/ \E all \in BOOLEAN : Rerun(r, all)
       \/ Schedule(r)
  \/ DeleteRelease

Spec == Init /\ [][Next]_vars

(* The service goes on with the runs it has accepted, and every job ends:  *)
(* each has a time limit.  Nobody has to trigger or re-run anything.       *)
FairSpec == Spec /\ \A r \in Runs : WF_vars(Schedule(r))

---------------------------------------------------------------------------
(* A release appears only through the publish step of a pushed run whose   *)
(* gates have all passed, the security scan without findings, for a tag    *)
(* that verifies; its SBOM is the one that run's sbom job hashed.  Re-runs *)
(* cannot mix in anything older.                                           *)
PublishEarned ==
  [][published' \notin {published, NoRelease} =>
       LET r == published'.run
       IN  /\ event[r] = "push"
           /\ tag.signed /\ tag.supported
           /\ \A j \in Jobs \ {"unsupported-ref", "release"} : status[r][j] = "success"
           /\ scan[r] = "success"
           /\ published'.sbom = sha[r]]_vars

(* However often the workflow is pushed or re-run, no run is about to      *)
(* create a release while one is published, unless its gh release view     *)
(* failed: what the look found is still so when gh release create is       *)
(* called, although another run could have created one in between.  This   *)
(* rests on the script and the concurrency group, not on the service.  The *)
(* create-or-edit flow of ADR-0007, step 7, is not what the script does.   *)
NoReplacement ==
  \A r \in Runs : step[r] = "create" /\ published # NoRelease => misled[r]

(* While the draft of a failed creation is there, no run publishes beside  *)
(* it: the refusal leaves it to the maintainer.  Only a run whose gh       *)
(* release view failed can, never one that looked before the draft of      *)
(* another run came about and created after it.                            *)
DraftBlocksPublish ==
  [][draft /\ published' \notin {published, NoRelease} => misled[published'.run]]_vars

(* A tag that does not verify stops every other job before it starts.      *)
NothingWithoutVerifiedTag ==
  \A r \in Runs, j \in Jobs \ {"unsupported-ref", "verify-tag"} :
    status[r][j] \in {"running", "success", "failure"} =>
      tag.signed /\ tag.supported /\ status[r]["verify-tag"] = "success"

(* A run in progress is not given up because another was triggered, and    *)
(* comes to its end.                                                       *)
ActiveRunConcludes == \A r \in Runs : phase[r] = "active" ~> phase[r] = "done"

=============================================================================
