----------------------- MODULE ReleasePipelineProofs -----------------------
(***************************************************************************)
(* Proofs about ReleasePipeline for any number of workflow runs and any    *)
(* bound on their attempts.  What a publish step relies on was found out   *)
(* by jobs that ended long before, some in an earlier attempt: the         *)
(* invariant says that what they found out is still so.                    *)
(***************************************************************************)
EXTENDS ReleasePipeline, TLAPS

Acted(r, j) == status[r][j] \in {"running", "success", "failure"}

(* A run that has been triggered has an event and an attempt.              *)
TriggeredInv ==
  \A r \in Runs : phase[r] # "new" => event[r] # "none" /\ attempt[r] # 0

(* Every job that has acted did so after what it needs had succeeded, in   *)
(* whichever attempt, and a success of theirs is not taken back under it.  *)
NeedsInv ==
  \A r \in Runs, j \in Jobs : Acted(r, j) => \A n \in needs(j) : status[r][n] = "success"

(* What a success means that outlives its job.                             *)
VerdictInv ==
  \A r \in Runs :
    /\ status[r]["verify-tag"] = "success" => TagVerifies
    /\ status[r]["gosec"] = "success" => scan[r] = "success"

(* Only the release job is ever between two steps, in an active run for a  *)
(* pushed tag, with the SBOM that the sbom job hashed.                     *)
RunningInv ==
  \A r \in Runs :
    /\ \A j \in Jobs : status[r][j] = "running" => j = "release" /\ step[r] # "none"
    /\ step[r] # "none" => /\ status[r]["release"] = "running"
                           /\ phase[r] = "active" /\ event[r] = "push"
                           /\ dist[r] = sha[r] /\ dist[r] # 0

(* One run of a concurrency group is active.                               *)
GroupInv ==
  \A r, q \in Runs : phase[r] = "active" /\ phase[q] = "active" /\ SameGroup(r, q) => r = q

(* A run that is about to create a release beside another, or beside a     *)
(* draft, was misled: what the others found is still so.                   *)
LookInv == \A r \in Runs : ReleaseExists /\ step[r] = "create" => misled[r]

Inv ==
  /\ TypeOK /\ TriggeredInv /\ NeedsInv /\ VerdictInv /\ RunningInv /\ GroupInv /\ LookInv

---------------------------------------------------------------------------
(* Statuses are strings per run and job.                                   *)
LEMMA ConcludeStatus ==
  ASSUME TypeOK, NEW r \in Runs, NEW j \in Jobs,
         NEW c \in {"running", "success", "failure"}, Conclude(r, j, c)
  PROVE  /\ status' \in [Runs -> [Jobs -> {"waiting", "running", "success", "failure", "skipped"}]]
         /\ status'[r][j] = c
         /\ \A q \in Runs, k \in Jobs : q # r \/ k # j => status'[q][k] = status[q][k]
BY DEF TypeOK, Conclude

(* Enqueueing moves runs about and lets no second one be active.           *)
LEMMA EnqueuePhase ==
  ASSUME TypeOK, NEW r \in Runs, Enqueue(r), phase[r] \in {"new", "done", "cancelled"}
  PROVE  /\ phase' \in [Runs -> {"new", "pending", "active", "done", "cancelled"}]
         /\ phase'[r] \in {"pending", "active"}
         /\ \A q \in Runs \ {r} :
              /\ phase'[q] = "active" <=> phase[q] = "active"
              /\ phase'[q] # "new" => phase[q] # "new"
         /\ phase'[r] = "active" =>
              \A q \in Runs \ {r} : event'[q] # "none" /\ SameGroup(r, q)' => phase'[q] # "active"
BY DEF TypeOK, Enqueue, Others

LEMMA TypeStep == Inv /\ [Next]_vars => TypeOK'
<1> SUFFICES ASSUME Inv, [Next]_vars PROVE TypeOK'
  OBVIOUS
<1> USE DEF Inv
<1>0. TypeOK
  OBVIOUS
<1>1. CASE UNCHANGED vars
  BY <1>1 DEF vars, TypeOK
<1>2. ASSUME NEW r \in Runs, NEW e \in {"push", "dispatch", "branch"}, Trigger(r, e)
      PROVE  TypeOK'
  <2>1. phase' \in [Runs -> {"new", "pending", "active", "done", "cancelled"}]
    BY <1>2, EnqueuePhase DEF Trigger
  <2>2. attempt' \in [Runs -> 0..MaxAttempts]
    BY <1>2, AttemptsAssumption DEF Trigger, TypeOK
  <2>3. event' \in [Runs -> {"none", "push", "dispatch", "branch"}]
    BY <1>2 DEF Trigger, TypeOK
  <2> QED
    BY <1>2, <2>1, <2>2, <2>3 DEF Trigger, TypeOK, dataVars, pubVars
<1>3. ASSUME NEW r \in Runs, NEW all \in BOOLEAN, Rerun(r, all) PROVE TypeOK'
  <2>1. phase' \in [Runs -> {"new", "pending", "active", "done", "cancelled"}]
    BY <1>3, EnqueuePhase DEF Rerun
  <2>2. attempt' \in [Runs -> 0..MaxAttempts]
    BY <1>3, AttemptsAssumption DEF Rerun, TypeOK
  <2>3. status' \in [Runs -> [Jobs -> {"waiting", "running", "success", "failure", "skipped"}]]
    BY <1>3 DEF Rerun, TypeOK
  <2> QED
    BY <1>3, <2>1, <2>2, <2>3 DEF Rerun, TypeOK, dataVars, pubVars
<1>4. ASSUME NEW r \in Runs, Start(r) PROVE TypeOK'
  BY <1>4 DEF Start, TypeOK, dataVars, pubVars
<1>5. ASSUME NEW r \in Runs, Complete(r) PROVE TypeOK'
  <2>1. status' \in [Runs -> [Jobs -> {"waiting", "running", "success", "failure", "skipped"}]]
    BY <1>5 DEF Complete, TypeOK
  <2> QED
    BY <1>5, <2>1 DEF Complete, TypeOK, dataVars, pubVars
<1>6. ASSUME NEW r \in Runs, Explain(r) \/ VerifyTag(r) \/ \E j \in Gates : Gate(r, j)
      PROVE  TypeOK'
  <2>1. status' \in [Runs -> [Jobs -> {"waiting", "running", "success", "failure", "skipped"}]]
    BY <1>6, ConcludeStatus DEF Explain, VerifyTag, Gate, Gates, Jobs
  <2> QED
    BY <1>6, <2>1, SMTT(60) DEF Explain, VerifyTag, Gate, TypeOK, runVars, dataVars, pubVars
<1>7. ASSUME NEW r \in Runs, Gosec(r) PROVE TypeOK'
  <2>1. status' \in [Runs -> [Jobs -> {"waiting", "running", "success", "failure", "skipped"}]]
    BY <1>7, ConcludeStatus DEF Gosec, Jobs
  <2>2. scan' \in [Runs -> {"none", "success", "failure"}]
    BY <1>7 DEF Gosec, TypeOK
  <2> QED
    BY <1>7, <2>1, <2>2, SMTT(60) DEF Gosec, TypeOK, runVars, pubVars
<1>8. ASSUME NEW r \in Runs, Sbom(r) PROVE TypeOK'
  <2>1. status' \in [Runs -> [Jobs -> {"waiting", "running", "success", "failure", "skipped"}]]
    BY <1>8, ConcludeStatus DEF Sbom, Jobs
  <2>2. attempt[r] \in Digests
    BY <1>8, AttemptsAssumption DEF Sbom, Ready, TypeOK, TriggeredInv, Digests
  <2>3. sha' \in [Runs -> {0} \cup Digests]
    BY <1>8, <2>2 DEF Sbom, TypeOK
  <2>4. sboms' \in [Runs -> SUBSET Digests]
    <3>1. sboms' = sboms \/ sboms' = [sboms EXCEPT ![r] = @ \cup {attempt[r]}]
      BY <1>8 DEF Sbom
    <3>2. sboms[r] \cup {attempt[r]} \in SUBSET Digests
      BY <2>2 DEF TypeOK
    <3>3. \A S \in SUBSET Digests : [sboms EXCEPT ![r] = S] \in [Runs -> SUBSET Digests]
      BY DEF TypeOK
    <3> QED
      BY <3>1, <3>2, <3>3, ZenonT(60) DEF TypeOK
  <2> QED
    BY <1>8, <2>1, <2>3, <2>4, SMTT(60) DEF Sbom, TypeOK, runVars, pubVars
<1>9. ASSUME NEW r \in Runs, Attest(r) PROVE TypeOK'
  <2>1. status' \in [Runs -> [Jobs -> {"waiting", "running", "success", "failure", "skipped"}]]
    BY <1>9, ConcludeStatus DEF Attest, Jobs
  <2>2. assets' \in [Runs -> SUBSET Digests]
    <3>1. assets' = assets \/ \E d \in Digests : assets' = [assets EXCEPT ![r] = @ \cup {d}]
      BY <1>9 DEF Attest, Download, TypeOK
    <3>2. \A S \in SUBSET Digests : [assets EXCEPT ![r] = S] \in [Runs -> SUBSET Digests]
      BY DEF TypeOK
    <3>3. \A d \in Digests : assets[r] \cup {d} \in SUBSET Digests
      BY DEF TypeOK
    <3>4. CASE assets' = assets
      BY <3>4 DEF TypeOK
    <3>5. ASSUME NEW d \in Digests, assets' = [assets EXCEPT ![r] = @ \cup {d}]
          PROVE  assets' \in [Runs -> SUBSET Digests]
      <4>1. PICK S \in SUBSET Digests : S = assets[r] \cup {d}
        BY <3>3
      <4>2. assets' = [assets EXCEPT ![r] = S]
        BY <3>5, <4>1
      <4> QED
        BY <3>2, <4>2
    <3> QED
      BY <3>1, <3>4, <3>5
  <2> QED
    BY <1>9, <2>1, <2>2 DEF Attest, TypeOK, runVars, pubVars
<1>10. ASSUME NEW r \in Runs, PrepareRelease(r) PROVE TypeOK'
  <2>1. status' \in [Runs -> [Jobs -> {"waiting", "running", "success", "failure", "skipped"}]]
    BY <1>10, ConcludeStatus DEF PrepareRelease, Jobs
  <2>2. step' \in [Runs -> {"none", "view", "create"}]
    BY <1>10 DEF PrepareRelease, TypeOK
  <2>3. dist' \in [Runs -> {0} \cup Digests]
    <3>1. dist' = dist \/ \E d \in assets[r] : dist' = [dist EXCEPT ![r] = d]
      BY <1>10 DEF PrepareRelease, Download
    <3>2. assets[r] \subseteq Digests
      BY DEF TypeOK
    <3> QED
      BY <3>1, <3>2, ZenonT(60) DEF TypeOK
  <2> QED
    BY <1>10, <2>1, <2>2, <2>3 DEF PrepareRelease, TypeOK, runVars, dataVars
<1>11. ASSUME NEW r \in Runs, ViewRelease(r) PROVE TypeOK'
  <2>1. status' \in [Runs -> [Jobs -> {"waiting", "running", "success", "failure", "skipped"}]]
    BY <1>11, ConcludeStatus DEF ViewRelease, EndRelease, Jobs, TypeOK
  <2>2. ReleaseExists \in BOOLEAN
    BY DEF ReleaseExists, TypeOK
  <2>3. misled' \in [Runs -> BOOLEAN]
    BY <1>11, <2>2, ZenonT(60) DEF ViewRelease, EndRelease, TypeOK
  <2>4. step' \in [Runs -> {"none", "view", "create"}]
    <3>1. \E v \in {"none", "create"} : step' = [step EXCEPT ![r] = v]
      BY <1>11 DEF ViewRelease, EndRelease
    <3>2. step \in [Runs -> {"none", "view", "create"}]
      BY DEF TypeOK
    <3> HIDE DEF Inv
    <3> QED
      BY <3>1, <3>2
  <2> QED
    BY <1>11, <2>1, <2>3, <2>4 DEF ViewRelease, TypeOK, runVars, dataVars
<1>12. ASSUME NEW r \in Runs, CreateRelease(r) PROVE TypeOK'
  <2>1. status' \in [Runs -> [Jobs -> {"waiting", "running", "success", "failure", "skipped"}]]
    BY <1>12, ConcludeStatus DEF CreateRelease, EndRelease, Jobs
  <2>2. dist[r] \in Digests
    BY <1>12 DEF CreateRelease, RunningInv, TypeOK
  <2>3. misled' \in [Runs -> BOOLEAN]
    BY <1>12, ZenonT(60) DEF CreateRelease, EndRelease, TypeOK
  <2>4. step' \in [Runs -> {"none", "view", "create"}]
    <3>1. \E v \in {"none"} : step' = [step EXCEPT ![r] = v]
      BY <1>12 DEF CreateRelease, EndRelease
    <3>2. step \in [Runs -> {"none", "view", "create"}]
      BY DEF TypeOK
    <3> HIDE DEF Inv
    <3> QED
      BY <3>1, <3>2
  <2>5. published' \in [run : Runs, sbom : Digests] \cup {NoRelease}
    BY <1>12, <2>2 DEF CreateRelease, Created, TypeOK
  <2>6. draft' \in BOOLEAN
    BY <1>12 DEF CreateRelease, TypeOK
  <2> QED
    BY <1>12, <2>1, <2>3, <2>4, <2>5, <2>6 DEF CreateRelease, TypeOK, runVars, dataVars
<1>13. CASE DeleteRelease
  BY <1>13 DEF DeleteRelease, TypeOK, runVars, dataVars
<1> QED
  BY <1>1, <1>2, <1>3, <1>4, <1>5, <1>6, <1>7, <1>8, <1>9, <1>10, <1>11, <1>12, <1>13
  DEF Next, Schedule, Work

---------------------------------------------------------------------------
(* How a step changes statuses: a waiting job whose needs are met acts, a  *)
(* release job that was running ends, a run completes or is re-run.        *)
Acts(r, j, c) ==
  /\ Ready(r, j) /\ Conclude(r, j, c)
  /\ c = "running" => j = "release"

Ends(r, c) == step[r] # "none" /\ EndRelease(r, c)

Statuses == {"running", "success", "failure"}

LEMMA StatusEffect ==
  ASSUME Inv, [Next]_vars
  PROVE  /\ tag' = tag
         /\ \/ UNCHANGED status
            \/ /\ \E r \in Runs, j \in Jobs, c \in Statuses : Acts(r, j, c)
               /\ UNCHANGED runVars
            \/ /\ \E r \in Runs, c \in {"success", "failure"} : Ends(r, c)
               /\ UNCHANGED runVars
            \/ \E r \in Runs : Complete(r)
            \/ \E r \in Runs, all \in BOOLEAN : Rerun(r, all)
<1> DEFINE Goal ==
         /\ tag' = tag
         /\ \/ UNCHANGED status
            \/ /\ \E r \in Runs, j \in Jobs, c \in Statuses : Acts(r, j, c)
               /\ UNCHANGED runVars
            \/ /\ \E r \in Runs, c \in {"success", "failure"} : Ends(r, c)
               /\ UNCHANGED runVars
            \/ \E r \in Runs : Complete(r)
            \/ \E r \in Runs, all \in BOOLEAN : Rerun(r, all)
<1>1. CASE UNCHANGED vars \/ DeleteRelease
  BY <1>1 DEF vars, DeleteRelease
<1>2. ASSUME NEW r \in Runs, NEW e, Trigger(r, e) PROVE Goal
  BY <1>2 DEF Trigger
<1>3. ASSUME NEW r \in Runs, NEW all \in BOOLEAN, Rerun(r, all) PROVE Goal
  BY <1>3 DEF Rerun
<1>4. ASSUME NEW r \in Runs, Start(r) PROVE Goal
  BY <1>4 DEF Start
<1>5. ASSUME NEW r \in Runs, Complete(r) PROVE Goal
  BY <1>5 DEF Complete
<1>6. ASSUME NEW r \in Runs, NEW j \in Jobs, NEW c \in Statuses, Acts(r, j, c),
             UNCHANGED <<tag, runVars>>
      PROVE Goal
  BY <1>6
<1> HIDE DEF Goal
<1>7. ASSUME NEW r \in Runs, Explain(r) PROVE Goal
  BY <1>6, <1>7 DEF Explain, Acts, Statuses, Jobs
<1>8. ASSUME NEW r \in Runs, VerifyTag(r) PROVE Goal
  BY <1>6, <1>8 DEF VerifyTag, Acts, Statuses, Jobs
<1>9. ASSUME NEW r \in Runs, NEW j \in Gates, Gate(r, j) PROVE Goal
  BY <1>6, <1>9 DEF Gate, Gates, Acts, Statuses, Jobs
<1>10. ASSUME NEW r \in Runs, Gosec(r) PROVE Goal
  BY <1>6, <1>10 DEF Gosec, Acts, Statuses, Jobs
<1>11. ASSUME NEW r \in Runs, Sbom(r) PROVE Goal
  BY <1>6, <1>11 DEF Sbom, Acts, Statuses, Jobs
<1>12. ASSUME NEW r \in Runs, Attest(r) PROVE Goal
  BY <1>6, <1>12 DEF Attest, Acts, Statuses, Jobs
<1>13. ASSUME NEW r \in Runs, PrepareRelease(r) PROVE Goal
  BY <1>6, <1>13 DEF PrepareRelease, Acts, Statuses, Jobs
<1>14. ASSUME NEW r \in Runs, ViewRelease(r) PROVE Goal
  BY <1>14 DEF ViewRelease, Ends, Goal
<1>15. ASSUME NEW r \in Runs, CreateRelease(r) PROVE Goal
  BY <1>15 DEF CreateRelease, Ends, Goal
<1>16. Goal
  BY <1>1, <1>2, <1>3, <1>4, <1>5, <1>7, <1>8, <1>9, <1>10, <1>11, <1>12, <1>13, <1>14, <1>15
  DEF Next, Schedule, Work, Goal
<1> QED
  BY <1>16 DEF Goal

(* The job graph.                                                          *)
LEMMA NeedsFacts ==
  /\ \A j \in Jobs : needs(j) \subseteq Jobs /\ j \notin needs(j)
  /\ \A j \in {"check", "race", "vuln", "gosec"} : needs(j) = {"verify-tag"}
  /\ needs("sbom") = {"verify-tag", "check", "race", "vuln", "gosec"}
  /\ needs("sbom-attestation") = {"sbom"}
  /\ needs("release") = {"verify-tag", "sbom", "sbom-attestation"}
BY DEF needs, Jobs, Gates

(* Statuses after a run has completed or been re-run.                      *)
LEMMA CompleteStatus ==
  ASSUME TypeOK, NEW r \in Runs, Complete(r)
  PROVE  \A q \in Runs, j \in Jobs :
           status'[q][j] = IF q = r /\ status[q][j] = "waiting" THEN "skipped" ELSE status[q][j]
BY DEF TypeOK, Complete

LEMMA RerunStatus ==
  ASSUME TypeOK, NEW r \in Runs, NEW all \in BOOLEAN, Rerun(r, all)
  PROVE  \A q \in Runs, j \in Jobs :
           status'[q][j] = IF q = r /\ (all \/ status[q][j] # "success") THEN "waiting"
                           ELSE status[q][j]
BY DEF TypeOK, Rerun

LEMMA NeedsStep == Inv /\ [Next]_vars => NeedsInv'
<1> SUFFICES ASSUME Inv, [Next]_vars, NEW q \in Runs, NEW k \in Jobs, Acted(q, k)',
                    NEW n \in needs(k)
             PROVE  status'[q][n] = "success"
  BY DEF NeedsInv
<1>0. n \in Jobs /\ n # k /\ TypeOK
  BY NeedsFacts DEF Inv
<1>1. Acted(q, k) => status[q][n] = "success"
  BY DEF Inv, NeedsInv
<1>2. CASE UNCHANGED status
  BY <1>1, <1>2 DEF Acted
<1>3. ASSUME NEW r \in Runs, NEW j \in Jobs, NEW c \in Statuses, Acts(r, j, c)
      PROVE  status'[q][n] = "success"
  <2>1. /\ \A p \in Runs, i \in Jobs : p # r \/ i # j => status'[p][i] = status[p][i]
        /\ status[r][j] = "waiting" /\ \A i \in needs(j) : status[r][i] = "success"
    BY <1>0, <1>3, ConcludeStatus DEF Acts, Ready, Statuses
  <2>2. CASE q = r /\ k = j
    BY <1>0, <2>1, <2>2
  <2>3. CASE q # r \/ k # j
    <3>1. Acted(q, k)
      BY <2>1, <2>3 DEF Acted
    <3> QED
      BY <1>0, <1>1, <2>1, <3>1
  <2> QED
    BY <2>2, <2>3
<1>4. ASSUME NEW r \in Runs, NEW c \in {"success", "failure"}, Ends(r, c)
      PROVE  status'[q][n] = "success"
  <2>1. /\ \A p \in Runs, i \in Jobs : p # r \/ i # "release" => status'[p][i] = status[p][i]
        /\ "release" \in Jobs
    BY <1>0, <1>4, ConcludeStatus DEF Ends, EndRelease, Statuses, Jobs
  <2>2. status[r]["release"] = "running"
    BY <1>4 DEF Ends, Inv, RunningInv
  <2>3. Acted(q, k)
    BY <2>1, <2>2 DEF Acted
  <2> QED
    BY <1>0, <1>1, <2>1, <2>2, <2>3, SMTT(60)
<1>5. ASSUME NEW r \in Runs, Complete(r) PROVE status'[q][n] = "success"
  BY <1>0, <1>1, <1>5, CompleteStatus DEF Acted
<1>6. ASSUME NEW r \in Runs, NEW all \in BOOLEAN, Rerun(r, all)
      PROVE  status'[q][n] = "success"
  BY <1>0, <1>1, <1>6, RerunStatus DEF Acted
<1> QED
  BY <1>2, <1>3, <1>4, <1>5, <1>6, StatusEffect

(* The verdict on the tag and that of the scan outlive their jobs.         *)
LEMMA VerdictStep == Inv /\ [Next]_vars => VerdictInv'
<1> SUFFICES ASSUME Inv, [Next]_vars, NEW q \in Runs
             PROVE  /\ status'[q]["verify-tag"] = "success" => TagVerifies'
                    /\ status'[q]["gosec"] = "success" => scan'[q] = "success"
  BY DEF VerdictInv
<1> DEFINE Goal == /\ status'[q]["verify-tag"] = "success" => TagVerifies'
                   /\ status'[q]["gosec"] = "success" => scan'[q] = "success"
<1>0. TypeOK /\ "verify-tag" \in Jobs /\ "gosec" \in Jobs /\ TagVerifies' = TagVerifies
  BY StatusEffect DEF Inv, Jobs, TagVerifies
<1>1. ASSUME status'[q]["verify-tag"] = "success" => status[q]["verify-tag"] = "success",
             status'[q]["gosec"] = "success" => status[q]["gosec"] = "success",
             scan' = scan
      PROVE  Goal
  BY <1>0, <1>1 DEF Inv, VerdictInv
<1> HIDE DEF Goal
<1>2. CASE UNCHANGED vars \/ DeleteRelease
  BY <1>1, <1>2 DEF vars, DeleteRelease, dataVars, Goal
<1>3. ASSUME NEW r \in Runs, NEW e, Trigger(r, e) PROVE Goal
  BY <1>1, <1>3 DEF Trigger, dataVars
<1>4. ASSUME NEW r \in Runs, NEW all \in BOOLEAN, Rerun(r, all) PROVE Goal
  BY <1>0, <1>1, <1>4, RerunStatus DEF Rerun, dataVars
<1>5. ASSUME NEW r \in Runs, Start(r) PROVE Goal
  BY <1>1, <1>5 DEF Start, dataVars
<1>6. ASSUME NEW r \in Runs, Complete(r) PROVE Goal
  BY <1>0, <1>1, <1>6, CompleteStatus DEF Complete, dataVars
<1>7. ASSUME NEW r \in Runs, NEW j \in Jobs \ {"verify-tag", "gosec"}, NEW c \in Statuses,
             Conclude(r, j, c), scan' = scan
      PROVE  Goal
  BY <1>0, <1>1, <1>7, ConcludeStatus DEF Statuses
<1>8. ASSUME NEW r \in Runs, VerifyTag(r) PROVE Goal
  <2>1. /\ status'[q]["verify-tag"] = "success" => TagVerifies \/ status[q]["verify-tag"] = "success"
        /\ status'[q]["gosec"] = status[q]["gosec"] /\ scan' = scan
    BY <1>0, <1>8, ConcludeStatus DEF VerifyTag, Statuses, dataVars
  <2> QED
    BY <1>0, <2>1 DEF Inv, VerdictInv, Goal
<1>9. ASSUME NEW r \in Runs, Gosec(r) PROVE Goal
  <2>1. PICK o \in {"success", "failure"}, u \in BOOLEAN :
          /\ scan' = [scan EXCEPT ![r] = o]
          /\ Conclude(r, "gosec", IF u /\ ReportPasses(o) THEN "success" ELSE "failure")
    BY <1>9 DEF Gosec
  <2>2. /\ status'[q]["verify-tag"] = status[q]["verify-tag"]
        /\ q # r => status'[q]["gosec"] = status[q]["gosec"]
        /\ status'[r]["gosec"] = "success" => o = "success"
    BY <1>0, <2>1, ConcludeStatus DEF ReportPasses
  <2>3. status'[q]["gosec"] = "success" => scan'[q] = "success"
    <3>1. CASE q = r
      BY <2>1, <2>2, <3>1 DEF Inv, TypeOK
    <3>2. CASE q # r
      BY <2>1, <2>2, <3>2 DEF Inv, TypeOK, VerdictInv
    <3> QED
      BY <3>1, <3>2
  <2>4. status'[q]["verify-tag"] = "success" => TagVerifies'
    BY <1>0, <2>2 DEF Inv, VerdictInv
  <2> QED
    BY <2>3, <2>4 DEF Goal
<1>10. ASSUME NEW r \in Runs, Explain(r) \/ \E j \in Gates : Gate(r, j) PROVE Goal
  BY <1>7, <1>10 DEF Explain, Gate, Gates, Statuses, Jobs, dataVars
<1>11. ASSUME NEW r \in Runs, Sbom(r) \/ Attest(r) PROVE Goal
  BY <1>7, <1>11 DEF Sbom, Attest, Statuses, Jobs
<1>12. ASSUME NEW r \in Runs, PrepareRelease(r) PROVE Goal
  BY <1>7, <1>12 DEF PrepareRelease, Statuses, Jobs, dataVars
<1>13. ASSUME NEW r \in Runs, ViewRelease(r) PROVE Goal
  BY <1>1, <1>7, <1>13 DEF ViewRelease, EndRelease, Statuses, Jobs, dataVars
<1>14. ASSUME NEW r \in Runs, CreateRelease(r) PROVE Goal
  BY <1>7, <1>14 DEF CreateRelease, EndRelease, Statuses, Jobs, dataVars
<1> QED
  BY <1>2, <1>3, <1>4, <1>5, <1>6, <1>8, <1>9, <1>10, <1>11, <1>12, <1>13, <1>14
  DEF Next, Schedule, Work, Goal

(* Only the release job runs across steps, and nothing moves under it.     *)
LEMMA RunningStep == Inv /\ [Next]_vars => RunningInv'
<1> DEFINE Goal(q) ==
      /\ \A j \in Jobs : status'[q][j] = "running" => j = "release" /\ step'[q] # "none"
      /\ step'[q] # "none" => /\ status'[q]["release"] = "running"
                              /\ phase'[q] = "active" /\ event'[q] = "push"
                              /\ dist'[q] = sha'[q] /\ dist'[q] # 0
<1> SUFFICES ASSUME Inv, [Next]_vars, NEW q \in Runs PROVE Goal(q)
  BY DEF RunningInv
<1>0. TypeOK /\ "release" \in Jobs /\ 0 \notin Digests
  BY DEF Inv, Jobs, Digests
<1>1. /\ \A j \in Jobs : status[q][j] = "running" => j = "release" /\ step[q] # "none"
      /\ step[q] # "none" => /\ status[q]["release"] = "running"
                             /\ phase[q] = "active" /\ event[q] = "push"
                             /\ dist[q] = sha[q] /\ dist[q] # 0
  BY DEF Inv, RunningInv
<1>2. CASE UNCHANGED vars \/ DeleteRelease
  BY <1>1, <1>2 DEF vars, DeleteRelease, runVars, dataVars
<1>3. ASSUME NEW r \in Runs, NEW e, Trigger(r, e) PROVE Goal(q)
  <2>1. UNCHANGED <<status, step, dist, sha>> /\ phase[r] = "new"
    BY <1>3 DEF Trigger, dataVars, pubVars
  <2>2. q # r => (phase[q] = "active" => phase'[q] = "active") /\ event'[q] = event[q]
    BY <1>0, <1>3, EnqueuePhase DEF Trigger, TypeOK
  <2> QED
    BY <1>1, <2>1, <2>2
<1>4. ASSUME NEW r \in Runs, NEW all \in BOOLEAN, Rerun(r, all) PROVE Goal(q)
  <2>1. UNCHANGED <<event, step, dist, sha>> /\ phase[r] \in {"done", "cancelled"}
    BY <1>4 DEF Rerun, dataVars, pubVars
  <2>2. q # r => (phase[q] = "active" => phase'[q] = "active")
    BY <1>0, <1>4, <2>1, EnqueuePhase DEF Rerun
  <2> QED
    BY <1>0, <1>1, <1>4, <2>1, <2>2, RerunStatus
<1>5. ASSUME NEW r \in Runs, Start(r) PROVE Goal(q)
  <2>1. UNCHANGED <<status, event, step, dist, sha>>
    BY <1>5 DEF Start, dataVars, pubVars
  <2>2. phase[q] = "active" => phase'[q] = "active"
    BY <1>0, <1>5 DEF Start, TypeOK
  <2> QED
    BY <1>1, <2>1, <2>2
<1>6. ASSUME NEW r \in Runs, Complete(r) PROVE Goal(q)
  <2>1. UNCHANGED <<event, step, dist, sha>> /\ status[r]["release"] # "running"
    BY <1>0, <1>6 DEF Complete, dataVars, pubVars
  <2>2. q # r => (phase[q] = "active" => phase'[q] = "active")
    BY <1>0, <1>6 DEF Complete, TypeOK
  <2> QED
    BY <1>0, <1>1, <1>6, <2>1, <2>2, CompleteStatus
<1>7. ASSUME NEW r \in Runs, NEW j \in Jobs \ {"release"}, NEW c \in {"success", "failure"},
             Conclude(r, j, c), UNCHANGED <<phase, event, step, dist>>,
             step[q] # "none" => sha'[q] = sha[q]
      PROVE  Goal(q)
  BY <1>0, <1>1, <1>7, ConcludeStatus
<1>8. ASSUME NEW r \in Runs, Explain(r) \/ VerifyTag(r) \/ \E j \in Gates : Gate(r, j)
      PROVE  Goal(q)
  <2> HIDE DEF Goal
  <2> QED
    BY <1>7, <1>8 DEF Explain, VerifyTag, Gate, Gates, Jobs, runVars, dataVars, pubVars
<1>9. ASSUME NEW r \in Runs, Gosec(r) \/ Attest(r) PROVE Goal(q)
  <2> HIDE DEF Goal
  <2> QED
    BY <1>7, <1>9 DEF Gosec, Attest, Jobs, runVars, pubVars
<1>10. ASSUME NEW r \in Runs, Sbom(r) PROVE Goal(q)
  <2>1. status[r]["sbom"] = "waiting"
    BY <1>10 DEF Sbom, Ready
  <2>2. step[r] = "none"
    BY <2>1, <1>0, NeedsFacts DEF Inv, RunningInv, NeedsInv, Acted
  <2>3. step[q] # "none" => sha'[q] = sha[q]
    BY <1>0, <1>10, <2>2 DEF Sbom, TypeOK
  <2> HIDE DEF Goal
  <2> QED
    BY <1>7, <1>10, <2>3 DEF Sbom, Jobs, runVars, pubVars
<1>11. ASSUME NEW r \in Runs, PrepareRelease(r) PROVE Goal(q)
  <2>1. /\ UNCHANGED <<phase, event, sha>>
        /\ phase[r] = "active" /\ status[r]["release"] = "waiting"
    BY <1>11 DEF PrepareRelease, Ready, runVars, dataVars
  <2>2. step[r] = "none"
    BY <2>1 DEF Inv, RunningInv
  <2>3. PICK d \in assets[r] :
          \/ /\ PrepareOK(r, d) /\ publishGuard(r)
             /\ Conclude(r, "release", "running")
             /\ step' = [step EXCEPT ![r] = "view"]
             /\ Download(r, d)
          \/ /\ \E c \in {"success", "failure"} : Conclude(r, "release", c)
             /\ UNCHANGED <<step, dist>>
    BY <1>11 DEF PrepareRelease
  <2>4. CASE \E c \in {"success", "failure"} :
               Conclude(r, "release", c) /\ UNCHANGED <<step, dist>>
    BY <1>0, <1>1, <2>1, <2>2, <2>4, ConcludeStatus
  <2>5. CASE /\ PrepareOK(r, d) /\ publishGuard(r)
             /\ Conclude(r, "release", "running")
             /\ step' = [step EXCEPT ![r] = "view"]
             /\ Download(r, d)
    <3>1. d = sha[r] /\ event[r] = "push" /\ d # 0
      BY <1>0, <2>5 DEF PrepareOK, publishGuard, TypeOK
    <3>2. /\ step'[r] = "view" /\ dist'[r] = d
          /\ q # r => step'[q] = step[q] /\ dist'[q] = dist[q]
      BY <1>0, <2>5 DEF Download, TypeOK
    <3>3. /\ status'[r]["release"] = "running"
          /\ \A j \in Jobs : q # r \/ j # "release" => status'[q][j] = status[q][j]
      BY <1>0, <2>5, ConcludeStatus
    <3> QED
      BY <1>0, <1>1, <2>1, <2>2, <3>1, <3>2, <3>3
  <2> QED
    BY <2>3, <2>4, <2>5
<1>12. ASSUME NEW r \in Runs, NEW c \in {"success", "failure"}, Ends(r, c),
              UNCHANGED <<phase, event, dist, sha>>
       PROVE  Goal(q)
  <2>1. step'[r] = "none" /\ (q # r => step'[q] = step[q])
    BY <1>0, <1>12 DEF Ends, EndRelease, TypeOK
  <2>2. /\ status'[r]["release"] = c
        /\ \A j \in Jobs : q # r \/ j # "release" => status'[q][j] = status[q][j]
    BY <1>0, <1>12, ConcludeStatus DEF Ends, EndRelease
  <2> QED
    BY <1>0, <1>1, <1>12, <2>1, <2>2
<1>13. ASSUME NEW r \in Runs, ViewRelease(r) PROVE Goal(q)
  <2>1. UNCHANGED <<phase, event, dist, sha>> /\ step[r] # "none"
    BY <1>13 DEF ViewRelease, runVars, dataVars
  <2>2. CASE EndRelease(r, "failure")
    BY <1>12, <2>1, <2>2 DEF Ends
  <2>3. CASE step' = [step EXCEPT ![r] = "create"] /\ UNCHANGED status
    BY <1>0, <1>1, <2>1, <2>3 DEF TypeOK
  <2> QED
    BY <1>13, <2>2, <2>3 DEF ViewRelease
<1>14. ASSUME NEW r \in Runs, CreateRelease(r) PROVE Goal(q)
  <2>1. UNCHANGED <<phase, event, dist, sha>> /\ step[r] # "none"
    BY <1>14 DEF CreateRelease, runVars, dataVars
  <2>2. \E c \in {"success", "failure"} : EndRelease(r, c)
    BY <1>14 DEF CreateRelease
  <2> QED
    BY <1>12, <2>1, <2>2 DEF Ends
<1> HIDE DEF Goal
<1> QED
  BY <1>2, <1>3, <1>4, <1>5, <1>6, <1>8, <1>9, <1>10, <1>11, <1>13, <1>14
  DEF Next, Schedule, Work

(* How a step moves runs about in their groups.                            *)
LEMMA PhaseEffect ==
  ASSUME Inv, [Next]_vars
  PROVE  \/ UNCHANGED <<phase, event, attempt>>
         \/ \E r \in Runs, e \in {"push", "dispatch", "branch"} : Trigger(r, e)
         \/ \E r \in Runs, all \in BOOLEAN : Rerun(r, all)
         \/ \E r \in Runs : Start(r) \/ Complete(r)
<1>1. ASSUME NEW r \in Runs, Work(r) PROVE UNCHANGED <<phase, event, attempt>>
  BY <1>1 DEF Work, Explain, VerifyTag, Gate, Gosec, Sbom, Attest, PrepareRelease,
     ViewRelease, CreateRelease, runVars
<1>2. CASE UNCHANGED vars \/ DeleteRelease
  BY <1>2 DEF vars, DeleteRelease, runVars
<1> QED
  BY <1>1, <1>2 DEF Next, Schedule

LEMMA GroupStep == Inv /\ [Next]_vars => TriggeredInv' /\ GroupInv'
<1> SUFFICES ASSUME Inv, [Next]_vars PROVE TriggeredInv' /\ GroupInv'
  OBVIOUS
<1> USE DEF Inv, TriggeredInv, GroupInv, SameGroup
<1>0. TypeOK
  OBVIOUS
<1>1. CASE UNCHANGED <<phase, event, attempt>>
  BY <1>1
<1>2. ASSUME NEW r \in Runs, NEW e \in {"push", "dispatch", "branch"}, Trigger(r, e)
      PROVE  TriggeredInv' /\ GroupInv'
  <2>1. /\ event'[r] = e /\ attempt'[r] = 1
        /\ \A q \in Runs \ {r} : event'[q] = event[q] /\ attempt'[q] = attempt[q]
    BY <1>2 DEF Trigger, TypeOK
  <2>2. Enqueue(r) /\ phase[r] = "new"
    BY <1>2 DEF Trigger
  <2> QED
    BY <1>0, <2>1, <2>2, EnqueuePhase
<1>3. ASSUME NEW r \in Runs, NEW all \in BOOLEAN, Rerun(r, all)
      PROVE  TriggeredInv' /\ GroupInv'
  <2>1. /\ event' = event /\ attempt'[r] = attempt[r] + 1 /\ attempt[r] \in Nat
        /\ \A q \in Runs \ {r} : attempt'[q] = attempt[q]
    BY <1>3, AttemptsAssumption DEF Rerun, TypeOK
  <2>2. Enqueue(r) /\ phase[r] \in {"done", "cancelled"}
    BY <1>3 DEF Rerun
  <2> QED
    BY <1>0, <2>1, <2>2, EnqueuePhase
<1>4. ASSUME NEW r \in Runs, Start(r) \/ Complete(r)
      PROVE  TriggeredInv' /\ GroupInv'
  <2>1. /\ UNCHANGED <<event, attempt>> /\ phase[r] # "new"
        /\ \A q \in Runs \ {r} : phase'[q] = phase[q]
    BY <1>4 DEF Start, Complete, TypeOK
  <2>2. \/ /\ phase'[r] = "active"
           /\ \A q \in Runs : SameGroup(r, q) => phase[q] # "active"
        \/ phase'[r] = "done"
    BY <1>4 DEF Start, Complete, TypeOK
  <2> QED
    BY <2>1, <2>2
<1> QED
  BY <1>1, <1>2, <1>3, <1>4, PhaseEffect

(* A run that is about to create a release is the only one.                *)
LEMMA OneCreates ==
  ASSUME Inv, NEW r \in Runs, NEW q \in Runs, step[r] # "none", step[q] # "none"
  PROVE  r = q
BY DEF Inv, RunningInv, GroupInv, SameGroup

LEMMA LookStep == Inv /\ [Next]_vars => LookInv'
<1> SUFFICES ASSUME Inv, [Next]_vars, NEW q \in Runs, ReleaseExists', step'[q] = "create"
             PROVE  misled'[q]
  BY DEF LookInv
<1>0. TypeOK
  BY DEF Inv
<1>1. ReleaseExists /\ step[q] = "create" => misled[q]
  BY DEF Inv, LookInv
<1>2. CASE UNCHANGED <<step, misled, draft, published>>
  BY <1>1, <1>2 DEF ReleaseExists
<1>3. ASSUME NEW r \in Runs, PrepareRelease(r) PROVE misled'[q]
  <2>1. step[q] = "create" /\ UNCHANGED <<misled, draft, published>>
    BY <1>0, <1>3, ZenonT(60) DEF PrepareRelease, TypeOK
  <2> QED
    BY <1>1, <2>1 DEF ReleaseExists
<1>4. ASSUME NEW r \in Runs, ViewRelease(r) PROVE misled'[q]
  <2>1. CASE q = r
    BY <1>0, <1>4, <2>1 DEF ViewRelease, EndRelease, ReleaseExists, TypeOK
  <2>2. CASE q # r
    BY <1>0, <1>1, <1>4, <2>2 DEF ViewRelease, EndRelease, ReleaseExists, TypeOK
  <2> QED
    BY <2>1, <2>2
<1>5. ASSUME NEW r \in Runs, CreateRelease(r) PROVE misled'[q]
  <2>1. step[r] = "create" /\ step'[r] = "none" /\ (q # r => step'[q] = step[q])
    BY <1>0, <1>5, ZenonT(60) DEF CreateRelease, EndRelease, TypeOK
  <2>2. q # r /\ step[q] = "create"
    BY <2>1
  <2> QED
    BY <2>1, <2>2, OneCreates
<1>6. CASE DeleteRelease
  BY <1>6 DEF DeleteRelease, ReleaseExists
<1>7. CASE \/ UNCHANGED vars
           \/ \E r \in Runs : \/ \E e \in {"push", "dispatch", "branch"} : Trigger(r, e)
                              \/ \E all \in BOOLEAN : Rerun(r, all)
                              \/ Start(r) \/ Complete(r)
  BY <1>2, <1>7 DEF vars, Trigger, Rerun, Start, Complete, pubVars
<1>8. ASSUME NEW r \in Runs,
             Explain(r) \/ VerifyTag(r) \/ (\E j \in Gates : Gate(r, j)) \/ Gosec(r)
               \/ Sbom(r) \/ Attest(r)
      PROVE  misled'[q]
  BY <1>2, <1>8 DEF Explain, VerifyTag, Gate, Gosec, Sbom, Attest, pubVars
<1> QED
  BY <1>3, <1>4, <1>5, <1>6, <1>7, <1>8 DEF Next, Schedule, Work

---------------------------------------------------------------------------
(* The invariant holds initially and every step keeps it.                  *)
LEMMA InitInv == Init => Inv
<1> SUFFICES ASSUME Init PROVE Inv
  OBVIOUS
<1>1. TypeOK
  <2>1. attempt \in [Runs -> 0..MaxAttempts]
    BY AttemptsAssumption DEF Init
  <2>2. misled \in [Runs -> BOOLEAN] /\ draft \in BOOLEAN
    BY DEF Init
  <2>3. sboms \in [Runs -> SUBSET Digests] /\ assets \in [Runs -> SUBSET Digests]
    BY DEF Init
  <2>4. status \in [Runs -> [Jobs -> {"waiting", "running", "success", "failure", "skipped"}]]
    BY DEF Init
  <2> QED
    BY <2>1, <2>2, <2>3, <2>4 DEF Init, TypeOK
<1>2. TriggeredInv /\ GroupInv /\ LookInv
  BY DEF Init, TriggeredInv, GroupInv, LookInv, ReleaseExists
<1>3. \A r \in Runs, j \in Jobs : status[r][j] = "waiting"
  BY DEF Init
<1>4. NeedsInv
  BY <1>3 DEF NeedsInv, Acted
<1>5. VerdictInv
  BY <1>3 DEF VerdictInv, Jobs
<1>6. RunningInv
  BY <1>3 DEF Init, RunningInv
<1> QED
  BY <1>1, <1>2, <1>4, <1>5, <1>6 DEF Inv

LEMMA NextInv == Inv /\ [Next]_vars => Inv'
BY TypeStep, NeedsStep, VerdictStep, RunningStep, GroupStep, LookStep DEF Inv

(* The state of the pipeline keeps its shape.                              *)
THEOREM TypeCorrect == Spec => []TypeOK
<1>1. Inv => TypeOK
  BY DEF Inv
<1> QED
  BY <1>1, InitInv, NextInv, PTL DEF Spec

(* For any number of runs and attempts: no job but the one that explains   *)
(* the refusal acts in a run that has not verified the tag, re-runs of     *)
(* failed jobs included.                                                   *)
THEOREM VerifiedTagFirst == Spec => []NothingWithoutVerifiedTag
<1>1. Inv => NothingWithoutVerifiedTag
  <2> SUFFICES ASSUME Inv, NEW r \in Runs, NEW j \in Jobs \ {"unsupported-ref", "verify-tag"},
                      Acted(r, j)
               PROVE  tag.signed /\ tag.supported /\ status[r]["verify-tag"] = "success"
    BY DEF NothingWithoutVerifiedTag, Acted
  <2>1. \A k \in Jobs : \A n \in needs(k) : Acted(r, k) => status[r][n] = "success" /\ Acted(r, n)
    BY DEF Inv, NeedsInv, Acted
  <2>2. status[r]["verify-tag"] = "success"
    BY <2>1, NeedsFacts DEF Jobs
  <2> QED
    BY <2>2 DEF Inv, VerdictInv, TagVerifies
<1> QED
  BY <1>1, InitInv, NextInv, PTL DEF Spec

(* A release appears through the publish step and in no other way.         *)
LEMMA Publishes ==
  ASSUME Inv, [Next]_vars, published' \notin {published, NoRelease}
  PROVE  \E r \in Runs : step[r] = "create" /\ published' = [run |-> r, sbom |-> dist[r]]
<1>1. \E r \in Runs : CreateRelease(r)
  <2>1. CASE UNCHANGED vars
    BY <2>1 DEF vars
  <2>2. CASE DeleteRelease
    BY <2>2 DEF DeleteRelease
  <2>3. ASSUME NEW r \in Runs,
               \/ \E e \in {"push", "dispatch", "branch"} : Trigger(r, e)
               \/ \E all \in BOOLEAN : Rerun(r, all)
               \/ Start(r) \/ Complete(r) \/ Explain(r) \/ VerifyTag(r)
               \/ (\E j \in Gates : Gate(r, j)) \/ Gosec(r) \/ Sbom(r) \/ Attest(r)
        PROVE  published' = published
    BY <2>3 DEF Trigger, Rerun, Start, Complete, Explain, VerifyTag, Gate, Gosec, Sbom,
       Attest, pubVars
  <2>4. ASSUME NEW r \in Runs, PrepareRelease(r) \/ ViewRelease(r)
        PROVE  published' = published
    BY <2>4 DEF PrepareRelease, ViewRelease
  <2> QED
    BY <2>1, <2>2, <2>3, <2>4 DEF Next, Schedule, Work
<1> QED
  BY <1>1 DEF CreateRelease, Created

(* For any number of runs and attempts: what is published was earned by    *)
(* the very run that publishes it, with the SBOM its sbom job hashed.      *)
THEOREM PublishedIsEarned == Spec => PublishEarned
<1>1. ASSUME Inv, [Next]_vars, published' \notin {published, NoRelease}
      PROVE  LET r == published'.run
             IN  /\ event[r] = "push"
                 /\ tag.signed /\ tag.supported
                 /\ \A j \in Jobs \ {"unsupported-ref", "release"} : status[r][j] = "success"
                 /\ scan[r] = "success"
                 /\ published'.sbom = sha[r]
  <2>1. PICK r \in Runs : step[r] = "create" /\ published' = [run |-> r, sbom |-> dist[r]]
    BY <1>1, Publishes
  <2>2. published'.run = r /\ published'.sbom = dist[r]
    BY <2>1
  <2>3. status[r]["release"] = "running" /\ event[r] = "push" /\ dist[r] = sha[r]
    BY <1>1, <2>1 DEF Inv, RunningInv
  <2>4. \A k \in Jobs : \A n \in needs(k) : Acted(r, k) => status[r][n] = "success" /\ Acted(r, n)
    BY <1>1 DEF Inv, NeedsInv, Acted
  <2>5. Acted(r, "release")
    BY <2>3 DEF Acted
  <2>6. \A n \in {"verify-tag", "sbom", "sbom-attestation"} :
          status[r][n] = "success" /\ Acted(r, n)
    BY <2>4, <2>5, NeedsFacts DEF Jobs
  <2>7. \A n \in {"verify-tag", "check", "race", "vuln", "gosec"} : status[r][n] = "success"
    BY <2>4, <2>6, NeedsFacts DEF Jobs
  <2>8. \A j \in Jobs \ {"unsupported-ref", "release"} : status[r][j] = "success"
    BY <2>6, <2>7 DEF Jobs
  <2>9. tag.signed /\ tag.supported /\ scan[r] = "success"
    BY <1>1, <2>7 DEF Inv, VerdictInv, TagVerifies
  <2> QED
    BY <2>2, <2>3, <2>8, <2>9
<1> DEFINE A == published' \notin {published, NoRelease} =>
             LET r == published'.run
             IN  /\ event[r] = "push"
                 /\ tag.signed /\ tag.supported
                 /\ \A j \in Jobs \ {"unsupported-ref", "release"} : status[r][j] = "success"
                 /\ scan[r] = "success"
                 /\ published'.sbom = sha[r]
<1>2. Inv /\ [Next]_vars => [A]_vars
  BY <1>1
<1> QED
  BY <1>2, InitInv, NextInv, PTL DEF Spec, PublishEarned

(* For any number of runs and attempts: no run that saw that there was no  *)
(* release creates one over another's, whatever the service would allow;   *)
(* the concurrency group keeps another run from creating it in between.    *)
THEOREM NeverReplaced == Spec => []NoReplacement
<1>1. Inv => NoReplacement
  BY DEF Inv, LookInv, NoReplacement, ReleaseExists
<1> QED
  BY <1>1, InitInv, NextInv, PTL DEF Spec

(* For any number of runs and attempts: beside the draft of a failed       *)
(* creation, only a run whose look at the releases failed can publish; the *)
(* concurrency group keeps two runs from looking before either creates.    *)
THEOREM DraftBlocks == Spec => DraftBlocksPublish
<1>1. ASSUME Inv, [Next]_vars, draft, published' \notin {published, NoRelease}
      PROVE  misled[published'.run]
  <2>1. PICK r \in Runs : step[r] = "create" /\ published' = [run |-> r, sbom |-> dist[r]]
    BY <1>1, Publishes
  <2>2. published'.run = r
    BY <2>1
  <2> QED
    BY <1>1, <2>1, <2>2 DEF Inv, LookInv, ReleaseExists
<1>2. Inv /\ [Next]_vars =>
        [draft /\ published' \notin {published, NoRelease} => misled[published'.run]]_vars
  BY <1>1
<1> QED
  BY <1>2, InitInv, NextInv, PTL DEF Spec, DraftBlocksPublish
=============================================================================
