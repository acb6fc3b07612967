---------------------------- MODULE EvidenceGate ----------------------------
(***************************************************************************)
(* The evidence check as a gate of pull requests: the CI workflow runs it  *)
(* only if the change classifier (scripts/classify-check-changes.sh) says  *)
(* that the change touches evidence, or that it is not only documentation. *)
(* To know the summary docs before Go is set up, the classifier reads the  *)
(* manifest, which the check itself keeps true to the baseline: each of    *)
(* the two relies on the other.                                            *)
(*                                                                         *)
(* A pull request is a series of edits of main, checked on its merge with  *)
(* main and merged before another one begins.  That CI must pass before a  *)
(* merge is branch protection, and external.                               *)
(***************************************************************************)
EXTENDS EvidenceBundle

CONSTANTS PullEdits,     \* the edits pull requests consist of
          MaxPullEdits   \* how many are made in all (a bound of the model)

VARIABLE main   \* the tree of the main branch, tree being that of the request;
                \* or Detached: somebody runs the check on a working copy

gateVars == <<tree, edits, main>>

Detached == <<>>

\* git keeps files and links, and no directory without one.
InGit(repo) ==
  /\ \A p \in DOMAIN repo : Kind(repo, p) # "pipe"
  /\ \A p \in DOMAIN repo :
       Kind(repo, p) = "dir" => {q \in Below(repo, p) : Kind(repo, q) # "dir"} # {}

(* The repository starts as a checkout that passes the check.              *)
ASSUME PullAssumption ==
  /\ \A e \in PullEdits : IsNode(e[1], e[2])
  /\ InGit(Intact0) /\ ExitStatus(Intact0) = 0

GateInit == Init /\ main \in {Detached, tree}

Push ==
  /\ main # Detached
  /\ edits < MaxPullEdits
  /\ edits' = edits + 1
  /\ \E e \in PullEdits : Edit(e)
  /\ UNCHANGED main

Contents(repo) == {<<p, repo[p]>> : p \in {q \in DOMAIN repo : Kind(repo, q) # "dir"}}

\* With rename detection a deleted path is not listed beside the path to which
\* its content moved.
ChangedFilesMutant ==
  LET gone == {c[1] : c \in Contents(main)} \ DOMAIN tree
      new == {c[1] : c \in Contents(tree) \ Contents(main)}
  IN  new \cup IF new \ DOMAIN main = {} THEN gone ELSE {}

\* git diff --name-only --no-renames HEAD^1 HEAD
ChangedFiles ==
  {c[1] : c \in (Contents(main) \ Contents(tree)) \cup (Contents(tree) \ Contents(main))}

\* summary_doc_refs: the entries of the manifest in the checkout; the script
\* fails without one.
ClassifierRuns == Kind(tree, Manifest) \notin {"missing", "dir"}
is_summary_doc_ref(path) ==
  /\ Kind(tree, Manifest) = "file"
  /\ \E i \in DOMAIN tree[Manifest].body :
       LET line == tree[Manifest].body[i]
       IN  line.kind = "ref" /\ line.ref = path

evidence_changed ==
  \E path \in ChangedFiles :
    \/ path \in {Baseline, Manifest}
    \/ Len(path) > 2 /\ SubSeq(path, 1, 2) = EvidenceDir
    \/ is_summary_doc_ref(path)

docs_only ==
  /\ ChangedFiles # {}
  /\ \A path \in ChangedFiles : Last(path) \in MdName \/ UnderDocs(path)

\* The Check job of the CI workflow, as far as the evidence goes.
CheckRuns == ~docs_only \/ evidence_changed

Merge ==
  /\ main # Detached
  /\ InGit(tree)
  /\ ClassifierRuns
  /\ CheckRuns => ExitStatus(tree) = 0
  /\ main' = tree
  /\ UNCHANGED <<tree, edits>>

GateNext ==
  \/ main = Detached /\ Next /\ UNCHANGED main
  \/ Push
  \/ Merge

GateSpec == GateInit /\ [][GateNext]_gateVars

(***************************************************************************)
(* The main branch always passes the evidence check, although the check is *)
(* skipped for most changes of documentation: whatever is merged without   *)
(* it, deletions, replacements and moves included, cannot have touched     *)
(* what it looks at (the classifier and the Check job).                    *)
(***************************************************************************)
MainStaysIntact == main # Detached => Intact(main)

=============================================================================
