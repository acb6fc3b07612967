-------------------------- MODULE EvidenceManifest --------------------------
(***************************************************************************)
(* Runs of the evidence baseline tool against the summary-doc manifest     *)
(* (tools/evidencebaseline/main.go).  The manifest lists, in sorted order, *)
(* the summary docs the baseline names.  A run with --write-summary-docs   *)
(* replaces it through a temporary file and a rename, a run without flags  *)
(* compares it with the baseline, and a run with --list-summary-docs only  *)
(* prints.  Several runs may be under way at once while the baseline and   *)
(* the manifest are edited by hand; each file operation may fail, and a    *)
(* run may be killed between any two of them or in the middle of a write.  *)
(*                                                                         *)
(* A summary doc is a positive integer, so that sort.Strings is the order  *)
(* of the integers; the parsing of the baseline table is in EvidenceBundle.*)
(***************************************************************************)
EXTENDS Integers, Sequences, FiniteSets

CONSTANTS Proc,        \* the runs of the tool
          Doc,         \* the summary docs a baseline may name
          MaxEdits     \* how many edits are made by hand (a bound of the model)

ASSUME DocAssumption == Doc \subseteq Nat \ {0} /\ IsFiniteSet(Doc)
ASSUME EditsAssumption == MaxEdits \in Nat

VARIABLES baseline,    \* the docs it names, and whether it has findings
          manifest,    \* what is at the manifest's path, and its lines
          origin,      \* {docs} the manifest was written from, {} if by hand
          tmp,         \* each run's temporary file
          pc,          \* each run's next step
          refs,        \* the docs each run has read from the baseline
          found,       \* whether the baseline a check has read had findings
          got,         \* the origin of the manifest a check has read
          exit,        \* the exit status of each run
          lost,        \* the runs killed, or whose Remove failed
          edits        \* the edits made so far

vars == <<baseline, manifest, origin, tmp, pc, refs, found, got, exit, lost,
          edits>>

Header == 0       \* the comment line
Running == -1     \* no exit status yet

\* How many elements of a set come before one of them, and itself.
Rank(set, d) == Cardinality({e \in set : e <= d})

sortedKeys(set) == [i \in 1..Cardinality(set) |-> CHOOSE d \in set : Rank(set, d) = i]

RenderMutant(docs) ==
  <<Header>> \o [i \in 1..Cardinality(docs) |-> sortedKeys(docs)[Cardinality(docs) + 1 - i]]

\* The content built by writeSummaryDocsManifest from sorted refs.
Render(docs) == <<Header>> \o sortedKeys(docs)

\* The entries of a manifest: comment and empty lines are skipped.
parseSummaryDocsManifest(lines) ==
  LET kept[i \in 0..Len(lines)] ==
        IF i = 0 THEN <<>>
        ELSE IF lines[i] = Header THEN kept[i - 1] ELSE Append(kept[i - 1], lines[i])
  IN  kept[Len(lines)]

Regular(lines) == [kind |-> "file", lines |-> lines]
Other(kind) == [kind |-> kind, lines |-> <<>>]
NoFile == Other("absent")

Baselines == [docs : SUBSET Doc, findings : BOOLEAN]

Init ==
  /\ baseline \in [docs : SUBSET Doc, findings : {FALSE}]
  /\ manifest = Regular(Render(baseline.docs))
  /\ origin = {baseline.docs}
  /\ tmp = [p \in Proc |-> NoFile]
  /\ pc = [p \in Proc |-> "flags"]
  /\ refs = [p \in Proc |-> {}]
  /\ found = [p \in Proc |-> FALSE]
  /\ got = [p \in Proc |-> {}]
  /\ exit = [p \in Proc |-> Running]
  /\ lost = {}
  /\ edits = 0

----------------------------------------------------------------------------
Goto(p, l) == pc' = [pc EXCEPT ![p] = l]

Exit(p, status) ==
  /\ Goto(p, "end")
  /\ exit' = [exit EXCEPT ![p] = status]

Repo == <<baseline, manifest, origin, edits>>

\* main: the two flags exclude each other; otherwise the baseline is read.
Flags(p) ==
  /\ pc[p] = "flags"
  /\ \/ Exit(p, 2)
     \/ /\ \E mode \in {"list", "write", "check"} : Goto(p, mode)
        /\ UNCHANGED exit
  /\ UNCHANGED <<Repo, tmp, refs, found, got, lost>>

\* summaryDocsFromBaseline for --list-summary-docs: findings end the run with
\* status 1, a read error with 2, and otherwise the docs are printed.
List(p) ==
  /\ pc[p] = "list"
  /\ \/ Exit(p, 2)
     \/ Exit(p, IF baseline.findings THEN 1 ELSE 0)
  /\ UNCHANGED <<Repo, tmp, refs, found, got, lost>>

\* summaryDocsFromBaseline for --write-summary-docs.
ReadForWrite(p) ==
  /\ pc[p] = "write"
  /\ \/ Exit(p, 2) /\ UNCHANGED refs
     \/ baseline.findings /\ Exit(p, 1) /\ UNCHANGED refs
     \/ /\ ~baseline.findings
        /\ refs' = [refs EXCEPT ![p] = baseline.docs]
        /\ Goto(p, "path")
        /\ UNCHANGED exit
  /\ UNCHANGED <<Repo, tmp, found, got, lost>>

\* A symlink or a directory at the manifest's path is refused; an absent file
\* is not; any other error of Lstat ends the run.
summaryDocsManifestWritePath(p) ==
  /\ pc[p] = "path"
  /\ \/ Exit(p, 2)
     \/ /\ manifest.kind \in {"absent", "file"}
        /\ Goto(p, "create")
        /\ UNCHANGED exit
  /\ UNCHANGED <<Repo, tmp, refs, found, got, lost>>

\* os.CreateTemp in the manifest's directory.
CreateTemp(p) ==
  /\ pc[p] = "create"
  /\ \/ Exit(p, 2) /\ UNCHANGED tmp
     \/ /\ tmp' = [tmp EXCEPT ![p] = Regular(<<>>)]
        /\ Goto(p, "string")
        /\ UNCHANGED exit
  /\ UNCHANGED <<Repo, refs, found, got, lost>>

\* What a write that fails, or is cut off by a crash, may leave in the file.
Partial(docs) ==
  {SubSeq(Render(docs), 1, k) : k \in 0..Len(Render(docs)) - 1}

WriteStringMutant(p) ==
  /\ pc[p] = "string"
  /\ \E part \in Partial(refs[p]) \cup {Render(refs[p])} :
       tmp' = [tmp EXCEPT ![p] = Regular(part)]
  /\ Goto(p, "chmod")
  /\ UNCHANGED <<Repo, refs, found, got, exit, lost>>

\* tmp.WriteString: on error the file is closed and the deferred call removes it.
WriteString(p) ==
  /\ pc[p] = "string"
  /\ \/ /\ tmp' = [tmp EXCEPT ![p] = Regular(Render(refs[p]))]
        /\ Goto(p, "chmod")
     \/ /\ \E part \in Partial(refs[p]) : tmp' = [tmp EXCEPT ![p] = Regular(part)]
        /\ Goto(p, "remove")
  /\ UNCHANGED <<Repo, refs, found, got, exit, lost>>

\* tmp.Chmod and tmp.Close, each with the same error path.
ChmodClose(p) ==
  /\ \/ pc[p] = "chmod" /\ Goto(p, "close")
     \/ pc[p] = "close" /\ Goto(p, "rename")
     \/ pc[p] \in {"chmod", "close"} /\ Goto(p, "remove")
  /\ UNCHANGED <<Repo, tmp, refs, found, got, exit, lost>>

RenameMutant(p) ==
  /\ pc[p] = "rename"
  /\ \/ /\ manifest.kind # "dir"
        /\ manifest' = tmp[p]
        /\ origin' = {refs[p]}
        /\ tmp' = [tmp EXCEPT ![p] = NoFile]
        /\ Exit(p, 0)
     \/ /\ Exit(p, 2)
        /\ UNCHANGED <<manifest, origin, tmp>>
  /\ UNCHANGED <<baseline, edits, refs, found, got, lost>>

\* os.Rename: replaces a file or a symlink at the path, but not a directory.
\* removeTmp is cleared only after it succeeded.
Rename(p) ==
  /\ pc[p] = "rename"
  /\ \/ /\ manifest.kind # "dir"
        /\ manifest' = tmp[p]
        /\ origin' = {refs[p]}
        /\ tmp' = [tmp EXCEPT ![p] = NoFile]
        /\ Exit(p, 0)
     \/ /\ Goto(p, "remove")
        /\ UNCHANGED <<manifest, origin, tmp, exit>>
  /\ UNCHANGED <<baseline, edits, refs, found, got, lost>>

\* The deferred os.Remove, whose own error is dropped.
RemoveTmp(p) ==
  /\ pc[p] = "remove"
  /\ \/ tmp' = [tmp EXCEPT ![p] = NoFile] /\ UNCHANGED lost
     \/ lost' = lost \cup {p} /\ UNCHANGED tmp
  /\ Exit(p, 2)
  /\ UNCHANGED <<Repo, refs, found, got>>

\* checkRepo reads the baseline first.  Its findings do not stop it; they are
\* reported together with those of the manifest.
ReadForCheck(p) ==
  /\ pc[p] = "check"
  /\ \/ Exit(p, 2) /\ UNCHANGED <<refs, found>>
     \/ /\ refs' = [refs EXCEPT ![p] = baseline.docs]
        /\ found' = [found EXCEPT ![p] = baseline.findings]
        /\ Goto(p, "compare")
        /\ UNCHANGED exit
  /\ UNCHANGED <<Repo, tmp, got, lost>>

\* readSummaryDocsManifest and the comparison of checkSummaryDocsManifest.
\* Every error here is a finding, and so is a manifest that is missing.
checkSummaryDocsManifest(p) ==
  /\ pc[p] = "compare"
  /\ \/ /\ manifest.kind = "file"
        /\ got' = [got EXCEPT ![p] = origin]
        /\ Exit(p, IF /\ ~found[p]
                      /\ parseSummaryDocsManifest(manifest.lines)
                           = sortedKeys(refs[p])
                   THEN 0 ELSE 1)
     \/ Exit(p, 1) /\ UNCHANGED got
  /\ UNCHANGED <<Repo, tmp, refs, found, lost>>

----------------------------------------------------------------------------
\* A run is killed: what it has written so far stays, and nothing is removed.
Crash(p) ==
  /\ pc[p] # "end"
  /\ IF pc[p] = "string"
     THEN \E part \in Partial(refs[p]) : tmp' = [tmp EXCEPT ![p] = Regular(part)]
     ELSE UNCHANGED tmp
  /\ lost' = lost \cup {p}
  /\ Goto(p, "end")
  /\ UNCHANGED <<Repo, refs, found, got, exit>>

\* Edits by hand, of the baseline or of what is at the manifest's path.
Edit ==
  /\ edits < MaxEdits
  /\ edits' = edits + 1
  /\ \/ baseline' \in Baselines /\ UNCHANGED <<manifest, origin>>
     \/ /\ manifest' \in {Other(k) : k \in {"absent", "link", "dir"}}
        /\ origin' = {}
        /\ UNCHANGED baseline
  /\ UNCHANGED <<tmp, pc, refs, found, got, exit, lost>>

Run(p) ==
  \/ Flags(p)
  \/ List(p)
  \/ ReadForWrite(p)
  \/ summaryDocsManifestWritePath(p)
  \/ CreateTemp(p)
  \/ WriteString(p)
  \/ ChmodClose(p)
  \/ Rename(p)
  \/ RemoveTmp(p)
  \/ ReadForCheck(p)
  \/ checkSummaryDocsManifest(p)

Next == Edit \/ \E p \in Proc : Run(p) \/ Crash(p)

Spec == Init /\ [][Next]_vars

----------------------------------------------------------------------------
(* The types of the variables.                                             *)
TypeOK ==
  /\ baseline \in Baselines
  /\ manifest.kind \in {"absent", "file", "link", "dir"}
  /\ pc \in [Proc -> {"flags", "list", "write", "check", "path", "create",
                      "string", "chmod", "close", "rename", "remove",
                      "compare", "end"}]
  /\ refs \in [Proc -> SUBSET Doc]
  /\ found \in [Proc -> BOOLEAN]
  /\ exit \in [Proc -> {Running, 0, 1, 2}]
  /\ lost \subseteq Proc
  /\ edits \in 0..MaxEdits

(***************************************************************************)
(* The manifest is never seen half written: whatever fails, is killed or   *)
(* overlaps, a manifest the tool produced is the complete list for one     *)
(* baseline that some run had read (the temporary file and os.Rename of    *)
(* writeSummaryDocsManifest).                                              *)
(***************************************************************************)
ManifestWhole ==
  manifest.kind = "file" =>
    \E docs \in origin : manifest.lines = Render(docs)

(***************************************************************************)
(* A run that has ended leaves no temporary file in docs/, on any error    *)
(* path, unless it was killed or the Remove itself failed (the deferred    *)
(* removal under removeTmp).                                               *)
(***************************************************************************)
NoLitter ==
  \A p \in Proc : pc[p] = "end" /\ p \notin lost => tmp[p] = NoFile

(***************************************************************************)
(* A check that read a manifest passes exactly when that manifest was      *)
(* written from the docs that the check read in the baseline, and that     *)
(* baseline had no findings: the list written by one run reads back, in    *)
(* another, to the list it was made from, and a stale one never passes.    *)
(***************************************************************************)
VerdictBySource ==
  \A p \in Proc :
    got[p] # {} => (exit[p] = 0 <=> got[p] = {refs[p]} /\ ~found[p])

=============================================================================
