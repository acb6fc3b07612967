--------------------------- MODULE EvidenceBundle ---------------------------
(***************************************************************************)
(* The evidence baseline check (checkRepo of tools/evidencebaseline):      *)
(* docs/evidence-baseline.md names evidence bundles and summary docs, and  *)
(* each bundle under docs/evidence carries a SHA256SUMS that covers its    *)
(* raw files.  The repository is a file tree; it starts intact and is      *)
(* edited one path at a time, and in every tree reached the check is       *)
(* compared with what it is meant to guarantee.                            *)
(*                                                                         *)
(* A path or reference is the sequence of its parts between slashes: a     *)
(* leading "" is a leading slash, a trailing "" a trailing slash.  The     *)
(* text of a file is its parsed form: the lines of the baseline, of the    *)
(* manifest and of SHA256SUMS are records, and the content of any other    *)
(* file is also its digest (SHA-256 has no collisions here).  I/O errors   *)
(* other than a missing file are left out.                                 *)
(***************************************************************************)
EXTENDS Integers, SequencesExt

CONSTANTS Intact0,     \* the tree before any edit
          Edits,       \* the edits: pairs of a path and what is put there
          MaxEdits,    \* how many are made (a bound of the model)
          MdName,      \* the file names that end in .md
          HiddenName,  \* the file names that start with a dot
          OddPart,     \* path parts with a backslash, a NUL or a colon
          DocOrder     \* the summary docs, in the order of sort.Strings

VARIABLES tree,        \* from the paths that exist to what is there
          edits        \* the edits made so far

vars == <<tree, edits>>

Kind(repo, p) == IF p \in DOMAIN repo THEN repo[p].kind ELSE "missing"

Baseline == <<"docs", "evidence-baseline.md">>
Manifest == <<"docs", "evidence-baseline-summary-docs.txt">>
EvidenceDir == <<"docs", "evidence">>

Finding(at, msg) == [at |-> at, msg |-> msg]

\* The finding msg if the condition holds, or none.
Report(cond, at, msg) == IF cond THEN {Finding(at, msg)} ELSE {}

----------------------------------------------------------------------------
(* References and paths                                                    *)

UnsafePart == {"", ".", ".."} \cup OddPart

\* One trailing slash is allowed in a repository reference, none in the path
\* of a checksum line.
safeSlashPath(ref, allowTrailingSlash) ==
  LET r == IF allowTrailingSlash /\ Len(ref) > 1 /\ Last(ref) = ""
           THEN Front(ref) ELSE ref
  IN  \A i \in DOMAIN r : r[i] \notin UnsafePart

safeRepoRelativeRef(ref) == safeSlashPath(ref, TRUE)
safeBundleRelativePath(ref) == safeSlashPath(ref, FALSE)

\* ref without its leading parts that equal part (the last part stays).
TrimLeading(ref, part) ==
  LET k == Min({i \in DOMAIN ref : ref[i] # part \/ i = Len(ref)})
  IN  SubSeq(ref, k, Len(ref))

trimLeadingDotSlash(ref) == TrimLeading(ref, ".")

UnderDocs(ref) == Len(ref) >= 2 /\ ref[1] = "docs"

looksLikeUnsafeRepoRef(ref) ==
  ~safeRepoRelativeRef(ref) /\ UnderDocs(TrimLeading(ref, ""))

CellRefs(cell) == {trimLeadingDotSlash(raw) : raw \in cell}

\* Of the references in a cell those to keep, and those found unsafe.
filteredBacktickRefs(cell, keep) ==
  [refs     |-> {ref \in keep : safeRepoRelativeRef(ref)},
   findings |-> {Finding(ref, "unsafe baseline ref") : ref \in
                   {r \in CellRefs(cell) : IF r \in keep THEN ~safeRepoRelativeRef(r)
                                           ELSE looksLikeUnsafeRepoRef(r)}}]

evidenceRefs(cell) ==
  filteredBacktickRefs(cell,
    {ref \in CellRefs(cell) : Len(ref) >= 3 /\ SubSeq(ref, 1, 2) = EvidenceDir})

summaryRefs(cell) ==
  filteredBacktickRefs(cell,
    {ref \in CellRefs(cell) : UnderDocs(ref) /\ Last(ref) \in MdName})

TrimSlash(ref) == IF Last(ref) = "" THEN Front(ref) ELSE ref

\* The first parent of path that is not a directory is reported.
ParentFindings(repo, path) ==
  LET bad == {i \in 1..Len(path) - 1 : Kind(repo, SubSeq(path, 1, i)) # "dir"}
  IN  Report(bad # {}, SubSeq(path, 1, Min(bad)), "parent: not a directory")

\* Findings about the way to ref, or else what is there (perhaps nothing).
lstatRepoRelative(repo, ref) ==
  IF ~safeRepoRelativeRef(ref)
  THEN [findings |-> {Finding(ref, "unsafe repository path")}, kind |-> "missing"]
  ELSE [findings |-> ParentFindings(repo, TrimSlash(ref)),
        kind |-> Kind(repo, TrimSlash(ref))]

----------------------------------------------------------------------------
(* The baseline index and the manifest                                     *)

Columns == 5

\* Where the table lines are: between the Baseline Index heading and the next
\* heading.
TableLines(lines) ==
  LET start == {i \in DOMAIN lines : lines[i].kind = "index"}
  IN  {i \in DOMAIN lines :
         /\ lines[i].kind \in {"header", "dashes", "row"}
         /\ start # {} /\ i > Min(start)
         /\ \A j \in Min(start) + 1..i : lines[j].kind \notin {"index", "heading"}}

validTableSeparator(line) == line.kind = "dashes" /\ line.cols = Columns

validHeader(line) == line.kind = "header" /\ line.cols = Columns

\* A line in the place of the separator that is none is read as a row.
parseBaselineIndex(lines) ==
  LET table == TableLines(lines)
      below == table \ {Min(table)}
      sep   == below # {} /\ validTableSeparator(lines[Min(below)])
      data  == IF sep THEN below \ {Min(below)} ELSE below
      good  == {i \in data : lines[i].cols = Columns /\ lines[i].lane # ""}
  IN  IF table = {} \/ ~validHeader(lines[Min(table)])
      THEN [rows |-> {}, findings |-> {Finding(Baseline, "no table, or a wrong header")}]
      ELSE [rows |-> {lines[i] : i \in good},
            findings |->
              Report(~sep, Baseline, "separator is missing or wrong")
              \cup Report(good # data, Baseline, "bad row")
              \cup Report(\E i, j \in good : i < j /\ lines[i].lane = lines[j].lane,
                          Baseline, "duplicate evidence lane")
              \cup Report(good = {}, Baseline, "no evidence rows")]

Before(d, e) == \E m, n \in DOMAIN DocOrder : m < n /\ DocOrder[m] = d /\ DocOrder[n] = e

\* The entries of a manifest are the docs of a set, each once and sorted.
ListsSorted(lines, docs) ==
  LET entries == {i \in DOMAIN lines : lines[i].kind = "ref"}
  IN  /\ {lines[i].ref : i \in entries} = docs
      /\ \A i, j \in entries : i < j => Before(lines[i].ref, lines[j].ref)

Padded(lines) == \E i \in DOMAIN lines : lines[i].kind = "padded"

checkSummaryDocsManifest(repo, docs) ==
  LET at == lstatRepoRelative(repo, Manifest)
      lines == repo[Manifest].body
  IN  IF at.findings # {} THEN at.findings
      ELSE IF at.kind # "file" THEN {Finding(Manifest, "missing or not a regular file")}
      ELSE IF Padded(lines) THEN {Finding(Manifest, "whitespace")}
      ELSE Report(~ListsSorted(lines, docs), Manifest, "stale")

----------------------------------------------------------------------------
(* Bundles                                                                 *)

ControlFiles == {<<"README.md">>, <<"SHA256SUMS">>, <<"SHA256SUMS.sig">>}

ignoredBundleEntryMutant(rel) ==
  <<Last(rel)>> \in ControlFiles \/ Last(rel) = ".DS_Store"

ignoredBundleEntry(rel) == rel \in ControlFiles \/ Last(rel) = ".DS_Store"

validateBundleControlFile(repo, path) ==
  Report(Kind(repo, path) # "file", path, "missing or not a regular file")

validateOptionalBundleControlFile(repo, path) ==
  Report(Kind(repo, path) \notin {"file", "missing"}, path, "not a regular file")

\* A checksum line is blank, in binary mode, out of format, or has a hash and
\* a path.  A hash that is not lowercase hex is reported and kept; a path that
\* is marked (a blank in it, or a leading *) or unsafe is reported and dropped.
parseSHA256SUMS(lines, path) ==
  LET parts == {i \in DOMAIN lines : lines[i].form = "text"}
      kept  == {i \in parts : ~lines[i].marked /\ safeBundleRelativePath(lines[i].rel)}
  IN  [entries |-> {lines[i] : i \in kept},
       findings |->
         Report(\E i \in DOMAIN lines : lines[i].form \in {"binary", "other"},
                path, "line format")
         \cup Report(\E i \in parts : ~lines[i].hex, path, "hash format")
         \cup Report(kept # parts, path, "unsafe path")
         \cup Report(\E i, j \in kept : i < j /\ lines[i].rel = lines[j].rel,
                     path, "duplicate checksum path")]

\* Every part of the path is looked at, and no link is followed.
lstatChecksumEntry(repo, bundle, rel) ==
  LET at(i) == Kind(repo, bundle \o SubSeq(rel, 1, i))
  IN  Report(\E i \in DOMAIN rel : \/ at(i) \in {"missing", "link"}
                                   \/ i < Len(rel) /\ at(i) # "dir",
             bundle \o rel, "checksum path leads nowhere")

verifySHA256Entry(repo, bundle, entry) ==
  LET path == bundle \o entry.rel
      found == lstatChecksumEntry(repo, bundle, entry.rel)
  IN  IF found # {} THEN found
      ELSE IF Kind(repo, path) # "file" THEN {Finding(path, "non-regular file")}
      ELSE Report(repo[path].body # entry.hash, path, "hash mismatch")

Below(repo, path) == {p \in DOMAIN repo : Len(p) > Len(path) /\ SubSeq(p, 1, Len(path)) = path}

\* Where p is, seen from a directory above it.
Rel(dir, p) == SubSeq(p, Len(dir) + 1, Len(p))

\* The walk below the bundle: it enters every directory and follows no link.
bundleRawFiles(repo, bundle) ==
  LET walked == {p \in Below(repo, bundle) : ~ignoredBundleEntry(Rel(bundle, p))}
  IN  [files    |-> {Rel(bundle, p) : p \in {q \in walked : Kind(repo, q) = "file"}},
       findings |-> {Finding(p, "not a regular file") :
                       p \in {q \in walked : Kind(repo, q) \in {"link", "pipe"}}}]

\* Everything is reported, except that without a regular SHA256SUMS nothing
\* else of the bundle is looked at.
checkBundle(repo, bundle) ==
  LET at == lstatRepoRelative(repo, bundle)
      sumPath == bundle \o <<"SHA256SUMS">>
      control ==
        validateBundleControlFile(repo, bundle \o <<"README.md">>)
        \cup validateOptionalBundleControlFile(repo, bundle \o <<"SHA256SUMS.sig">>)
        \cup validateBundleControlFile(repo, sumPath)
      sums == parseSHA256SUMS(repo[sumPath].body, sumPath)
      raw == bundleRawFiles(repo, bundle)
  IN  IF at.findings # {} THEN at.findings
      ELSE IF at.kind # "dir" THEN {Finding(bundle, "root is not a directory")}
      ELSE IF Kind(repo, sumPath) # "file" THEN control
      ELSE   control
             \cup sums.findings
             \cup Report(sums.entries = {}, sumPath, "no checksum entries")
             \cup (UNION {verifySHA256Entry(repo, bundle, e) : e \in sums.entries})
             \cup raw.findings
             \cup {Finding(bundle \o f, "not covered") :
                      f \in raw.files \ {e.rel : e \in sums.entries}}

\* The bundle a reference lies in, if any: the file docs/evidence/x is in none.
evidenceBundleForRef(repo, ref) ==
  LET path == TrimSlash(ref)
      inBundle == \/ Kind(repo, path) \in {"dir", "link"}
                  \/ Last(ref) = ""
                  \/ Len(path) >= 4
  IN  IF Len(path) >= 3 /\ inBundle THEN {SubSeq(path, 1, 3)} ELSE {}

\* The directories and links directly under docs/evidence, hidden ones apart.
discoverEvidenceBundles(repo) ==
  {p \in DOMAIN repo : /\ Len(p) = 3
                       /\ SubSeq(p, 1, 2) = EvidenceDir
                       /\ Last(p) \notin HiddenName
                       /\ Kind(repo, p) \in {"dir", "link"}}

----------------------------------------------------------------------------
(* The whole check                                                         *)

\* What is wrong with a reference of a row; refuse are the kinds it rejects.
RefFindings(repo, ref, refuse) ==
  LET at == lstatRepoRelative(repo, ref)
  IN  IF at.findings # {} THEN at.findings
      ELSE Report(at.kind \in refuse, ref, at.kind)

RowFindings(repo, row) ==
  LET raw == evidenceRefs(row.raw)
      doc == summaryRefs(row.summary)
  IN  raw.findings \cup doc.findings
      \cup (UNION {RefFindings(repo, ref, {"missing", "link"}) : ref \in raw.refs})
      \cup (UNION {RefFindings(repo, ref, {"missing", "link", "dir"}) : ref \in doc.refs})

\* The bundles of the references of a row that lead somewhere.
referencedBundles(repo, row) ==
  UNION {evidenceBundleForRef(repo, ref) : ref \in
           {r \in evidenceRefs(row.raw).refs :
              LET at == lstatRepoRelative(repo, r)
              IN  at.findings = {} /\ at.kind # "missing"}}

summaryDocSet(rows) == UNION {summaryRefs(row.summary).refs : row \in rows}

\* A missing baseline or evidence directory is an error (exit status 2); a
\* baseline that is not a regular file is the only finding reported.
checkRepo(repo) ==
  LET at == lstatRepoRelative(repo, Baseline)
      index == parseBaselineIndex(repo[Baseline].body)
      evidence == lstatRepoRelative(repo, EvidenceDir)
      isDir == evidence.findings = {} /\ evidence.kind = "dir"
      bundles == (UNION {referencedBundles(repo, row) : row \in index.rows})
                 \cup (IF isDir THEN discoverEvidenceBundles(repo) ELSE {})
      failed == [err |-> TRUE, findings |-> {}]
      found(f) == [err |-> FALSE, findings |-> f]
  IN  IF at.findings # {} THEN found(at.findings)
      ELSE IF at.kind = "missing" THEN failed
      ELSE IF at.kind # "file" THEN found({Finding(Baseline, "not a regular file")})
      ELSE IF evidence.findings = {} /\ evidence.kind = "missing" THEN failed
      ELSE found(index.findings
                 \cup (UNION {RowFindings(repo, row) : row \in index.rows})
                 \cup checkSummaryDocsManifest(repo, summaryDocSet(index.rows))
                 \cup evidence.findings
                 \cup Report(~isDir, EvidenceDir, "not a directory")
                 \cup UNION {checkBundle(repo, b) : b \in bundles})

\* main without flags: 2 on an error, 1 with findings, otherwise 0.
ExitStatus(repo) == IF checkRepo(repo).err THEN 2
                    ELSE IF checkRepo(repo).findings # {} THEN 1 ELSE 0

----------------------------------------------------------------------------
(* What a repository is                                                    *)

Ref == Seq(STRING) \ {<<>>}

IndexLine == [kind : STRING, cols : Nat, lane : STRING, raw : SUBSET Ref, summary : SUBSET Ref]
SumLine == [form : {"text", "blank", "binary", "other"}, hex : BOOLEAN, marked : BOOLEAN,
            rel : Ref, hash : STRING]

IsSums(path) == Len(path) = 4 /\ SubSeq(path, 1, 2) = EvidenceDir /\ Last(path) = "SHA256SUMS"

\* What may be at a path of a file system, and what a file there may hold.
IsNode(path, node) ==
  /\ path \in Ref /\ \A i \in DOMAIN path : path[i] \notin {"", ".", ".."}
  /\ node.kind \in {"dir", "file", "link", "pipe"}
  /\ node.kind = "file" => /\ path = Baseline => node.body \in Seq(IndexLine)
                           /\ IsSums(path) => node.body \in Seq(SumLine)

IsRepo(repo) ==
  \A p \in DOMAIN repo :
    /\ IsNode(p, repo[p])
    /\ \A i \in 1..Len(p) - 1 : Kind(repo, SubSeq(p, 1, i)) = "dir"

(* A name in .md is not empty, and the three fixed paths have no odd part. *)
ASSUME NamesAssumption ==
  /\ "" \notin MdName
  /\ \A p \in {Baseline, Manifest, EvidenceDir} : \A i \in DOMAIN p : p[i] \notin OddPart

ASSUME RepoAssumption == IsRepo(Intact0) /\ \A e \in Edits : IsNode(e[1], e[2])

----------------------------------------------------------------------------
(* The edits: what is at a path is removed, with everything below it, and  *)
(* something else is put there if its directory exists.                    *)

Init == tree = Intact0 /\ edits = 0

Delete(path) ==
  /\ path \in DOMAIN tree
  /\ tree' = [p \in DOMAIN tree \ ({path} \cup Below(tree, path)) |-> tree[p]]

Put(path, node) ==
  /\ Len(path) > 1 => Kind(tree, Front(path)) = "dir"
  /\ LET over == IF node.kind = "dir" THEN {} ELSE Below(tree, path)
     IN  tree' = [p \in (DOMAIN tree \ over) \cup {path} |-> IF p = path THEN node ELSE tree[p]]

Edit(e) == Delete(e[1]) \/ Put(e[1], e[2])

Next ==
  /\ edits < MaxEdits
  /\ edits' = edits + 1
  /\ \E e \in Edits : Edit(e)

Spec == Init /\ [][Next]_vars

----------------------------------------------------------------------------
(* What the check is meant to guarantee, said without its steps.           *)

\* A bundle is a directory with its control files, whose SHA256SUMS lists
\* exactly once every other file, with its digest, and lists nothing else that
\* is missing, altered or reached through a link.  Odd names are not allowed.
IntactBundle(repo, b) ==
  /\ Kind(repo, b) = "dir"
  /\ \A i \in DOMAIN b : b[i] \notin OddPart
  /\ Kind(repo, b \o <<"README.md">>) = "file"
  /\ Kind(repo, b \o <<"SHA256SUMS.sig">>) \in {"missing", "file"}
  /\ Kind(repo, b \o <<"SHA256SUMS">>) = "file"
  /\ LET lines == repo[b \o <<"SHA256SUMS">>].body
         used == {i \in DOMAIN lines : lines[i].form # "blank"}
     IN  /\ used # {}
         /\ \A i \in used :
              /\ lines[i].form = "text" /\ lines[i].hex /\ ~lines[i].marked
              /\ \A n \in DOMAIN lines[i].rel : lines[i].rel[n] \notin OddPart
              /\ Kind(repo, b \o lines[i].rel) = "file"
              /\ repo[b \o lines[i].rel].body = lines[i].hash
         /\ \A i, j \in used : lines[i].rel = lines[j].rel => i = j
         /\ \A p \in Below(repo, b) :
              \/ Kind(repo, p) = "dir"
              \/ Last(p) = ".DS_Store"
              \/ /\ Len(p) = Len(b) + 1
                 /\ Last(p) \in {"README.md", "SHA256SUMS", "SHA256SUMS.sig"}
              \/ /\ Kind(repo, p) = "file"
                 /\ \E i \in used : p = b \o lines[i].rel

\* ref seems to name something in docs/: after ./ and after slashes in front.
Claims(ref) ==
  \E k \in 1..Len(ref) - 1 :
    /\ ref[k] = "docs"
    /\ \E j \in 0..k - 1 : /\ \A i \in 1..j : ref[i] = "."
                           /\ \A i \in j + 1..k - 1 : ref[i] = ""

\* The path a reference names, if any: after ./ and before a final slash.
Named(ref) ==
  {SubSeq(ref, s[1], s[2]) : s \in
     {t \in (1..Len(ref)) \X (1..Len(ref)) :
        /\ t[1] <= t[2]
        /\ \A n \in 1..t[1] - 1 : ref[n] = "."
        /\ \A n \in t[1]..t[2] : ref[n] \notin UnsafePart
        /\ t[2] = Len(ref) \/ (t[2] = Len(ref) - 1 /\ Last(ref) = "")}}

\* A reference to something in docs/evidence leads to something that is there,
\* and the bundle it leads into is intact.
GoodRaw(repo, ref) ==
  \A p \in Named(ref) :
    /\ Len(p) >= 2 /\ SubSeq(p, 1, 2) = EvidenceDir
    /\ Len(p) > 2 \/ Last(ref) = ""
    => /\ Kind(repo, p) \notin {"missing", "link"}
       /\ Len(p) > 3 \/ (Len(p) = 3 /\ (Kind(repo, p) = "dir" \/ Last(ref) = ""))
            => IntactBundle(repo, SubSeq(p, 1, 3))

\* The summary docs that the cells of a set of rows name.
NamedDocs(rows) ==
  {p \in UNION {Named(ref) : ref \in {r \in UNION {row.summary : row \in rows} :
                                        Last(r) \in MdName}} : UnderDocs(p)}

\* h and s are the first two lines of the table, and the other lines are rows.
IntactIndex(lines, h, s) ==
  LET rows == TableLines(lines) \ {h, s}
  IN  /\ h < s /\ \A i \in rows : s < i
      /\ validHeader(lines[h]) /\ validTableSeparator(lines[s])
      /\ rows # {}
      /\ \A i \in rows : lines[i].cols = Columns /\ lines[i].lane # ""
      /\ \A i, j \in rows : lines[i].lane = lines[j].lane => i = j

IntactRows(repo, rows) ==
  /\ \A row \in rows : \A ref \in row.raw \cup row.summary : Claims(ref) => Named(ref) # {}
  /\ \A row \in rows : \A ref \in row.raw : GoodRaw(repo, ref)
  /\ \A p \in NamedDocs(rows) : Kind(repo, p) \in {"file", "pipe"}
  /\ ~Padded(repo[Manifest].body)
  /\ ListsSorted(repo[Manifest].body, NamedDocs(rows))

(***************************************************************************)
(* A repository is intact if its baseline has a well-formed index whose    *)
(* lanes are distinct, every reference into docs/ leads to what it should, *)
(* the manifest lists the summary docs, and every bundle, referenced or    *)
(* just lying in docs/evidence, is intact.                                 *)
(***************************************************************************)
Intact(repo) ==
  /\ \A p \in {Baseline, Manifest} : Kind(repo, p) = "file"
  /\ Kind(repo, EvidenceDir) = "dir"
  /\ LET lines == repo[Baseline].body
     IN  \E h, s \in TableLines(lines) :
           /\ IntactIndex(lines, h, s)
           /\ IntactRows(repo, {lines[i] : i \in TableLines(lines) \ {h, s}})
  /\ \A b \in DOMAIN repo :
       /\ Front(b) = EvidenceDir
       /\ Last(b) \notin HiddenName
       /\ Kind(repo, b) \in {"dir", "link"}
       => IntactBundle(repo, b)

(***************************************************************************)
(* The check passes exactly on the intact repositories: no edit of a file, *)
(* a checksum line, the index or the manifest, or combination of edits,    *)
(* goes unnoticed, and none that keeps the repository intact is rejected   *)
(* (checkRepo and everything it calls).                                    *)
(***************************************************************************)
PassesExactlyIntact == ExitStatus(tree) = 0 <=> Intact(tree)

=============================================================================
