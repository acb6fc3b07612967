----------------------- MODULE EvidenceManifestProofs -----------------------
(***************************************************************************)
(* Proofs about EvidenceManifest, for any number of runs, any finite set   *)
(* of docs and any number of edits: the manifest is never half written, no *)
(* run that ends leaves its temporary file behind, and a check passes only *)
(* on a list made from the docs it expects.                                *)
(*                                                                         *)
(* None is inductive by itself.  ManifestWhole needs that a temporary file *)
(* past the write is complete (TmpComplete), NoLitter that a run has none  *)
(* before it creates one (TmpCreated).  VerdictBySource needs all of that, *)
(* so that what a check reads is a rendered list, and that a rendered list *)
(* determines its docs: it parses back to the sorted list (ParseRender),   *)
(* and sorting loses nothing (SortedInjective, by counting ranks).         *)
(***************************************************************************)
EXTENDS EvidenceManifest, FiniteSetTheorems, FunctionTheorems, NaturalsInduction,
        SequenceTheorems, WellFoundedInduction, TLAPS

BeforeCreate == {"flags", "list", "write", "check", "path", "create", "compare"}

TmpComplete ==
  \A p \in Proc : pc[p] \in {"chmod", "close", "rename"} =>
                    tmp[p] = Regular(Render(refs[p]))

TmpCreated == \A p \in Proc : pc[p] \in BeforeCreate => tmp[p] = NoFile

Shape ==
  /\ tmp = [p \in Proc |-> tmp[p]]
  /\ pc = [p \in Proc |-> pc[p]]
  /\ refs = [p \in Proc |-> refs[p]]

IInv == Shape /\ ManifestWhole /\ NoLitter /\ TmpComplete /\ TmpCreated

\* The initial states satisfy the inductive invariant.
LEMMA InitIInv == Init => IInv
<1> SUFFICES ASSUME Init PROVE IInv
  OBVIOUS
<1>1. Shape
  BY DEF Init, Shape
<1>2. ManifestWhole
  BY DEF Init, ManifestWhole, Regular
<1>3. NoLitter /\ TmpComplete /\ TmpCreated
  BY DEF Init, NoLitter, TmpComplete, TmpCreated
<1> QED
  BY <1>1, <1>2, <1>3 DEF IInv

\* Each step of a run preserves it: the manifest changes only in Rename, and
\* a temporary file only in CreateTemp, WriteString, Rename and RemoveTmp.
LEMMA RunIInv == ASSUME NEW p \in Proc, IInv, Run(p) PROVE IInv'
<1> USE DEF IInv, Shape, Goto, Exit, Repo
<1>1. CASE Flags(p)
  BY <1>1 DEF Flags, ManifestWhole, NoLitter, TmpComplete, TmpCreated, BeforeCreate
<1>2. CASE List(p)
  BY <1>2 DEF List, ManifestWhole, NoLitter, TmpComplete, TmpCreated, BeforeCreate
<1>3. CASE ReadForWrite(p)
  BY <1>3 DEF ReadForWrite, ManifestWhole, NoLitter, TmpComplete, TmpCreated, BeforeCreate
<1>4. CASE summaryDocsManifestWritePath(p)
  BY <1>4 DEF summaryDocsManifestWritePath, ManifestWhole, NoLitter, TmpComplete, TmpCreated, BeforeCreate
<1>5. CASE CreateTemp(p)
  BY <1>5 DEF CreateTemp, ManifestWhole, NoLitter, TmpComplete, TmpCreated, BeforeCreate
<1>6. CASE WriteString(p)
  BY <1>6 DEF WriteString, ManifestWhole, NoLitter, TmpComplete, TmpCreated, BeforeCreate, Regular
<1>7. CASE ChmodClose(p)
  BY <1>7 DEF ChmodClose, ManifestWhole, NoLitter, TmpComplete, TmpCreated, BeforeCreate
<1>8. CASE Rename(p)
  BY <1>8 DEF Rename, ManifestWhole, NoLitter, TmpComplete, TmpCreated, BeforeCreate, Regular
<1>9. CASE RemoveTmp(p)
  BY <1>9 DEF RemoveTmp, ManifestWhole, NoLitter, TmpComplete, TmpCreated, BeforeCreate
<1>10. CASE ReadForCheck(p)
  BY <1>10 DEF ReadForCheck, ManifestWhole, NoLitter, TmpComplete, TmpCreated, BeforeCreate
<1>11. CASE checkSummaryDocsManifest(p)
  BY <1>11 DEF checkSummaryDocsManifest, ManifestWhole, NoLitter, TmpComplete, TmpCreated, BeforeCreate
<1> QED
  BY <1>1, <1>2, <1>3, <1>4, <1>5, <1>6, <1>7, <1>8, <1>9, <1>10, <1>11 DEF Run

\* Being killed leaves the manifest alone and puts the run among the lost.
LEMMA CrashIInv == ASSUME NEW p \in Proc, IInv, Crash(p) PROVE IInv'
  BY DEF IInv, Shape, Goto, Repo, Crash, ManifestWhole, NoLitter, TmpComplete,
         TmpCreated, BeforeCreate

\* Edits by hand touch no run, and leave no manifest that is a regular file.
LEMMA EditIInv == ASSUME IInv, Edit PROVE IInv'
  BY DEF IInv, Shape, Edit, Other, ManifestWhole, NoLitter, TmpComplete, TmpCreated

\* The invariant is inductive.
LEMMA NextIInv == IInv /\ [Next]_vars => IInv'
<1> SUFFICES ASSUME IInv, [Next]_vars PROVE IInv'
  OBVIOUS
<1>1. CASE UNCHANGED vars
  BY <1>1 DEF vars, IInv, Shape, ManifestWhole, NoLitter, TmpComplete, TmpCreated
<1>2. CASE Edit
  BY <1>2, EditIInv
<1>3. ASSUME NEW p \in Proc, Run(p) \/ Crash(p) PROVE IInv'
  BY <1>3, RunIInv, CrashIInv
<1> QED
  BY <1>1, <1>2, <1>3 DEF Next

\* The inductive invariant holds in every reachable state.
LEMMA Invariance == Spec => []IInv
  BY InitIInv, NextIInv, PTL DEF Spec

(***************************************************************************)
(* The manifest is never seen half written, however many runs write it at  *)
(* once, fail or are killed (writeSummaryDocsManifest).                    *)
(***************************************************************************)
THEOREM ManifestWholeAlways == Spec => []ManifestWhole
<1>1. IInv => ManifestWhole
  BY DEF IInv
<1> QED
  BY <1>1, Invariance, PTL

(***************************************************************************)
(* A run that ends by itself, on whatever path, leaves no temporary file,  *)
(* unless the removal failed (the deferred os.Remove under removeTmp).     *)
(***************************************************************************)
THEOREM NoLitterAlways == Spec => []NoLitter
<1>1. IInv => NoLitter
  BY DEF IInv
<1> QED
  BY <1>1, Invariance, PTL

----------------------------------------------------------------------------
(* The sorted list.  A rank tells the docs of a finite set apart and takes *)
(* every value up to their number, so sortedKeys lists each of them once.  *)
LEMMA RankType ==
  ASSUME NEW S \in SUBSET Doc, NEW d \in S
  PROVE  Rank(S, d) \in 1..Cardinality(S)
<1>1. IsFiniteSet(S) /\ Cardinality(S) \in Nat /\ d \in Nat
  BY DocAssumption, FS_Subset, FS_CardinalityType
<1>2. PICK B \in SUBSET S : B = {e \in S : e <= d}
  OBVIOUS
<1>3. IsFiniteSet(B) /\ Cardinality(B) \in Nat /\ Cardinality(B) <= Cardinality(S)
  BY <1>1, FS_Subset, FS_CardinalityType
<1>4. d \in B
  BY <1>1, <1>2
<1>5. Cardinality(B) # 0
  BY <1>3, <1>4, FS_EmptySet
<1>6. Rank(S, d) = Cardinality(B)
  BY <1>2 DEF Rank
<1> QED
  BY <1>1, <1>3, <1>5, <1>6

LEMMA RankBelow ==
  ASSUME NEW S \in SUBSET Doc, NEW c \in S, NEW d \in S, c < d
  PROVE  Rank(S, c) # Rank(S, d)
<1>1. IsFiniteSet(S) /\ c \in Nat /\ d \in Nat
  BY DocAssumption, FS_Subset
<1>2. PICK B \in SUBSET S : B = {e \in S : e <= d}
  OBVIOUS
<1>3. PICK A \in SUBSET S : A = {e \in S : e <= c}
  OBVIOUS
<1>4. \A e \in S : e \in Nat
  BY DocAssumption
<1>5. A \in SUBSET B
  <2>1. \A e \in S : e <= c => e <= d
    BY <1>1, <1>4
  <2> QED
    BY <1>2, <1>3, <2>1, Zenon
<1>6. d \in B /\ d \notin A
  BY <1>1, <1>2, <1>3
<1>7. IsFiniteSet(B)
  BY <1>1, FS_Subset
<1>8. Cardinality(B) # Cardinality(A)
  BY <1>5, <1>6, <1>7, FS_Subset
<1>9. Rank(S, c) = Cardinality(A) /\ Rank(S, d) = Cardinality(B)
  BY <1>2, <1>3 DEF Rank
<1> QED
  BY <1>8, <1>9

LEMMA RankInjective ==
  ASSUME NEW S \in SUBSET Doc, NEW c \in S, NEW d \in S, Rank(S, c) = Rank(S, d)
  PROVE  c = d
<1>1. c \in Nat /\ d \in Nat
  BY DocAssumption
<1>2. ~(c < d) /\ ~(d < c)
  BY RankBelow
<1> QED
  BY <1>1, <1>2

LEMMA RankReaches ==
  ASSUME NEW S \in SUBSET Doc, NEW i \in 1..Cardinality(S)
  PROVE  \E d \in S : Rank(S, d) = i
<1>1. IsFiniteSet(S) /\ Cardinality(S) \in Nat
  BY DocAssumption, FS_Subset, FS_CardinalityType
<1>2. PICK n \in Nat : n = Cardinality(S)
  BY <1>1
<1>3. IsFiniteSet(1..n) /\ Cardinality(1..n) = n
  <2>1. /\ IsFiniteSet(1..n)
        /\ Cardinality(1..n) = IF 1 > n THEN 0 ELSE n - 1 + 1
    BY FS_Interval
  <2> QED
    BY <2>1
<1>4. PICK f : f = [d \in S |-> Rank(S, d)]
  OBVIOUS
<1>5. f \in [S -> 1..n]
  BY <1>2, <1>4, RankType
<1>6. f \in Injection(S, 1..n)
  <2>1. \A a, b \in S : f[a] = f[b] => a = b
    BY <1>4, RankInjective
  <2> QED
    BY <1>5, <2>1 DEF Injection, IsInjective
<1>7. f \in Surjection(S, 1..n)
  BY <1>2, <1>3, <1>6, FS_Injection
<1>8. \E d \in S : f[d] = i
  BY <1>2, <1>7 DEF Surjection
<1> QED
  BY <1>4, <1>8

(* sortedKeys lists the docs of the set and no others.                     *)
LEMMA SortedLists ==
  ASSUME NEW S \in SUBSET Doc
  PROVE  /\ sortedKeys(S) \in Seq(S)
         /\ \A d \in S : \E i \in DOMAIN sortedKeys(S) : sortedKeys(S)[i] = d
<1>1. PICK n \in Nat : n = Cardinality(S)
  BY DocAssumption, FS_Subset, FS_CardinalityType
<1>2. PICK s : s = sortedKeys(S)
  OBVIOUS
<1>3. s = [i \in 1..n |-> CHOOSE d \in S : Rank(S, d) = i]
  BY <1>1, <1>2 DEF sortedKeys
<1>4. \A i \in 1..n : s[i] \in S /\ Rank(S, s[i]) = i
  <2> TAKE i \in 1..n
  <2>1. \E d \in S : Rank(S, d) = i
    BY <1>1, RankReaches
  <2>2. s[i] = CHOOSE d \in S : Rank(S, d) = i
    BY <1>3
  <2> QED
    BY <2>1, <2>2, Zenon
<1>5. s \in [1..n -> S]
  BY <1>3, <1>4
<1>6. s \in Seq(S)
  BY <1>5
<1>7. \A d \in S : \E i \in 1..n : s[i] = d
  <2> TAKE d \in S
  <2>1. Rank(S, d) \in 1..n
    BY <1>1, RankType
  <2>2. s[Rank(S, d)] \in S /\ Rank(S, s[Rank(S, d)]) = Rank(S, d)
    BY <1>4, <2>1
  <2>3. s[Rank(S, d)] = d
    BY <2>2, RankInjective
  <2> QED
    BY <2>1, <2>3
<1>8. DOMAIN s = 1..n
  BY <1>5
<1> QED
  BY <1>2, <1>6, <1>7, <1>8

(* Two sets with the same list are the same.                               *)
LEMMA SortedInjective ==
  ASSUME NEW S \in SUBSET Doc, NEW T \in SUBSET Doc, sortedKeys(S) = sortedKeys(T)
  PROVE  S = T
<1>1. ASSUME NEW A \in SUBSET Doc, NEW B \in SUBSET Doc, sortedKeys(A) = sortedKeys(B)
      PROVE  A \subseteq B
  <2> SUFFICES ASSUME NEW d \in A PROVE d \in B
    OBVIOUS
  <2>1. PICK s : s = sortedKeys(A) /\ s = sortedKeys(B)
    BY <1>1
  <2>2. PICK i \in DOMAIN s : s[i] = d
    BY <2>1, SortedLists, ZenonT(60)
  <2>3. s \in Seq(B)
    BY <2>1, SortedLists
  <2> QED
    BY <2>2, <2>3
<1> QED
  BY <1>1

(* A non-empty set of numbers has a least element.                         *)
LEMMA Least ==
  ASSUME NEW T \in SUBSET Nat, T # {}
  PROVE  \E x \in T : \A y \in T : x <= y
<1>1. \A x, y \in Nat : <<y, x>> \in OpToRel(<, Nat) <=> y < x
  BY DEF OpToRel
<1>2. PICK R : IsWellFoundedOn(R, Nat) /\ \A x, y \in Nat : <<y, x>> \in R <=> y < x
  BY <1>1, NatLessThanWellFounded, Zenon
<1>3. PICK x \in T : \A y \in T : ~(<<y, x>> \in R)
  BY <1>2, WFMin
<1>4. \A y \in T : ~(y < x)
  BY <1>2, <1>3
<1> QED
  BY <1>3, <1>4

(* The first i docs of a list.                                             *)
First(s, i) == [j \in 1..i |-> s[j]]

LEMMA FirstStep ==
  ASSUME NEW s \in Seq(Nat), NEW i \in Nat, i < Len(s)
  PROVE  /\ Append(First(s, i), s[i + 1]) = First(s, i + 1)
         /\ First(s, i) \in Seq(Nat)
<1>1. s \in [1..Len(s) -> Nat] /\ Len(s) \in Nat
  OBVIOUS
<1>2. \A j \in 1..i + 1 : j \in 1..Len(s) /\ s[j] \in Nat
  BY <1>1
<1>3. PICK a : a = First(s, i)
  OBVIOUS
<1>4. PICK b : b = First(s, i + 1)
  OBVIOUS
<1>5. a \in Seq(Nat) /\ Len(a) = i /\ b \in Seq(Nat) /\ Len(b) = i + 1
  <2>1. \A j \in 1..i : s[j] \in Nat
    BY <1>2
  <2>2. a \in [1..i -> Nat] /\ b \in [1..i + 1 -> Nat]
    BY <1>2, <1>3, <1>4, <2>1 DEF First
  <2>3. a \in Seq(Nat) /\ Len(a) = i
    BY <2>2, SMTT(60)
  <2>4. b \in Seq(Nat) /\ Len(b) = i + 1
    BY <2>2
  <2> QED
    BY <2>3, <2>4
<1>6. PICK x \in Nat : x = s[i + 1]
  BY <1>2
<1>7. PICK c : c = Append(a, x)
  OBVIOUS
<1>71. c \in Seq(Nat)
  BY <1>5, <1>7, AppendProperties
<1>8. Len(c) = i + 1 /\ c[i + 1] = x /\ \A j \in 1..i : c[j] = a[j]
  BY <1>5, <1>7
<1>9. \A j \in 1..i : a[j] = s[j]
  BY <1>3 DEF First
<1>10. \A j \in 1..i + 1 : b[j] = s[j]
  BY <1>4 DEF First
<1>11. \A j \in 1..i + 1 : c[j] = b[j]
  <2>1. \A j \in 1..i + 1 : j = i + 1 \/ j \in 1..i
    OBVIOUS
  <2> QED
    BY <1>6, <1>8, <1>9, <1>10, <2>1
<1>12. c = b
  BY <1>5, <1>71, <1>8, <1>11
<1> QED
  BY <1>3, <1>4, <1>5, <1>6, <1>7, <1>12

(* The loop of parseSummaryDocsManifest.                                   *)
Parses(g, lines) ==
  g = [i \in 0..Len(lines) |->
         IF i = 0 THEN <<>>
         ELSE IF lines[i] = Header THEN g[i - 1] ELSE Append(g[i - 1], lines[i])]

LEMMA ParsesDef ==
  ASSUME NEW lines, NEW g, Parses(g, lines)
  PROVE  \E h : Parses(h, lines) /\ parseSummaryDocsManifest(lines) = h[Len(lines)]
<1>1. PICK h : Parses(h, lines) /\ h = CHOOSE x : Parses(x, lines)
  OBVIOUS
<1>2. parseSummaryDocsManifest(lines) = h[Len(lines)]
  BY <1>1 DEF parseSummaryDocsManifest, Parses
<1> QED
  BY <1>1, <1>2

(* The lines of a rendered list.                                           *)
LEMMA RenderLines ==
  ASSUME NEW s \in Seq(Nat \ {0}), NEW lines, lines = <<Header>> \o s
  PROVE  /\ Len(s) \in Nat /\ Len(lines) = Len(s) + 1
         /\ lines[1] = Header
         /\ \A i \in 1..Len(s) : lines[i + 1] = s[i] /\ s[i] # Header
<1>1. Len(s) \in Nat /\ \A i \in 1..Len(s) : s[i] \in Nat \ {0}
  OBVIOUS
<1>2. Header \in Nat /\ Header = 0
  BY DEF Header
<1>3. PICK h : h = <<Header>>
  OBVIOUS
<1>31. h \in Seq(Nat) /\ Len(h) = 1 /\ h[1] = Header
  BY <1>2, <1>3
<1>4. s \in Seq(Nat)
  OBVIOUS
<1>5. lines = h \o s
  BY <1>3
<1> QED
  BY <1>1, <1>2, <1>31, <1>4, <1>5, SMTT(60)

(* Only the header is skipped, so a rendered list reads back.              *)
LEMMA ParseRender ==
  ASSUME NEW S \in SUBSET Doc
  PROVE  parseSummaryDocsManifest(Render(S)) = sortedKeys(S)
<1>1. PICK s : s = sortedKeys(S)
  OBVIOUS
<1>2. s \in Seq(Nat \ {0}) /\ s \in Seq(Nat) /\ Len(s) \in Nat
  <2>1. s \in Seq(S) /\ S \subseteq Nat \ {0}
    BY <1>1, SortedLists, DocAssumption
  <2>2. PICK k \in Nat : s \in [1..k -> S]
    BY <2>1
  <2>3. s \in [1..k -> Nat \ {0}] /\ s \in [1..k -> Nat]
    BY <2>1, <2>2
  <2>4. s \in Seq(Nat \ {0})
    BY <2>3
  <2>5. s \in Seq(Nat)
    BY <2>3
  <2> QED
    BY <2>4, <2>5
<1>3. PICK n \in Nat : n = Len(s)
  BY <1>2
<1>4. PICK lines : lines = Render(S)
  OBVIOUS
<1>5. /\ Len(lines) = n + 1
      /\ lines[1] = Header
      /\ \A i \in 1..n : lines[i + 1] = s[i] /\ s[i] # Header
  <2>1. lines = <<Header>> \o s
    BY <1>1, <1>4 DEF Render
  <2> QED
    BY <1>2, <1>3, <2>1, RenderLines
<1>6. First(s, 0) = <<>> /\ First(s, n) = s
  <2>1. First(s, 0) = <<>>
    BY DEF First
  <2>2. s \in [1..n -> Nat]
    BY <1>2, <1>3
  <2>3. s = [j \in 1..n |-> s[j]]
    BY <2>2
  <2> QED
    BY <2>1, <2>3 DEF First
<1>7. \A i \in 1..n : Append(First(s, i - 1), s[i]) = First(s, i)
  <2> TAKE i \in 1..n
  <2>1. i - 1 \in Nat /\ i - 1 < Len(s) /\ (i - 1) + 1 = i
    BY <1>3
  <2>2. PICK m \in Nat : m = i - 1 /\ m < Len(s) /\ i = m + 1
    BY <2>1
  <2>3. Append(First(s, m), s[m + 1]) = First(s, m + 1)
    BY <1>2, <2>2, FirstStep
  <2> QED
    BY <2>2, <2>3
<1>8. PICK w : w = [i \in 0..n + 1 |-> IF i = 0 THEN <<>> ELSE First(s, i - 1)]
  OBVIOUS
<1>9. /\ w[0] = <<>>
      /\ \A i \in 1..n + 1 : w[i] = First(s, i - 1)
      /\ w = [i \in 0..n + 1 |-> w[i]]
  <2>1. w[0] = <<>>
    BY <1>8
  <2>2. \A i \in 1..n + 1 : i \in 0..n + 1 /\ i # 0
    OBVIOUS
  <2> QED
    BY <1>8, <2>1, <2>2
<1>10. ASSUME NEW g, g[0] = <<>>, NEW i \in 1..n + 1, g[i - 1] = w[i - 1]
       PROVE  (IF lines[i] = Header THEN g[i - 1] ELSE Append(g[i - 1], lines[i])) = w[i]
  <2>1. CASE i = 1
    BY <1>5, <1>6, <1>9, <1>10, <2>1
  <2>2. CASE i # 1
    <3>1. PICK m \in 1..n : i = m + 1 /\ i - 1 = m
      <4>1. i - 1 \in 1..n
        BY <2>2
      <4> QED
        BY <4>1
    <3>2. lines[i] = s[m] /\ lines[i] # Header
      BY <1>5, <3>1
    <3>3. m \in 1..n + 1
      OBVIOUS
    <3>4. g[i - 1] = First(s, m - 1)
      BY <1>9, <1>10, <3>1, <3>3
    <3>5. w[i] = First(s, m)
      BY <1>9, <3>1
    <3> QED
      BY <1>7, <3>2, <3>4, <3>5
  <2> QED
    BY <2>1, <2>2
<1>11. Parses(w, lines)
  <2>1. \A i \in 0..n + 1 :
          w[i] = IF i = 0 THEN <<>>
                 ELSE IF lines[i] = Header THEN w[i - 1] ELSE Append(w[i - 1], lines[i])
    <3> TAKE i \in 0..n + 1
    <3>1. CASE i = 0
      BY <1>9, <3>1
    <3>2. CASE i # 0
      <4>1. i \in 1..n + 1
        BY <3>2
      <4> QED
        BY <1>9, <1>10, <3>2, <4>1
    <3> QED
      BY <3>1, <3>2
  <2> QED
    BY <1>5, <1>9, <2>1, ZenonT(60) DEF Parses
<1>12. PICK g : Parses(g, lines) /\ parseSummaryDocsManifest(lines) = g[n + 1]
  BY <1>5, <1>11, ParsesDef
<1>13. /\ g[0] = <<>>
       /\ \A i \in 1..n + 1 :
            g[i] = IF lines[i] = Header THEN g[i - 1] ELSE Append(g[i - 1], lines[i])
  <2>1. g = [i \in 0..n + 1 |->
               IF i = 0 THEN <<>>
               ELSE IF lines[i] = Header THEN g[i - 1] ELSE Append(g[i - 1], lines[i])]
    BY <1>5, <1>12 DEF Parses
  <2>2. 0 \in 0..n + 1 /\ \A i \in 1..n + 1 : i \in 0..n + 1 /\ i # 0
    OBVIOUS
  <2> QED
    BY <2>1, <2>2
<1>14. \A i \in 0..n + 1 : g[i] = w[i]
  <2>1. PICK T : T = {i \in 0..n + 1 : g[i] # w[i]}
    OBVIOUS
  <2>11. T \in SUBSET Nat
    BY <2>1
  <2>2. ASSUME T # {} PROVE FALSE
    <3>1. PICK i \in T : \A y \in T : i <= y
      BY <2>11, <2>2, Least
    <3>2. i \in 1..n + 1
      BY <1>9, <1>13, <2>1, <3>1
    <3>3. i - 1 \in 0..n + 1 /\ ~(i <= i - 1)
      BY <3>2
    <3>4. g[i - 1] = w[i - 1]
      BY <2>1, <3>1, <3>3
    <3>5. g[i] = w[i]
      BY <1>10, <1>13, <3>2, <3>4
    <3> QED
      BY <2>1, <3>1, <3>5
  <2> QED
    BY <2>1, <2>2
<1>15. g[n + 1] = s
  <2>1. n + 1 \in 1..n + 1 /\ n + 1 \in 0..n + 1 /\ (n + 1) - 1 = n
    OBVIOUS
  <2> QED
    BY <1>6, <1>9, <1>14, <2>1
<1> QED
  BY <1>1, <1>4, <1>12, <1>15

----------------------------------------------------------------------------
(* Docs are docs wherever they are kept, and the manifest has one origin.  *)
DocsInv ==
  /\ baseline.docs \in SUBSET Doc
  /\ refs \in [Proc -> SUBSET Doc]
  /\ origin = {} \/ \E docs \in SUBSET Doc : origin = {docs}

(* A run that has read a manifest has ended.                               *)
ReadInv ==
  /\ got = [p \in Proc |-> got[p]]
  /\ exit = [p \in Proc |-> exit[p]]
  /\ found = [p \in Proc |-> found[p]]
  /\ \A p \in Proc : pc[p] # "end" => got[p] = {}

VInv == IInv /\ DocsInv /\ ReadInv /\ VerdictBySource

LEMMA InitVInv == Init => VInv
<1> SUFFICES ASSUME Init PROVE VInv
  OBVIOUS
<1>1. DocsInv
  BY DEF Init, DocsInv
<1>2. ReadInv /\ VerdictBySource
  BY DEF Init, ReadInv, VerdictBySource
<1> QED
  BY <1>1, <1>2, InitIInv DEF VInv

(* Until it ends, a run has no verdict; after that it does nothing.        *)
LEMMA OtherStepV ==
  ASSUME VInv, NEW p \in Proc, pc[p] # "end",
         got' = got,
         \A q \in Proc : q # p => /\ exit'[q] = exit[q] /\ refs'[q] = refs[q]
                                  /\ found'[q] = found[q]
  PROVE  VerdictBySource'
  BY DEF VInv, ReadInv, VerdictBySource

(* The check: what it read is a complete list, made from one set of docs,  *)
(* and equal to the list of the docs it expects only if the sets are.      *)
LEMMA CheckV ==
  ASSUME VInv, NEW p \in Proc, checkSummaryDocsManifest(p)
  PROVE  VerdictBySource'
<1>1. CASE got' = got
  BY <1>1, OtherStepV DEF checkSummaryDocsManifest, Exit, Goto, VInv, ReadInv
<1>2. CASE /\ manifest.kind = "file"
           /\ got' = [got EXCEPT ![p] = origin]
           /\ Exit(p, IF /\ ~found[p]
                         /\ parseSummaryDocsManifest(manifest.lines) = sortedKeys(refs[p])
                      THEN 0 ELSE 1)
  <2>1. PICK docs \in SUBSET Doc : origin = {docs} /\ manifest.lines = Render(docs)
    BY <1>2 DEF VInv, IInv, ManifestWhole, DocsInv
  <2>2. refs[p] \in SUBSET Doc
    BY DEF VInv, DocsInv
  <2>3. parseSummaryDocsManifest(manifest.lines) = sortedKeys(refs[p]) <=> docs = refs[p]
    BY <2>1, <2>2, ParseRender, SortedInjective
  <2>4. exit'[p] = (IF ~found[p] /\ docs = refs[p] THEN 0 ELSE 1) /\ got'[p] = {docs}
    BY <1>2, <2>1, <2>3 DEF Exit, VInv, ReadInv
  <2>5. refs' = refs /\ found' = found
    BY DEF checkSummaryDocsManifest
  <2>6. \A q \in Proc : q # p => exit'[q] = exit[q] /\ got'[q] = got[q]
    BY <1>2 DEF Exit, VInv, ReadInv
  <2>7. exit'[p] = 0 <=> got'[p] = {refs[p]} /\ ~found[p]
    BY <2>4
  <2> QED
    BY <2>5, <2>6, <2>7 DEF VInv, VerdictBySource
<1> QED
  BY <1>1, <1>2 DEF checkSummaryDocsManifest

LEMMA RunVInv == ASSUME NEW p \in Proc, VInv, Run(p) PROVE VInv'
<1>0. IInv'
  BY RunIInv DEF VInv
<1>1. CASE checkSummaryDocsManifest(p)
  <2>1. DocsInv'
    BY <1>1 DEF VInv, DocsInv, checkSummaryDocsManifest, Repo
  <2>2. ReadInv'
    BY <1>1 DEF VInv, IInv, Shape, ReadInv, checkSummaryDocsManifest, Goto, Exit
  <2> QED
    BY <1>0, <1>1, <2>1, <2>2, CheckV DEF VInv
<1>2. CASE ~checkSummaryDocsManifest(p)
  <2> USE DEF Goto, Exit, Repo
  <2>1. pc[p] # "end"
    BY <1>2 DEF Run, Flags, List, ReadForWrite, summaryDocsManifestWritePath, CreateTemp,
                WriteString, ChmodClose, Rename, RemoveTmp, ReadForCheck
  <2>2. got' = got
    BY <1>2 DEF Run, Flags, List, ReadForWrite, summaryDocsManifestWritePath, CreateTemp,
                WriteString, ChmodClose, Rename, RemoveTmp, ReadForCheck
  <2>3. \A q \in Proc : q # p => pc'[q] = pc[q] /\ exit'[q] = exit[q] /\ found'[q] = found[q]
    BY <1>2 DEF VInv, IInv, Shape, ReadInv,
                Run, Flags, List, ReadForWrite, summaryDocsManifestWritePath, CreateTemp,
                WriteString, ChmodClose, Rename, RemoveTmp, ReadForCheck
  <2>4. /\ exit' = [q \in Proc |-> exit'[q]]
        /\ found' = [q \in Proc |-> found'[q]]
    BY <1>2 DEF VInv, ReadInv,
                Run, Flags, List, ReadForWrite, summaryDocsManifestWritePath, CreateTemp,
                WriteString, ChmodClose, Rename, RemoveTmp, ReadForCheck
  <2>5. refs' \in [Proc -> SUBSET Doc] /\ \A q \in Proc : q # p => refs'[q] = refs[q]
    BY <1>2 DEF VInv, DocsInv,
                Run, Flags, List, ReadForWrite, summaryDocsManifestWritePath, CreateTemp,
                WriteString, ChmodClose, Rename, RemoveTmp, ReadForCheck
  <2>6. baseline' = baseline /\ (origin' = origin \/ origin' = {refs[p]})
    BY <1>2 DEF Run, Flags, List, ReadForWrite, summaryDocsManifestWritePath, CreateTemp,
                WriteString, ChmodClose, Rename, RemoveTmp, ReadForCheck
  <2>7. DocsInv'
    BY <2>5, <2>6 DEF VInv, DocsInv
  <2>8. ReadInv'
    BY <2>1, <2>2, <2>3, <2>4 DEF VInv, ReadInv
  <2>9. VerdictBySource'
    BY <2>1, <2>2, <2>3, <2>5, OtherStepV
  <2> QED
    BY <1>0, <2>7, <2>8, <2>9 DEF VInv
<1> QED
  BY <1>1, <1>2

LEMMA NextVInv == VInv /\ [Next]_vars => VInv'
<1> SUFFICES ASSUME VInv, [Next]_vars PROVE VInv'
  OBVIOUS
<1>0. IInv'
  BY NextIInv DEF VInv
<1>1. CASE UNCHANGED vars
  BY <1>0, <1>1 DEF vars, VInv, DocsInv, ReadInv, VerdictBySource
<1>2. CASE Edit
  <2>1. DocsInv'
    BY <1>2 DEF VInv, DocsInv, Edit, Baselines
  <2>2. ReadInv' /\ VerdictBySource'
    BY <1>2 DEF VInv, ReadInv, VerdictBySource, Edit
  <2> QED
    BY <1>0, <2>1, <2>2 DEF VInv
<1>3. ASSUME NEW p \in Proc, Run(p) PROVE VInv'
  BY <1>3, RunVInv
<1>4. ASSUME NEW p \in Proc, Crash(p) PROVE VInv'
  <2>1. DocsInv'
    BY <1>4 DEF VInv, DocsInv, Crash, Repo
  <2>2. ReadInv' /\ VerdictBySource'
    BY <1>4 DEF VInv, IInv, Shape, ReadInv, VerdictBySource, Crash, Goto, Repo
  <2> QED
    BY <1>0, <2>1, <2>2 DEF VInv
<1> QED
  BY <1>1, <1>2, <1>3, <1>4 DEF Next

(***************************************************************************)
(* For any runs, docs and edits, a check passes on a manifest exactly when *)
(* that was written from the docs the check found in a clean baseline,     *)
(* whichever runs wrote, failed or were killed in between                  *)
(* (checkSummaryDocsManifest).                                             *)
(***************************************************************************)
THEOREM VerdictBySourceAlways == Spec => []VerdictBySource
<1>1. VInv => VerdictBySource
  BY DEF VInv
<1> QED
  BY <1>1, InitVInv, NextVInv, PTL DEF Spec
=============================================================================
