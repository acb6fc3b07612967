------------------------- MODULE EvidenceGateProofs -------------------------
(***************************************************************************)
(* The evidence check is exact, and the gate of pull requests keeps main   *)
(* intact, for every tree, every set of edits and every number of them.    *)
(*                                                                         *)
(* The check is taken apart in the order of the code: what a reference     *)
(* names (NamedIs, ClaimsUnder), what the index holds (IndexIs), what a    *)
(* cell refers to (RowIs), what a checksum list covers (SumsAre, EntryIs,  *)
(* RawIs, BundleIs); each part reports nothing exactly if its share of     *)
(* Intact holds, and CheckExact puts the parts together.  A merge without  *)
(* the check needs the frame (SameIntact): Intact depends only on paths    *)
(* the classifier knows, and git lists every one of them that has changed. *)
(***************************************************************************)
EXTENDS EvidenceGate, WellFoundedInduction, SequenceTheorems, TLAPS

(* A non-empty set of numbers has a least element.                         *)
LEMMA Least ==
  ASSUME NEW T \in SUBSET Nat, T # {}
  PROVE  \E x \in T : \A y \in T : x <= y
<1>1. \A x, y \in Nat : <<y, x>> \in OpToRel(<, Nat) <=> y < x
  BY DEF OpToRel
<1>2. PICK R : /\ IsWellFoundedOn(R, Nat)
               /\ \A x, y \in Nat : <<y, x>> \in R <=> y < x
  BY <1>1, NatLessThanWellFounded, Zenon
<1>3. PICK x \in T : \A y \in T : ~(<<y, x>> \in R)
  BY <1>2, WFMin
<1>4. \A y \in T : ~(y < x)
  BY <1>2, <1>3
<1> QED
  BY <1>3, <1>4

(* The minimum of a non-empty set of numbers is its least element.         *)
LEMMA MinIsLeast ==
  ASSUME NEW T \in SUBSET Nat, T # {}
  PROVE  Min(T) \in T /\ \A y \in T : Min(T) <= y
  BY Least DEF Min

----------------------------------------------------------------------------
(* References                                                              *)

(* A reference has at least one part, and its parts are strings.           *)
LEMMA RefFacts ==
  ASSUME NEW s \in Ref
  PROVE  /\ Len(s) \in Nat /\ Len(s) >= 1 /\ s \in Seq(STRING)
         /\ DOMAIN s = 1..Len(s) /\ \A i \in 1..Len(s) : s[i] \in STRING
  BY LenProperties, EmptySeq, ElementOfSeq DEF Ref

(* A non-empty slice of a reference is a reference.                        *)
LEMMA Slice ==
  ASSUME NEW s \in Ref, NEW a \in 1..Len(s), NEW b \in a..Len(s)
  PROVE  /\ SubSeq(s, a, b) \in Ref
         /\ Len(SubSeq(s, a, b)) = b - a + 1
         /\ \A i \in 1..b - a + 1 : SubSeq(s, a, b)[i] = s[a + i - 1]
<1>1. /\ a \in Int /\ b \in Int /\ a <= b /\ b - a + 1 >= 1
      /\ \A i \in a..b : s[i] \in STRING
  BY RefFacts
<1>2. /\ SubSeq(s, a, b) \in Seq(STRING)
      /\ Len(SubSeq(s, a, b)) = IF a <= b THEN b - a + 1 ELSE 0
      /\ \A i \in 1..b - a + 1 : SubSeq(s, a, b)[i] = s[a + i - 1]
  BY <1>1, SubSeqProperties
<1>3. PICK t \in Seq(STRING) : t = SubSeq(s, a, b)
  BY <1>2
<1>4. Len(t) # 0
  BY <1>1, <1>2, <1>3
<1>5. t # <<>>
  BY <1>4, EmptySeq
<1> QED
  BY <1>1, <1>2, <1>3, <1>5 DEF Ref

(* References with the same parts are equal.                               *)
LEMMA SameRef ==
  ASSUME NEW s \in Ref, NEW t \in Ref, Len(s) = Len(t), \A i \in 1..Len(s) : s[i] = t[i]
  PROVE  s = t
  BY RefFacts, SeqEqual

(* What is in front of the last part of a reference.                       *)
LEMMA FrontFacts ==
  ASSUME NEW s \in Ref, Len(s) > 1
  PROVE  /\ Front(s) \in Ref /\ Len(Front(s)) = Len(s) - 1
         /\ \A i \in 1..Len(s) - 1 : Front(s)[i] = s[i]
         /\ Front(s) = SubSeq(s, 1, Len(s) - 1)
<1>1. 1 \in 1..Len(s) /\ Len(s) - 1 \in 1..Len(s)
  BY RefFacts
<1>2. Front(s) = SubSeq(s, 1, Len(s) - 1)
  BY DEF Front
<1>3. PICK b \in Nat : b = Len(s) - 1
  BY <1>1
<1>4. /\ SubSeq(s, 1, b) \in Ref /\ Len(SubSeq(s, 1, b)) = b - 1 + 1
      /\ \A i \in 1..b - 1 + 1 : SubSeq(s, 1, b)[i] = s[1 + i - 1]
  BY <1>1, <1>3, Slice
<1> QED
  BY <1>2, <1>3, <1>4, RefFacts

(* The last part of a reference, by its position.                          *)
LEMMA LastIs == \A s : Last(s) = s[Len(s)]
  BY DEF Last

(* TrimLeading removes leading parts and nothing else, all but the last    *)
(* part if need be.                                                        *)
LEMMA TrimLeadingIs ==
  ASSUME NEW ref \in Ref, NEW part
  PROVE  \E k \in 1..Len(ref) :
           /\ TrimLeading(ref, part) = SubSeq(ref, k, Len(ref))
           /\ \A i \in 1..k - 1 : ref[i] = part
           /\ ref[k] # part \/ k = Len(ref)
<1> DEFINE T == {i \in DOMAIN ref : ref[i] # part \/ i = Len(ref)}
<1>1. T \in SUBSET Nat /\ Len(ref) \in T
  BY RefFacts
<1>2. PICK k : k = Min(T)
  OBVIOUS
<1>3. k \in T /\ \A y \in T : k <= y
  BY <1>1, <1>2, MinIsLeast
<1>4. TrimLeading(ref, part) = SubSeq(ref, k, Len(ref))
  BY <1>2 DEF TrimLeading
<1>5. k \in 1..Len(ref) /\ (ref[k] # part \/ k = Len(ref))
  BY <1>3, RefFacts
<1>6. ASSUME NEW i \in 1..k - 1 PROVE ref[i] = part
  <2>1. i \in DOMAIN ref /\ ~(k <= i)
    BY <1>5, RefFacts
  <2> QED
    BY <2>1, <1>3
<1> QED
  BY <1>4, <1>5, <1>6

(* r is ref from position k on, which is where its leading parts end.      *)
Trimmed(ref, part, k, r) ==
  /\ k \in Nat /\ 1 <= k /\ k <= Len(ref)
  /\ r \in Ref /\ Len(r) = Len(ref) - k + 1
  /\ \A i \in 1..Len(r) : r[i] = ref[k + i - 1]
  /\ \A i \in 1..k - 1 : ref[i] = part
  /\ ref[k] # part \/ k = Len(ref)

(* TrimLeadingIs, with what is left described part by part.                *)
LEMMA TrimLeadingSlice ==
  ASSUME NEW ref \in Ref, NEW part
  PROVE  \E k : Trimmed(ref, part, k, TrimLeading(ref, part))
<1>1. PICK k \in 1..Len(ref) :
           /\ TrimLeading(ref, part) = SubSeq(ref, k, Len(ref))
           /\ \A i \in 1..k - 1 : ref[i] = part
           /\ ref[k] # part \/ k = Len(ref)
  BY TrimLeadingIs
<1>2. PICK n \in Nat : n = Len(ref)
  BY RefFacts
<1>3. n \in k..Len(ref) /\ k \in Nat /\ 1 <= k /\ k <= n
  BY <1>2
<1>4. /\ SubSeq(ref, k, n) \in Ref
      /\ Len(SubSeq(ref, k, n)) = n - k + 1
      /\ \A i \in 1..n - k + 1 : SubSeq(ref, k, n)[i] = ref[k + i - 1]
  BY <1>3, Slice
<1>5. Trimmed(ref, part, k, TrimLeading(ref, part))
  BY <1>1, <1>2, <1>3, <1>4 DEF Trimmed
<1> QED
  BY <1>5

(* Trimming the leading ./ of a reference leaves a reference.              *)
LEMMA TrimType ==
  ASSUME NEW ref \in Ref PROVE trimLeadingDotSlash(ref) \in Ref
  BY TrimLeadingSlice DEF trimLeadingDotSlash, Trimmed

(* A reference claims to name something in docs exactly if it begins with  *)
(* docs once the dots and the slashes in front are gone.                   *)
LEMMA ClaimsUnder ==
  ASSUME NEW ref \in Ref
  PROVE  Claims(ref) <=> UnderDocs(TrimLeading(trimLeadingDotSlash(ref), ""))
<1>1. PICK r, k : r = trimLeadingDotSlash(ref) /\ Trimmed(ref, ".", k, r)
  BY TrimLeadingSlice DEF trimLeadingDotSlash
<1>2. r \in Ref
  BY <1>1 DEF Trimmed
<1>3. PICK q, m : q = TrimLeading(r, "") /\ Trimmed(r, "", m, q)
  BY <1>2, TrimLeadingSlice
<1>4. PICK n \in Nat : n = Len(ref) /\ n >= 1
  BY RefFacts
<1>5. /\ k \in Nat /\ 1 <= k /\ k <= n
      /\ Len(r) = n - k + 1 /\ \A i \in 1..n - k + 1 : r[i] = ref[k + i - 1]
      /\ \A i \in 1..k - 1 : ref[i] = "."
      /\ ref[k] # "." \/ k = n
  BY <1>1, <1>4 DEF Trimmed
<1>11. k \in Nat /\ 1 <= k /\ k <= n /\ Len(r) = n - k + 1
  BY <1>5
<1>12. /\ m \in Nat /\ 1 <= m /\ m <= Len(r) /\ Len(q) = Len(r) - m + 1
       /\ \A i \in 1..Len(q) : q[i] = r[m + i - 1]
       /\ \A i \in 1..m - 1 : r[i] = ""
       /\ r[m] # "" \/ m = Len(r)
  BY <1>3 DEF Trimmed
<1>15. m \in Nat /\ 1 <= m /\ m <= Len(r) /\ Len(q) = Len(r) - m + 1
  BY <1>12
<1>13. m \in Nat /\ 1 <= m /\ m <= n - k + 1
  BY <1>11, <1>15
<1>14. Len(q) = n - k - m + 2
  BY <1>11, <1>15
<1>6. /\ m \in Nat /\ 1 <= m /\ m <= n - k + 1
      /\ Len(q) = n - k - m + 2 /\ \A i \in 1..n - k - m + 2 : q[i] = r[m + i - 1]
      /\ \A i \in 1..m - 1 : r[i] = ""
      /\ r[m] # "" \/ m = n - k + 1
  BY <1>11, <1>12, <1>13, <1>14
<1>7. q[1] = ref[k + m - 1] /\ r[m] = ref[k + m - 1]
  <2>1. 1 \in 1..n - k - m + 2 /\ m \in 1..n - k + 1 /\ m + 1 - 1 = m
    BY <1>11, <1>13
  <2>2. r[m] = ref[k + m - 1]
    BY <2>1, <1>5, ZenonT(60)
  <2>3. q[1] = r[m + 1 - 1]
    BY <2>1, <1>6, ZenonT(60)
  <2> QED
    BY <2>1, <2>2, <2>3, ZenonT(60)
<1>8. UnderDocs(TrimLeading(trimLeadingDotSlash(ref), "")) <=> (n - k - m + 2 >= 2 /\ ref[k + m - 1] = "docs")
  BY <1>1, <1>3, <1>6, <1>7 DEF UnderDocs
<1> HIDE <1>1, <1>3
<1>9. ASSUME n - k - m + 2 >= 2, ref[k + m - 1] = "docs" PROVE Claims(ref)
  <2>1. k + m - 1 \in 1..n - 1 /\ k - 1 \in 0..(k + m - 1) - 1
    BY <1>11, <1>13, <1>9
  <2>2. \A i \in (k - 1) + 1..(k + m - 1) - 1 : ref[i] = ""
    <3> SUFFICES ASSUME NEW i \in (k - 1) + 1..(k + m - 1) - 1 PROVE ref[i] = ""
      OBVIOUS
    <3>1. i - k + 1 \in 1..m - 1 /\ i - k + 1 \in 1..n - k + 1 /\ k + (i - k + 1) - 1 = i
      BY <1>11, <1>13
    <3> QED
      BY <3>1, <1>5, <1>6, ZenonT(60)
  <2> QED
    BY <2>1, <2>2, <1>4, <1>5, <1>9 DEF Claims
<1>10. ASSUME Claims(ref) PROVE n - k - m + 2 >= 2 /\ ref[k + m - 1] = "docs"
  <2>1. PICK d \in 1..n - 1 :
          /\ ref[d] = "docs"
          /\ \E j \in 0..d - 1 : /\ \A i \in 1..j : ref[i] = "."
                               /\ \A i \in j + 1..d - 1 : ref[i] = ""
    BY <1>10, <1>4 DEF Claims
  <2>2. PICK j \in 0..d - 1 : (\A i \in 1..j : ref[i] = ".") /\ \A i \in j + 1..d - 1 : ref[i] = ""
    BY <2>1
  <2>3. ref[j + 1] # "."
    <3>1. CASE j + 1 = d
      BY <3>1, <2>1
    <3>2. CASE j + 1 # d
      <4>1. j + 1 \in j + 1..d - 1
        BY <3>2
      <4> QED
        BY <4>1, <2>2
    <3> QED
      BY <3>1, <3>2
  <2>4. k = j + 1
    <3>1. ~(k < j + 1)
      <4> SUFFICES ASSUME k < j + 1 PROVE FALSE
        OBVIOUS
      <4>1. k \in 1..j /\ k # n
        BY <1>5
      <4> QED
        BY <4>1, <2>2, <1>5
    <3>2. ~(j + 1 < k)
      <4> SUFFICES ASSUME j + 1 < k PROVE FALSE
        OBVIOUS
      <4>1. j + 1 \in 1..k - 1
        BY <1>5
      <4> QED
        BY <4>1, <2>3, <1>5
    <3> QED
      BY <3>1, <3>2, <1>5
  <2>5. \A i \in 1..n - k : i < d - k + 1 => r[i] = ""
    <3> SUFFICES ASSUME NEW i \in 1..n - k, i < d - k + 1 PROVE r[i] = ""
      OBVIOUS
    <3>1. i \in 1..n - k + 1 /\ k + i - 1 \in j + 1..d - 1
      BY <2>4, <1>5
    <3> QED
      BY <3>1, <2>2, <1>5
  <2>6. d - k + 1 \in 1..n - k + 1 /\ d - k + 1 < n - k + 1 /\ k + (d - k + 1) - 1 = d
    BY <2>4, <1>5
  <2>7. r[d - k + 1] = "docs"
    BY <2>6, <2>1, <1>5
  <2>8. m = d - k + 1
    <3>1. ~(m < d - k + 1)
      <4> SUFFICES ASSUME m < d - k + 1 PROVE FALSE
        OBVIOUS
      <4>1. m \in 1..n - k /\ m # n - k + 1
        BY <1>11, <1>13, <2>6
      <4> QED
        BY <4>1, <2>5, <1>6
    <3>2. ~(d - k + 1 < m)
      <4> SUFFICES ASSUME d - k + 1 < m PROVE FALSE
        OBVIOUS
      <4>1. d - k + 1 \in 1..m - 1
        BY <2>6, <1>11, <1>13
      <4>2. r[d - k + 1] = ""
        BY <4>1, <1>6
      <4> QED
        BY <4>2, <2>7
    <3> QED
      BY <3>1, <3>2, <1>11, <1>13, <2>6
  <2>9. n - k - m + 2 >= 2 /\ k + m - 1 = d
    BY <2>6, <2>8, <1>11
  <2> QED
    BY <2>1, <2>9
<1> QED
  BY <1>8, <1>9, <1>10

(* A path without unsafe parts.                                            *)
Clean(p) == p \in Ref /\ \A i \in 1..Len(p) : p[i] \notin UnsafePart

(* A repository reference is safe exactly if no part is unsafe once its    *)
(* final slash is gone (safeSlashPath).                                    *)
LEMMA SafeIs ==
  ASSUME NEW r \in Ref
  PROVE  safeRepoRelativeRef(r) <=> Clean(TrimSlash(r))
<1>1. Last(r) = r[Len(r)] /\ Len(r) \in Nat /\ Len(r) >= 1 /\ DOMAIN r = 1..Len(r)
  BY LastIs, RefFacts
<1>2. "" \in UnsafePart
  BY SMTT(60) DEF UnsafePart
<1>6. PICK n \in Nat : n = Len(r) /\ n >= 1
  BY <1>1
<1>3. CASE Last(r) # ""
  <2>1. TrimSlash(r) = r
    BY <1>3 DEF TrimSlash
  <2>2. safeRepoRelativeRef(r) <=> \A i \in DOMAIN r : r[i] \notin UnsafePart
    BY <1>3 DEF safeRepoRelativeRef, safeSlashPath
  <2> QED
    BY <2>1, <2>2, <1>1 DEF Clean
<1>4. CASE Last(r) = "" /\ n = 1
  <2>0. n = 1
    BY <1>4, Zenon
  <2>1. safeRepoRelativeRef(r) <=> \A i \in DOMAIN r : r[i] \notin UnsafePart
    <3>1. ~(Len(r) > 1)
      BY <2>0, <1>6
    <3> QED
      BY <3>1, <1>4 DEF safeRepoRelativeRef, safeSlashPath
  <2>2. ~safeRepoRelativeRef(r)
    <3>1. 1 \in DOMAIN r
      BY <1>1
    <3>2. r[1] = ""
      BY <1>1, <1>4, <1>6
    <3> QED
      BY <2>1, <3>1, <3>2, <1>2
  <2>3. TrimSlash(r) = SubSeq(r, 1, 0)
    <3>1. Len(r) - 1 = 0
      BY <2>0, <1>6
    <3> QED
      BY <3>1, <1>4 DEF TrimSlash, Front
  <2>4. SubSeq(r, 1, 0) = <<>>
    BY SubSeqEmpty
  <2> QED
    BY <2>2, <2>3, <2>4 DEF Clean, Ref
<1>5. CASE Last(r) = "" /\ n > 1
  <2>1. PICK f : f = Front(r)
    OBVIOUS
  <2>2. f \in Ref /\ TrimSlash(r) = f /\ DOMAIN f = 1..Len(f)
    BY <2>1, <1>5, <1>6, FrontFacts, RefFacts DEF TrimSlash
  <2>3. safeRepoRelativeRef(r) <=> \A i \in DOMAIN f : f[i] \notin UnsafePart
    BY <2>1, <1>5, <1>6 DEF safeRepoRelativeRef, safeSlashPath
  <2> QED
    BY <2>2, <2>3 DEF Clean
<1>7. n = 1 \/ n > 1
  BY <1>6
<1> QED
  BY <1>7, <1>3, <1>4, <1>5

(* ref names p, which is what it has from a to b.                          *)
Spans(ref, a, b, p) ==
  /\ p = SubSeq(ref, a, b)
  /\ a \in Nat /\ b \in Nat /\ 1 <= a /\ a <= b /\ b <= Len(ref)
  /\ \A i \in 1..a - 1 : ref[i] = "."
  /\ \A i \in a..b : ref[i] \notin UnsafePart
  /\ b = Len(ref) \/ (b = Len(ref) - 1 /\ Last(ref) = "")

(* The paths a reference names are the spans of it that are clean.         *)
LEMMA NamedSpans ==
  ASSUME NEW ref \in Ref, NEW p
  PROVE  p \in Named(ref) <=> \E a, b : Spans(ref, a, b, p)
<1>1. PICK n \in Nat : n = Len(ref)
  BY RefFacts
<1>2. ASSUME p \in Named(ref) PROVE \E a, b : Spans(ref, a, b, p)
  <2>1. PICK t \in (1..n) \X (1..n) :
          /\ p = SubSeq(ref, t[1], t[2])
          /\ t[1] <= t[2]
          /\ \A i \in 1..t[1] - 1 : ref[i] = "."
          /\ \A i \in t[1]..t[2] : ref[i] \notin UnsafePart
          /\ t[2] = Len(ref) \/ (t[2] = Len(ref) - 1 /\ Last(ref) = "")
    BY <1>1, <1>2 DEF Named
  <2>2. PICK a, b : a = t[1] /\ b = t[2]
    OBVIOUS
  <2>3. a \in 1..n /\ b \in 1..n
    BY <2>2
  <2>5. a \in Nat /\ b \in Nat /\ 1 <= a /\ b <= Len(ref)
    BY <2>3, <1>1
  <2>4. Spans(ref, a, b, p)
    BY <2>1, <2>2, <2>5, Zenon DEF Spans
  <2> QED
    BY <2>4
<1>3. ASSUME NEW a, NEW b, Spans(ref, a, b, p) PROVE p \in Named(ref)
  <2>1. PICK t : t = <<a, b>>
    OBVIOUS
  <2>5. a \in Nat /\ b \in Nat /\ 1 <= a /\ a <= b /\ b <= Len(ref)
    BY <1>3, Zenon DEF Spans
  <2>2. a \in 1..n /\ b \in 1..n
    BY <1>1, <2>5
  <2>3. t \in (1..n) \X (1..n) /\ t[1] = a /\ t[2] = b
    BY <2>1, <2>2
  <2>4. /\ p = SubSeq(ref, t[1], t[2])
        /\ t[1] <= t[2]
        /\ \A i \in 1..t[1] - 1 : ref[i] = "."
        /\ \A i \in t[1]..t[2] : ref[i] \notin UnsafePart
        /\ t[2] = Len(ref) \/ (t[2] = Len(ref) - 1 /\ Last(ref) = "")
    BY <2>3, <1>3 DEF Spans
  <2> QED
    BY <2>3, <2>4, <1>1 DEF Named
<1> QED
  BY <1>2, <1>3

(* Such a span is a clean path.                                            *)
LEMMA SpanFacts ==
  ASSUME NEW ref \in Ref, NEW a, NEW b, NEW p, Spans(ref, a, b, p)
  PROVE  /\ p \in Ref /\ Len(p) = b - a + 1
         /\ \A i \in 1..b - a + 1 : p[i] = ref[a + i - 1]
         /\ Clean(p)
<1>1. PICK n \in Nat : n = Len(ref)
  BY RefFacts
<1>6. a \in Nat /\ b \in Nat /\ 1 <= a /\ a <= b /\ b <= Len(ref)
  BY Zenon DEF Spans
<1>2. a \in 1..Len(ref) /\ b \in a..Len(ref)
  BY <1>1, <1>6
<1>4. p \in Ref /\ Len(p) = b - a + 1 /\ \A i \in 1..b - a + 1 : p[i] = ref[a + i - 1]
  BY <1>2, Slice DEF Spans
<1>5. ASSUME NEW i \in 1..Len(p) PROVE p[i] \notin UnsafePart
  <2>1. i \in 1..b - a + 1 /\ a + i - 1 \in a..b
    BY <1>2, <1>4, <1>1
  <2> QED
    BY <2>1, <1>4 DEF Spans
<1> QED
  BY <1>4, <1>5 DEF Clean

(* A reference names the path that is left of it after trimming, if that   *)
(* is safe, and nothing otherwise.                                         *)
LEMMA NamedIs ==
  ASSUME NEW ref \in Ref
  PROVE  /\ ~safeRepoRelativeRef(trimLeadingDotSlash(ref)) => Named(ref) = {}
         /\ safeRepoRelativeRef(trimLeadingDotSlash(ref)) =>
              Named(ref) = {TrimSlash(trimLeadingDotSlash(ref))}
<1>1. PICK r, k : r = trimLeadingDotSlash(ref) /\ Trimmed(ref, ".", k, r)
  BY TrimLeadingSlice DEF trimLeadingDotSlash
<1>2. r \in Ref
  BY <1>1 DEF Trimmed
<1>3. PICK n \in Nat : n = Len(ref)
  BY RefFacts
<1>4. k \in Nat /\ 1 <= k /\ k <= n /\ Len(r) = n - k + 1
  BY <1>1, <1>3, Zenon DEF Trimmed
<1>5. /\ \A i \in 1..n - k + 1 : r[i] = ref[k + i - 1]
      /\ \A i \in 1..k - 1 : ref[i] = "."
      /\ ref[k] # "." \/ k = n
  BY <1>1, <1>3, <1>4, Zenon DEF Trimmed
<1>6. "." \in UnsafePart /\ "" \in UnsafePart
  BY DEF UnsafePart
<1>7. Last(r) = Last(ref) /\ Last(r) = ref[n] /\ Last(r) = r[n - k + 1]
  <2>1. n - k + 1 \in 1..n - k + 1 /\ k + (n - k + 1) - 1 = n
    BY <1>4
  <2>2. r[n - k + 1] = ref[n]
    BY <2>1, <1>5
  <2> QED
    BY <2>2, <1>3, <1>4, LastIs
<1>8. safeRepoRelativeRef(r) <=> Clean(TrimSlash(r))
  BY <1>2, SafeIs
<1>9. ASSUME NEW p \in Named(ref) PROVE p = TrimSlash(r) /\ Clean(p)
  <2>1. PICK a, b : Spans(ref, a, b, p)
    BY <1>9, NamedSpans
  <2>2. /\ p \in Ref /\ Len(p) = b - a + 1 /\ \A i \in 1..b - a + 1 : p[i] = ref[a + i - 1]
        /\ Clean(p)
    BY <2>1, SpanFacts
  <2>3. a \in Nat /\ b \in Nat /\ 1 <= a /\ a <= b /\ b <= n
    BY <2>1, <1>3, Zenon DEF Spans
  <2>4. /\ \A i \in 1..a - 1 : ref[i] = "."
        /\ \A i \in a..b : ref[i] \notin UnsafePart
        /\ b = n \/ (b = n - 1 /\ Last(ref) = "")
    BY <2>1, <1>3, Zenon DEF Spans
  <2>5. a = k
    <3>1. ~(a < k)
      <4> SUFFICES ASSUME a < k PROVE FALSE
        OBVIOUS
      <4>1. a \in 1..k - 1 /\ a \in a..b
        BY <2>3, <1>4
      <4> QED
        BY <4>1, <1>5, <1>6, <2>4, Zenon
    <3>2. ~(k < a)
      <4> SUFFICES ASSUME k < a PROVE FALSE
        OBVIOUS
      <4>1. k \in 1..a - 1 /\ k # n
        BY <2>3, <1>4
      <4> QED
        BY <4>1, <1>5, <2>4, Zenon
    <3> QED
      BY <3>1, <3>2, <2>3, <1>4
  <2>6. b = n \/ b = n - 1
    BY <2>4, Zenon
  <2>7. CASE b = n
    <3>1. n \in a..b
      BY <2>7, <2>3
    <3>2. Last(r) # ""
      BY <3>1, <2>4, <1>6, <1>7, Zenon
    <3>3. TrimSlash(r) = r
      BY <3>2 DEF TrimSlash
    <3>4. Len(p) = Len(r)
      BY <2>2, <2>3, <2>5, <2>7, <1>4
    <3>5. \A i \in 1..Len(p) : p[i] = r[i]
      BY <2>2, <2>5, <2>7, <1>5
    <3> QED
      BY <3>3, <3>4, <3>5, <2>2, <1>2, SameRef
  <2>8. CASE b = n - 1
    <3>1. b # n
      BY <2>8
    <3>2. Last(r) = ""
      BY <3>1, <2>4, <1>7, Zenon
    <3>3. Len(r) > 1
      BY <2>3, <2>5, <2>8, <1>4
    <3>4. PICK f : f = Front(r)
      OBVIOUS
    <3>5. f \in Ref /\ Len(f) = Len(r) - 1 /\ \A i \in 1..Len(r) - 1 : f[i] = r[i]
      BY <3>3, <3>4, <1>2, FrontFacts
    <3>6. TrimSlash(r) = f
      BY <3>2, <3>4 DEF TrimSlash
    <3>7. Len(p) = Len(f) /\ Len(p) = n - k
      BY <2>2, <2>3, <2>5, <2>8, <1>4, <3>5
    <3>8. \A i \in 1..Len(p) : p[i] = f[i]
      <4> SUFFICES ASSUME NEW i \in 1..Len(p) PROVE p[i] = f[i]
        OBVIOUS
      <4>1. i \in 1..b - a + 1 /\ i \in 1..n - k + 1 /\ i \in 1..Len(r) - 1
        BY <3>7, <2>3, <2>5, <2>8, <1>4
      <4> QED
        BY <4>1, <3>5, <2>2, <2>5, <1>5
    <3> QED
      BY <3>5, <3>6, <3>7, <3>8, <2>2, SameRef
  <2> QED
    BY <2>6, <2>7, <2>8, <2>2
<1>10. ASSUME Clean(TrimSlash(r)) PROVE TrimSlash(r) \in Named(ref)
  <2>1. PICK p : p = TrimSlash(r)
    OBVIOUS
  <2>2. p \in Ref /\ \A i \in 1..Len(p) : p[i] \notin UnsafePart
    BY <2>1, <1>10, SMTT(60) DEF Clean
  <2>3. CASE Last(r) # ""
    <3>1. p = r
      BY <2>1, <2>3 DEF TrimSlash
    <3>2. ASSUME NEW i \in k..n PROVE ref[i] \notin UnsafePart
      <4>1. i - k + 1 \in 1..n - k + 1 /\ k + (i - k + 1) - 1 = i
        BY <1>4
      <4> QED
        BY <4>1, <3>1, <2>2, <1>4, <1>5
    <3>7. n <= Len(ref)
      BY <1>3
    <3>4. PICK q : q = SubSeq(ref, k, n)
      OBVIOUS
    <3>3. Spans(ref, k, n, q)
      BY <3>2, <3>4, <3>7, <1>3, <1>4, <1>5, Zenon DEF Spans
    <3>5. q \in Ref /\ Len(q) = n - k + 1 /\ \A i \in 1..n - k + 1 : q[i] = ref[k + i - 1]
      BY <3>3, SpanFacts
    <3>6. q = r
      BY <3>5, <1>2, <1>4, <1>5, SameRef
    <3> QED
      BY <3>1, <3>3, <3>4, <3>6, <2>1, NamedSpans
  <2>4. CASE Last(r) = ""
    <3>1. p = Front(r)
      BY <2>1, <2>4 DEF TrimSlash
    <3>2. Len(r) # 1
      <4> SUFFICES ASSUME Len(r) = 1 PROVE FALSE
        OBVIOUS
      <4>1. SubSeq(r, 1, 0) = <<>>
        BY SubSeqEmpty
      <4>2. Len(r) - 1 = 0
        OBVIOUS
      <4>3. p = <<>>
        BY <3>1, <4>1, <4>2 DEF Front
      <4> QED
        BY <4>3, <2>2 DEF Ref
    <3>3. Len(r) > 1 /\ k <= n - 1 /\ Len(r) - 1 = n - k
      BY <3>2, <1>4
    <3>4. p \in Ref /\ Len(p) = n - k /\ \A i \in 1..n - k : p[i] = r[i]
      BY <3>1, <3>3, <1>2, FrontFacts
    <3>5. ASSUME NEW i \in k..n - 1 PROVE ref[i] \notin UnsafePart
      <4>1. i - k + 1 \in 1..n - k + 1 /\ k + (i - k + 1) - 1 = i /\ i - k + 1 \in 1..n - k
        BY <1>4
      <4> QED
        BY <4>1, <3>4, <2>2, <1>5
    <3>6. n - 1 \in Nat /\ n - 1 <= Len(ref) /\ n - 1 = Len(ref) - 1
      BY <1>3, <1>4, <3>3
    <3>8. PICK q : q = SubSeq(ref, k, n - 1)
      OBVIOUS
    <3>7. Spans(ref, k, n - 1, q)
      BY <3>3, <3>5, <3>6, <3>8, <1>4, <1>5, <1>7, <2>4, Zenon DEF Spans
    <3>9. q \in Ref /\ Len(q) = (n - 1) - k + 1 /\ \A i \in 1..(n - 1) - k + 1 : q[i] = ref[k + i - 1]
      BY <3>7, SpanFacts
    <3>10. Len(q) = n - k
      BY <3>9, <1>4
    <3>11. \A i \in 1..n - k : q[i] = p[i]
      <4> SUFFICES ASSUME NEW i \in 1..n - k PROVE q[i] = p[i]
        OBVIOUS
      <4>1. i \in 1..(n - 1) - k + 1 /\ i \in 1..n - k + 1
        BY <1>4
      <4> QED
        BY <4>1, <3>9, <3>4, <1>5
    <3>12. q = p
      BY <3>4, <3>9, <3>10, <3>11, SameRef
    <3> QED
      BY <3>7, <3>8, <3>12, <2>1, NamedSpans
  <2> QED
    BY <2>3, <2>4
<1>11. Named(ref) = {} \/ Named(ref) = {TrimSlash(r)}
  BY <1>9
<1> QED
  BY <1>1, <1>8, <1>9, <1>10, <1>11, Zenon

----------------------------------------------------------------------------
(* Where a reference leads                                                 *)

(* Only what is in the tree has a kind other than missing, and it is at a  *)
(* reference.                                                              *)
LEMMA KindFacts ==
  ASSUME NEW repo, IsRepo(repo), NEW p
  PROVE  /\ Kind(repo, p) # "missing" <=> p \in DOMAIN repo
         /\ Kind(repo, p) \in {"missing", "dir", "file", "link", "pipe"}
         /\ p \in DOMAIN repo => p \in Ref
  BY DEF IsRepo, IsNode, Kind

(* Everything above a path that exists is a directory.                     *)
LEMMA DirsAbove ==
  ASSUME NEW repo, IsRepo(repo), NEW p \in DOMAIN repo, NEW i \in 1..Len(p) - 1
  PROVE  Kind(repo, SubSeq(p, 1, i)) = "dir"
  BY DEF IsRepo

(* Nothing is found on the way to something that exists (the loop of       *)
(* lstatRepoRelative).                                                     *)
LEMMA NoParentFindings ==
  ASSUME NEW repo, IsRepo(repo), NEW p, Kind(repo, p) # "missing"
  PROVE  ParentFindings(repo, p) = {}
<1>1. p \in DOMAIN repo
  BY KindFacts
<1>2. {i \in 1..Len(p) - 1 : Kind(repo, SubSeq(p, 1, i)) # "dir"} = {}
  BY <1>1, DirsAbove
<1> QED
  BY <1>2 DEF ParentFindings, Report

(* A reference that is refused when nothing is there is accepted exactly   *)
(* if it is safe and what it leads to is not refused.                      *)
LEMMA RefAccepted ==
  ASSUME NEW repo, IsRepo(repo), NEW ref, NEW refuse, "missing" \in refuse
  PROVE  RefFindings(repo, ref, refuse) = {} <=>
           safeRepoRelativeRef(ref) /\ Kind(repo, TrimSlash(ref)) \notin refuse
<1>1. CASE ~safeRepoRelativeRef(ref)
  BY <1>1 DEF RefFindings, lstatRepoRelative
<1>2. CASE safeRepoRelativeRef(ref)
  <2>1. /\ lstatRepoRelative(repo, ref).findings = ParentFindings(repo, TrimSlash(ref))
        /\ lstatRepoRelative(repo, ref).kind = Kind(repo, TrimSlash(ref))
    BY <1>2 DEF lstatRepoRelative
  <2>2. Kind(repo, TrimSlash(ref)) \notin refuse => ParentFindings(repo, TrimSlash(ref)) = {}
    BY NoParentFindings
  <2> QED
    BY <1>2, <2>1, <2>2 DEF RefFindings, Report
<1> QED
  BY <1>1, <1>2

(* lstatRepoRelative reports a kind other than missing exactly for a safe  *)
(* reference to it.                                                        *)
LEMMA LookedUp ==
  ASSUME NEW repo, IsRepo(repo), NEW ref, NEW kind, kind # "missing"
  PROVE  /\ lstatRepoRelative(repo, ref).findings = {} /\ lstatRepoRelative(repo, ref).kind = kind
         <=> safeRepoRelativeRef(ref) /\ Kind(repo, TrimSlash(ref)) = kind
<1>1. CASE ~safeRepoRelativeRef(ref)
  BY <1>1 DEF lstatRepoRelative
<1>2. CASE safeRepoRelativeRef(ref)
  <2>1. /\ lstatRepoRelative(repo, ref).findings = ParentFindings(repo, TrimSlash(ref))
        /\ lstatRepoRelative(repo, ref).kind = Kind(repo, TrimSlash(ref))
    BY <1>2 DEF lstatRepoRelative
  <2> QED
    BY <1>2, <2>1, NoParentFindings
<1> QED
  BY <1>1, <1>2

(* A reference of two safe parts is safe and is its own path.              *)
LEMMA TwoParts ==
  ASSUME NEW x, NEW y, y \notin UnsafePart, x \notin UnsafePart
  PROVE  /\ Len(<<x, y>>) = 2 /\ <<x, y>>[1] = x /\ Last(<<x, y>>) = y
         /\ TrimSlash(<<x, y>>) = <<x, y>> /\ safeRepoRelativeRef(<<x, y>>)
<1>1. PICK p : p = <<x, y>>
  OBVIOUS
<1>9. Len(<<x, y>>) = 2 /\ <<x, y>>[1] = x /\ <<x, y>>[2] = y /\ DOMAIN <<x, y>> = 1..2
  OBVIOUS
<1>2. Len(p) = 2 /\ p[1] = x /\ p[2] = y /\ DOMAIN p = 1..2
  BY <1>1, <1>9, Zenon
<1>4. Last(p) = y
  BY <1>2, LastIs
<1>3. Last(p) # ""
  BY <1>4 DEF UnsafePart
<1>5. TrimSlash(p) = p
  BY <1>3 DEF TrimSlash
<1>7. ASSUME NEW i \in DOMAIN p PROVE p[i] \notin UnsafePart
  <2>1. i = 1 \/ i = 2
    BY <1>2
  <2> QED
    BY <2>1, <1>2, Zenon
<1>8. safeRepoRelativeRef(p)
  BY <1>3, <1>7, Zenon DEF safeRepoRelativeRef, safeSlashPath
<1> QED
  BY <1>1, <1>2, <1>4, <1>5, <1>8

(* The baseline, the manifest and docs/evidence are such references.       *)
LEMMA FixedPaths ==
  ASSUME NEW p \in {Baseline, Manifest, EvidenceDir}
  PROVE  /\ Len(p) = 2 /\ p[1] = "docs" /\ Last(p) # ""
         /\ TrimSlash(p) = p /\ safeRepoRelativeRef(p)
<1>1. PICK n \in {"evidence-baseline.md", "evidence-baseline-summary-docs.txt", "evidence"} :
        p = <<"docs", n>>
  BY DEF Baseline, Manifest, EvidenceDir
<1>2. 1 \in DOMAIN <<"docs", n>> /\ 2 \in DOMAIN <<"docs", n>>
      /\ <<"docs", n>>[1] = "docs" /\ <<"docs", n>>[2] = n
  OBVIOUS
<1>3. "docs" \notin OddPart /\ n \notin OddPart
  BY <1>1, <1>2, NamesAssumption
<1>6. n # "" /\ n # "." /\ n # ".."
  OBVIOUS
<1>4. "docs" \notin UnsafePart /\ n \notin UnsafePart
  BY <1>3, <1>6 DEF UnsafePart
<1>5. /\ Len(<<"docs", n>>) = 2 /\ <<"docs", n>>[1] = "docs" /\ Last(<<"docs", n>>) = n
      /\ TrimSlash(<<"docs", n>>) = <<"docs", n>> /\ safeRepoRelativeRef(<<"docs", n>>)
  BY <1>4, TwoParts, Zenon
<1> QED
  BY <1>1, <1>6, <1>5, Zenon

(* The check passes exactly if each of its parts finds nothing.            *)
LEMMA StatusIs ==
  ASSUME NEW repo, IsRepo(repo)
  PROVE  LET index == parseBaselineIndex(repo[Baseline].body)
         IN  ExitStatus(repo) = 0 <=>
               /\ Kind(repo, Baseline) = "file"
               /\ Kind(repo, EvidenceDir) = "dir"
               /\ index.findings = {}
               /\ \A row \in index.rows : RowFindings(repo, row) = {}
               /\ checkSummaryDocsManifest(repo, summaryDocSet(index.rows)) = {}
               /\ \A row \in index.rows : \A b \in referencedBundles(repo, row) :
                    checkBundle(repo, b) = {}
               /\ \A b \in discoverEvidenceBundles(repo) : checkBundle(repo, b) = {}
<1> DEFINE at == lstatRepoRelative(repo, Baseline)
           ev == lstatRepoRelative(repo, EvidenceDir)
           index == parseBaselineIndex(repo[Baseline].body)
           isDir == ev.findings = {} /\ ev.kind = "dir"
           named == UNION {referencedBundles(repo, row) : row \in index.rows}
           bundles == named
                      \cup (IF isDir THEN discoverEvidenceBundles(repo) ELSE {})
           inRows == UNION {RowFindings(repo, row) : row \in index.rows}
           inBundles == UNION {checkBundle(repo, b) : b \in bundles}
           all == index.findings
                 \cup inRows
                 \cup checkSummaryDocsManifest(repo, summaryDocSet(index.rows))
                 \cup ev.findings
                 \cup Report(~isDir, EvidenceDir, "not a directory")
                 \cup inBundles
<1>1. (at.findings = {} /\ at.kind = "file") <=> Kind(repo, Baseline) = "file"
  <2>1. TrimSlash(Baseline) = Baseline /\ safeRepoRelativeRef(Baseline)
    BY FixedPaths
  <2> QED
    BY <2>1, LookedUp
<1>2. isDir <=> Kind(repo, EvidenceDir) = "dir"
  <2>1. TrimSlash(EvidenceDir) = EvidenceDir /\ safeRepoRelativeRef(EvidenceDir)
    BY FixedPaths
  <2> QED
    BY <2>1, LookedUp
<1> HIDE DEF at, ev, index
<1>3. ExitStatus(repo) = 0 <=> at.findings = {} /\ at.kind = "file" /\ all = {}
                               /\ ~(ev.findings = {} /\ ev.kind = "missing")
  <2>1. CASE at.findings # {}
    <3>1. checkRepo(repo) = [err |-> FALSE, findings |-> at.findings]
      BY <2>1, Zenon DEF checkRepo, at
    <3>2. checkRepo(repo).err = FALSE /\ checkRepo(repo).findings = at.findings
      BY <3>1
    <3> HIDE DEF all
    <3> QED
      BY <2>1, <3>2 DEF ExitStatus
  <2>2. CASE at.findings = {} /\ at.kind = "missing"
    BY <2>2 DEF ExitStatus, checkRepo, at
  <2>3. CASE at.findings = {} /\ at.kind # "missing" /\ at.kind # "file"
    <3>1. checkRepo(repo) = [err |-> FALSE, findings |-> {Finding(Baseline, "not a regular file")}]
      BY <2>3, Zenon DEF checkRepo, at
    <3> HIDE DEF all
    <3>3. PICK f : f = {Finding(Baseline, "not a regular file")}
      OBVIOUS
    <3>4. f # {}
      BY <3>3, Zenon
    <3>5. checkRepo(repo) = [err |-> FALSE, findings |-> f]
      BY <3>1, <3>3, Zenon
    <3>2. checkRepo(repo).err = FALSE /\ checkRepo(repo).findings # {}
      BY <3>4, <3>5
    <3> QED
      BY <2>3, <3>2 DEF ExitStatus
  <2>4. CASE at.findings = {} /\ at.kind = "file" /\ ev.findings = {} /\ ev.kind = "missing"
    BY <2>4 DEF ExitStatus, checkRepo, at, ev
  <2>5. CASE at.findings = {} /\ at.kind = "file" /\ ~(ev.findings = {} /\ ev.kind = "missing")
    <3>1. checkRepo(repo) = [err |-> FALSE, findings |-> all]
      BY <2>5, Zenon DEF checkRepo, at, ev, index
    <3> HIDE DEF all
    <3>2. checkRepo(repo).err = FALSE /\ checkRepo(repo).findings = all
      BY <3>1
    <3> QED
      BY <2>5, <3>2 DEF ExitStatus
  <2> QED
    BY <2>1, <2>2, <2>3, <2>4, <2>5
<1>4. isDir => ev.findings = {} /\ ev.kind # "missing" /\ Report(~isDir, EvidenceDir, "not a directory") = {}
  BY DEF Report
<1>5. ~isDir => Report(~isDir, EvidenceDir, "not a directory") # {}
  BY DEF Report
<1>6. isDir => bundles = named \cup discoverEvidenceBundles(repo)
  OBVIOUS
<1>7. all = {} <=> /\ index.findings = {}
                   /\ \A row \in index.rows : RowFindings(repo, row) = {}
                   /\ checkSummaryDocsManifest(repo, summaryDocSet(index.rows)) = {}
                   /\ ev.findings = {}
                   /\ Report(~isDir, EvidenceDir, "not a directory") = {}
                   /\ \A b \in bundles : checkBundle(repo, b) = {}
  <2> HIDE DEF bundles, isDir
  <2>1. inRows = {} <=> \A row \in index.rows : RowFindings(repo, row) = {}
    OBVIOUS
  <2>2. inBundles = {} <=> \A b \in bundles : checkBundle(repo, b) = {}
    OBVIOUS
  <2> HIDE DEF inRows, inBundles
  <2>4. all = {} <=> /\ index.findings = {} /\ inRows = {}
                     /\ checkSummaryDocsManifest(repo, summaryDocSet(index.rows)) = {}
                     /\ ev.findings = {}
                     /\ Report(~isDir, EvidenceDir, "not a directory") = {}
                     /\ inBundles = {}
    OBVIOUS
  <2> QED
    BY <2>1, <2>2, <2>4
<1>8. isDir => ((\A b \in bundles : checkBundle(repo, b) = {}) <=>
               /\ \A row \in index.rows : \A b \in referencedBundles(repo, row) :
                    checkBundle(repo, b) = {}
               /\ \A b \in discoverEvidenceBundles(repo) : checkBundle(repo, b) = {})
  <2>1. \A b : b \in named <=> \E row \in index.rows : b \in referencedBundles(repo, row)
    OBVIOUS
  <2>2. isDir => bundles = named \cup discoverEvidenceBundles(repo)
    BY <1>6
  <2> HIDE DEF named, bundles, isDir
  <2> QED
    BY <2>1, <2>2
<1> HIDE DEF all, bundles, isDir
<1>9. ExitStatus(repo) = 0 <=>
               /\ Kind(repo, Baseline) = "file"
               /\ Kind(repo, EvidenceDir) = "dir"
               /\ index.findings = {}
               /\ \A row \in index.rows : RowFindings(repo, row) = {}
               /\ checkSummaryDocsManifest(repo, summaryDocSet(index.rows)) = {}
               /\ \A row \in index.rows : \A b \in referencedBundles(repo, row) :
                    checkBundle(repo, b) = {}
               /\ \A b \in discoverEvidenceBundles(repo) : checkBundle(repo, b) = {}
  BY <1>1, <1>2, <1>3, <1>4, <1>5, <1>7, <1>8
<1> QED
  BY <1>9 DEF index

----------------------------------------------------------------------------
(* The index                                                               *)

(* The first line of an intact index is its header, the second one its     *)
(* separator.                                                              *)
LEMMA FirstTwo ==
  ASSUME NEW T \in SUBSET Nat, NEW h \in T, NEW s \in T, h < s, \A i \in T \ {h, s} : s < i
  PROVE  h = Min(T) /\ T \ {h} # {} /\ s = Min(T \ {h})
<1>1. PICK m : m = Min(T)
  OBVIOUS
<1>2. m \in T /\ \A y \in T : m <= y
  BY <1>1, MinIsLeast
<1>3. m \in Nat /\ h \in Nat /\ s \in Nat /\ m <= h
  BY <1>2
<1>4. m # s
  BY <1>3
<1>5. m = h
  <2> SUFFICES ASSUME m # h PROVE FALSE
    OBVIOUS
  <2>1. s < m
    BY <1>2, <1>4
  <2> QED
    BY <2>1, <1>3
<1>6. s \in T \ {h} /\ T \ {h} \in SUBSET Nat
  BY <1>3
<1>7. PICK b : b = Min(T \ {h})
  OBVIOUS
<1>8. b \in T \ {h} /\ \A y \in T \ {h} : b <= y
  BY <1>6, <1>7, MinIsLeast
<1>9. b = s
  <2> SUFFICES ASSUME b # s PROVE FALSE
    OBVIOUS
  <2>1. s < b /\ b <= s /\ b \in Nat
    BY <1>6, <1>8
  <2> QED
    BY <2>1, <1>3
<1> QED
  BY <1>1, <1>5, <1>6, <1>7, <1>9

(* The index is accepted exactly if it is intact, and then every line of   *)
(* the table but the first two is a row.                                   *)
LEMMA IndexIs ==
  ASSUME NEW lines, DOMAIN lines \in SUBSET Nat
  PROVE  /\ parseBaselineIndex(lines).findings = {} <=>
              \E h, s \in TableLines(lines) : IntactIndex(lines, h, s)
         /\ \A h, s \in TableLines(lines) :
              IntactIndex(lines, h, s) =>
                parseBaselineIndex(lines).rows = {lines[i] : i \in TableLines(lines) \ {h, s}}
<1>1. PICK T : T = TableLines(lines)
  OBVIOUS
<1>2. T \in SUBSET Nat
  BY <1>1 DEF TableLines
<1> DEFINE below == T \ {Min(T)}
           sep   == below # {} /\ validTableSeparator(lines[Min(below)])
           data  == IF sep THEN below \ {Min(below)} ELSE below
           good  == {i \in data : lines[i].cols = Columns /\ lines[i].lane # ""}
           twice == \E i, j \in good : i < j /\ lines[i].lane = lines[j].lane
           P == parseBaselineIndex(lines)
<1> HIDE DEF P
<1>3. CASE T = {} \/ ~validHeader(lines[Min(T)])
  <2>1. P.findings # {}
    BY <1>1, <1>3 DEF parseBaselineIndex, P
  <2>2. ASSUME NEW h \in T, NEW s \in T, IntactIndex(lines, h, s) PROVE FALSE
    <3>1. h < s /\ (\A i \in T \ {h, s} : s < i) /\ validHeader(lines[h])
      BY <2>2, <1>1 DEF IntactIndex
    <3>2. h = Min(T)
      BY <3>1, <1>2, FirstTwo
    <3> QED
      BY <3>1, <3>2, <1>3
  <2> QED
    BY <2>1, <2>2, <1>1 DEF P
<1>4. CASE T # {} /\ validHeader(lines[Min(T)])
  <2>1. P = [rows |-> {lines[i] : i \in good},
            findings |->
              Report(~sep, Baseline, "separator is missing or wrong")
              \cup Report(good # data, Baseline, "bad row")
              \cup Report(twice, Baseline, "duplicate evidence lane")
              \cup Report(good = {}, Baseline, "no evidence rows")]
    BY <1>1, <1>4, ZenonT(60) DEF parseBaselineIndex, P
  <2> HIDE DEF good, data, sep, twice
  <2>2. P.findings = {} <=> sep /\ good = data /\ ~twice /\ good # {}
    BY <2>1 DEF Report
  <2>3. P.rows = {lines[i] : i \in good}
    BY <2>1
  <2>4. ASSUME sep, good = data, ~twice, good # {}
        PROVE  \E h, s \in T : IntactIndex(lines, h, s)
    <3>1. PICK h, s : h = Min(T) /\ s = Min(below)
      OBVIOUS
    <3>2. h \in T /\ \A y \in T : h <= y
      BY <3>1, <1>2, <1>4, MinIsLeast
    <3>3. below # {} /\ below \in SUBSET Nat /\ below = T \ {h}
      BY <2>4, <1>2, <3>1 DEF sep
    <3>4. s \in below /\ \A y \in below : s <= y
      BY <3>1, <3>3, MinIsLeast
    <3>5. h \in Nat /\ s \in Nat /\ s # h /\ s \in T
      BY <3>2, <3>3, <3>4, <1>2
    <3>6. h < s
      BY <3>2, <3>5
    <3>7. data = T \ {h, s}
      BY <2>4, <3>1, <3>3 DEF data
    <3>8. \A i \in T \ {h, s} : s < i
      BY <3>3, <3>4, <3>5, <1>2
    <3>9. validHeader(lines[h]) /\ validTableSeparator(lines[s])
      BY <1>4, <2>4, <3>1 DEF sep
    <3>10. \A i \in T \ {h, s} : lines[i].cols = Columns /\ lines[i].lane # ""
      BY <2>4, <3>7 DEF good
    <3>11. ASSUME NEW i \in T \ {h, s}, NEW j \in T \ {h, s}, lines[i].lane = lines[j].lane
           PROVE  i = j
      <4>1. i \in Nat /\ j \in Nat
        BY <1>2
      <4>2. i \in good /\ j \in good
        BY <2>4, <3>7
      <4>3. ~(i < j) /\ ~(j < i)
        BY <4>2, <2>4, <3>11, Zenon DEF twice
      <4> QED
        BY <4>1, <4>3
    <3>12. T \ {h, s} # {}
      BY <2>4, <3>7
    <3>13. IntactIndex(lines, h, s)
      BY <1>1, <3>6, <3>8, <3>9, <3>10, <3>11, <3>12, Zenon DEF IntactIndex
    <3> QED
      BY <3>2, <3>5, <3>13
  <2>5. ASSUME NEW h \in T, NEW s \in T, IntactIndex(lines, h, s)
        PROVE  sep /\ good = data /\ ~twice /\ good # {} /\ good = T \ {h, s}
    <3>1. h < s /\ (\A i \in T \ {h, s} : s < i)
      BY <2>5, <1>1 DEF IntactIndex
    <3>2. h = Min(T) /\ T \ {h} # {} /\ s = Min(T \ {h})
      BY <3>1, <1>2, FirstTwo
    <3>3. /\ validTableSeparator(lines[s]) /\ T \ {h, s} # {}
          /\ \A i \in T \ {h, s} : lines[i].cols = Columns /\ lines[i].lane # ""
          /\ \A i, j \in T \ {h, s} : lines[i].lane = lines[j].lane => i = j
      BY <2>5, <1>1, Zenon DEF IntactIndex
    <3>4. sep
      BY <3>2, <3>3, Zenon DEF sep
    <3>5. data = T \ {h, s}
      BY <3>4, <3>2 DEF data
    <3>6. good = data
      BY <3>5, <3>3 DEF good
    <3>7. ~twice
      <4> SUFFICES ASSUME twice PROVE FALSE
        OBVIOUS
      <4>1. PICK i \in good, j \in good : i < j /\ lines[i].lane = lines[j].lane
        BY DEF twice
      <4>2. i = j /\ i \in Nat
        BY <4>1, <3>3, <3>5, <3>6, <1>2
      <4> QED
        BY <4>1, <4>2
    <3> QED
      BY <3>3, <3>4, <3>5, <3>6, <3>7
  <2> QED
    BY <2>2, <2>3, <2>4, <2>5, <1>1 DEF P
<1> QED
  BY <1>3, <1>4

----------------------------------------------------------------------------
(* The references of a cell                                                *)

(* Trimming in front keeps the last part.                                  *)
LEMMA LastOfTrimmed ==
  ASSUME NEW ref \in Ref
  PROVE  Last(trimLeadingDotSlash(ref)) = Last(ref)
<1>1. PICK r, k : r = trimLeadingDotSlash(ref) /\ Trimmed(ref, ".", k, r)
  BY TrimLeadingSlice DEF trimLeadingDotSlash
<1>2. PICK n \in Nat : n = Len(ref)
  BY RefFacts
<1>3. k \in Nat /\ 1 <= k /\ k <= n /\ Len(r) = n - k + 1
  BY <1>1, <1>2, Zenon DEF Trimmed
<1>4. \A i \in 1..n - k + 1 : r[i] = ref[k + i - 1]
  BY <1>1, <1>2, <1>3, Zenon DEF Trimmed
<1>5. n - k + 1 \in 1..n - k + 1 /\ k + (n - k + 1) - 1 = n
  BY <1>3
<1>6. r[n - k + 1] = ref[n]
  BY <1>4, <1>5
<1> QED
  BY <1>1, <1>2, <1>3, <1>6, LastIs

(* What begins with docs has no slash in front to trim.                    *)
LEMMA UnderDocsTrim ==
  ASSUME NEW r \in Ref, UnderDocs(r)
  PROVE  UnderDocs(TrimLeading(r, ""))
<1>1. PICK q, m : q = TrimLeading(r, "") /\ Trimmed(r, "", m, q)
  BY TrimLeadingSlice
<1>2. r[1] = "docs" /\ Len(r) >= 2 /\ Len(r) \in Nat
  BY RefFacts DEF UnderDocs
<1>3. m \in Nat /\ 1 <= m /\ Len(q) = Len(r) - m + 1
  BY <1>1, Zenon DEF Trimmed
<1>4. (\A i \in 1..Len(q) : q[i] = r[m + i - 1]) /\ \A i \in 1..m - 1 : r[i] = ""
  BY <1>1, Zenon DEF Trimmed
<1>8. r[1] # ""
  BY <1>2
<1>5. m = 1
  <2> SUFFICES ASSUME m # 1 PROVE FALSE
    OBVIOUS
  <2>1. 1 \in 1..m - 1
    BY <1>3
  <2> QED
    BY <2>1, <1>4, <1>8, Zenon
<1>9. Len(r) >= 2 /\ Len(r) \in Nat
  BY <1>2
<1>6. Len(q) >= 2 /\ 1 \in 1..Len(q) /\ 1 + 1 - 1 = 1
  BY <1>9, <1>3, <1>5
<1>7. q[1] = "docs"
  BY <1>2, <1>4, <1>5, <1>6
<1> QED
  BY <1>1, <1>6, <1>7 DEF UnderDocs

(* What begins with docs/evidence, part by part.                           *)
LEMMA InEvidence ==
  ASSUME NEW r \in Ref, Len(r) >= 2
  PROVE  SubSeq(r, 1, 2) = EvidenceDir <=> r[1] = "docs" /\ r[2] = "evidence"
<1>1. PICK n \in Nat : n = Len(r) /\ n >= 2
  BY RefFacts
<1>2. 1 \in 1..Len(r) /\ 2 \in 1..Len(r) /\ 1 \in 1..2 - 1 + 1 /\ 2 \in 1..2 - 1 + 1
      /\ 1 + 1 - 1 = 1 /\ 1 + 2 - 1 = 2 /\ 2 - 1 + 1 = 2
  BY <1>1
<1>3. PICK q : q = SubSeq(r, 1, 2)
  OBVIOUS
<1>4. q \in Ref /\ Len(q) = 2 /\ q[1] = r[1] /\ q[2] = r[2]
  BY <1>2, <1>3, Slice
<1>5. q \in Seq(STRING)
  BY <1>4, RefFacts
<1>6. q = <<q[1], q[2]>>
  BY <1>4, <1>5
<1>7. ASSUME q = EvidenceDir PROVE q[1] = "docs" /\ q[2] = "evidence"
  BY <1>7 DEF EvidenceDir
<1>8. ASSUME q[1] = "docs", q[2] = "evidence" PROVE q = EvidenceDir
  BY <1>8, <1>6, Zenon DEF EvidenceDir
<1> QED
  BY <1>3, <1>4, <1>7, <1>8

(* The references of a cell are all accepted exactly if each one that      *)
(* claims to name something in docs does.                                  *)
LEMMA CellAccepted ==
  ASSUME NEW cell \in SUBSET Ref, NEW keep, keep \subseteq CellRefs(cell),
         \A r \in keep : UnderDocs(r)
  PROVE  filteredBacktickRefs(cell, keep).findings = {} <=>
           \A ref \in cell : Claims(ref) => Named(ref) # {}
<1> DEFINE bad == {r \in CellRefs(cell) : IF r \in keep THEN ~safeRepoRelativeRef(r)
                                          ELSE looksLikeUnsafeRepoRef(r)}
<1>1. filteredBacktickRefs(cell, keep).findings = {Finding(ref, "unsafe baseline ref") : ref \in bad}
  BY DEF filteredBacktickRefs
<1>2. filteredBacktickRefs(cell, keep).findings = {} <=> bad = {}
  <2> HIDE DEF bad
  <2> QED
    BY <1>1
<1>3. ASSUME NEW ref \in cell
      PROVE  trimLeadingDotSlash(ref) \in bad <=> Claims(ref) /\ Named(ref) = {}
  <2>1. PICK r : r = trimLeadingDotSlash(ref)
    OBVIOUS
  <2>2. ref \in Ref /\ r \in Ref /\ r \in CellRefs(cell)
    BY <2>1, TrimType DEF CellRefs
  <2>3. Claims(ref) <=> UnderDocs(TrimLeading(r, ""))
    BY <2>1, <2>2, ClaimsUnder
  <2>4. Named(ref) = {} <=> ~safeRepoRelativeRef(r)
    BY <2>1, <2>2, NamedIs
  <2>5. r \in keep => UnderDocs(TrimLeading(r, ""))
    BY <2>2, UnderDocsTrim
  <2>6. r \in bad <=> IF r \in keep THEN ~safeRepoRelativeRef(r) ELSE looksLikeUnsafeRepoRef(r)
    BY <2>2
  <2> HIDE DEF bad
  <2> QED
    BY <2>1, <2>3, <2>4, <2>5, <2>6 DEF looksLikeUnsafeRepoRef
<1>4. \A r \in bad : \E ref \in cell : r = trimLeadingDotSlash(ref)
  BY DEF CellRefs
<1> HIDE DEF bad
<1> QED
  BY <1>2, <1>3, <1>4

(* The references evidenceRefs keeps of a raw-evidence cell, and when it   *)
(* reports none.                                                           *)
LEMMA RawKept ==
  ASSUME NEW cell \in SUBSET Ref
  PROVE  /\ evidenceRefs(cell).findings = {} <=> \A ref \in cell : Claims(ref) => Named(ref) # {}
         /\ \A r : r \in evidenceRefs(cell).refs <=>
              /\ r \in CellRefs(cell) /\ Len(r) >= 3 /\ SubSeq(r, 1, 2) = EvidenceDir
              /\ safeRepoRelativeRef(r)
<1> DEFINE keep == {ref \in CellRefs(cell) : Len(ref) >= 3 /\ SubSeq(ref, 1, 2) = EvidenceDir}
<1>1. evidenceRefs(cell) = filteredBacktickRefs(cell, keep)
  BY DEF evidenceRefs
<1>2. ASSUME NEW r \in keep PROVE UnderDocs(r)
  <2>1. r \in Ref /\ Len(r) >= 3
    BY TrimType DEF CellRefs
  <2>2. Len(r) >= 2
    BY <2>1, RefFacts
  <2> QED
    BY <2>1, <2>2, InEvidence DEF UnderDocs
<1>3. keep \subseteq CellRefs(cell)
  OBVIOUS
<1>4. \A r : r \in filteredBacktickRefs(cell, keep).refs <=> r \in keep /\ safeRepoRelativeRef(r)
  <2> HIDE DEF keep
  <2> QED
    BY DEF filteredBacktickRefs
<1>5. \A r : r \in keep <=> r \in CellRefs(cell) /\ Len(r) >= 3 /\ SubSeq(r, 1, 2) = EvidenceDir
  OBVIOUS
<1> HIDE DEF keep
<1>6. evidenceRefs(cell).findings = {} <=> \A ref \in cell : Claims(ref) => Named(ref) # {}
  BY <1>1, <1>2, <1>3, CellAccepted
<1> QED
  BY <1>1, <1>4, <1>5, <1>6, Zenon

(* The references summaryRefs keeps of a summary cell, and when it reports *)
(* none.                                                                   *)
LEMMA DocKept ==
  ASSUME NEW cell \in SUBSET Ref
  PROVE  /\ summaryRefs(cell).findings = {} <=> \A ref \in cell : Claims(ref) => Named(ref) # {}
         /\ \A r : r \in summaryRefs(cell).refs <=>
              /\ r \in CellRefs(cell) /\ UnderDocs(r) /\ Last(r) \in MdName
              /\ safeRepoRelativeRef(r)
<1> DEFINE keep == {ref \in CellRefs(cell) : UnderDocs(ref) /\ Last(ref) \in MdName}
<1>1. summaryRefs(cell) = filteredBacktickRefs(cell, keep)
  BY DEF summaryRefs
<1>2. \A r \in keep : UnderDocs(r)
  OBVIOUS
<1>3. keep \subseteq CellRefs(cell)
  OBVIOUS
<1>4. \A r : r \in filteredBacktickRefs(cell, keep).refs <=> r \in keep /\ safeRepoRelativeRef(r)
  <2> HIDE DEF keep
  <2> QED
    BY DEF filteredBacktickRefs
<1>5. \A r : r \in keep <=> r \in CellRefs(cell) /\ UnderDocs(r) /\ Last(r) \in MdName
  OBVIOUS
<1> HIDE DEF keep
<1>6. summaryRefs(cell).findings = {} <=> \A ref \in cell : Claims(ref) => Named(ref) # {}
  BY <1>1, <1>2, <1>3, CellAccepted
<1> QED
  BY <1>1, <1>4, <1>5, <1>6, Zenon

(* The summary docs the check reads out of a cell are those it names.      *)
LEMMA DocsNamed ==
  ASSUME NEW cell \in SUBSET Ref, NEW p
  PROVE  p \in summaryRefs(cell).refs <=>
           /\ UnderDocs(p)
           /\ \E ref \in cell : Last(ref) \in MdName /\ p \in Named(ref)
<1>1. ASSUME NEW ref \in cell, Last(ref) \in MdName, NEW r, r = trimLeadingDotSlash(ref)
      PROVE  (p \in Named(ref)) <=> (p = r /\ safeRepoRelativeRef(r))
  <2>1. ref \in Ref /\ Last(r) = Last(ref)
    BY <1>1, LastOfTrimmed
  <2>2. Last(r) # ""
    BY <2>1, <1>1, NamesAssumption
  <2>3. TrimSlash(r) = r
    BY <2>2 DEF TrimSlash
  <2> QED
    BY <2>1, <2>3, <1>1, NamedIs
<1>2. ASSUME p \in summaryRefs(cell).refs
      PROVE  UnderDocs(p) /\ \E ref \in cell : Last(ref) \in MdName /\ p \in Named(ref)
  <2>1. /\ p \in CellRefs(cell) /\ UnderDocs(p) /\ Last(p) \in MdName
        /\ safeRepoRelativeRef(p)
    BY <1>2, DocKept
  <2>2. PICK ref \in cell : p = trimLeadingDotSlash(ref)
    BY <2>1 DEF CellRefs
  <2>3. ref \in Ref /\ Last(ref) \in MdName
    BY <2>1, <2>2, LastOfTrimmed
  <2> QED
    BY <2>1, <2>2, <2>3, <1>1
<1>3. ASSUME UnderDocs(p), NEW ref \in cell, Last(ref) \in MdName, p \in Named(ref)
      PROVE  p \in summaryRefs(cell).refs
  <2>1. PICK r : r = trimLeadingDotSlash(ref)
    OBVIOUS
  <2>2. p = r /\ safeRepoRelativeRef(r)
    BY <2>1, <1>1, <1>3
  <2>3. Last(p) \in MdName /\ p \in CellRefs(cell)
    BY <2>1, <2>2, <1>3, LastOfTrimmed DEF CellRefs
  <2> QED
    BY <2>2, <2>3, <1>3, DocKept
<1> QED
  BY <1>2, <1>3

(* The summary docs the check collects from the rows are those the rows    *)
(* name.                                                                   *)
LEMMA DocsAre ==
  ASSUME NEW rows, \A row \in rows : row.summary \in SUBSET Ref
  PROVE  summaryDocSet(rows) = NamedDocs(rows)
<1>1. ASSUME NEW p
      PROVE  p \in summaryDocSet(rows) <=> \E row \in rows : p \in summaryRefs(row.summary).refs
  BY DEF summaryDocSet
<1>2. ASSUME NEW p
      PROVE  p \in NamedDocs(rows) <=>
               /\ UnderDocs(p)
               /\ \E row \in rows : \E ref \in row.summary : Last(ref) \in MdName /\ p \in Named(ref)
  BY DEF NamedDocs
<1>3. ASSUME NEW p
      PROVE  p \in summaryDocSet(rows) <=> p \in NamedDocs(rows)
  <2>1. ASSUME NEW row \in rows
        PROVE  p \in summaryRefs(row.summary).refs <=>
               /\ UnderDocs(p)
               /\ \E ref \in row.summary : Last(ref) \in MdName /\ p \in Named(ref)
    BY DocsNamed
  <2> QED
    BY <2>1, <1>1, <1>2, Zenon
<1> QED
  BY <1>3

(* The manifest is accepted exactly if it is a file, without padding, that *)
(* lists the summary docs once each and sorted (checkSummaryDocsManifest). *)
LEMMA ManifestIs ==
  ASSUME NEW repo, IsRepo(repo), NEW docs
  PROVE  checkSummaryDocsManifest(repo, docs) = {} <=>
           /\ Kind(repo, Manifest) = "file"
           /\ ~Padded(repo[Manifest].body)
           /\ ListsSorted(repo[Manifest].body, docs)
<1>1. TrimSlash(Manifest) = Manifest /\ safeRepoRelativeRef(Manifest)
  BY FixedPaths
<1>2. PICK at : at = lstatRepoRelative(repo, Manifest)
  OBVIOUS
<1>3. (at.findings = {} /\ at.kind = "file") <=> Kind(repo, Manifest) = "file"
  BY <1>1, <1>2, LookedUp
<1> QED
  BY <1>2, <1>3 DEF checkSummaryDocsManifest, Report

----------------------------------------------------------------------------
(* Bundles                                                                 *)

(* The parts of a concatenation.                                           *)
LEMMA Joined ==
  ASSUME NEW A, NEW B, NEW s \in Seq(A), NEW t \in Seq(B)
  PROVE  /\ s \o t \in Seq(A \cup B)
         /\ Len(s \o t) = Len(s) + Len(t)
         /\ \A i \in 1..Len(s) : (s \o t)[i] = s[i]
         /\ \A i \in 1..Len(t) : (s \o t)[Len(s) + i] = t[i]
<1>1. /\ Len(s) \in Nat /\ Len(t) \in Nat
      /\ s \in Seq(A \cup B) /\ t \in Seq(A \cup B)
  <2>1. Len(s) \in Nat /\ Len(t) \in Nat
    BY LenProperties
  <2>2. s \in [1..Len(s) -> A] /\ t \in [1..Len(t) -> B]
    BY LenProperties
  <2>3. s \in [1..Len(s) -> A \cup B] /\ t \in [1..Len(t) -> A \cup B]
    BY <2>2
  <2> QED
    BY <2>1, <2>3 DEF Seq
<1>2. /\ s \o t \in Seq(A \cup B) /\ Len(s \o t) = Len(s) + Len(t)
      /\ \A i \in 1..Len(s) + Len(t) : (s \o t)[i] = IF i <= Len(s) THEN s[i] ELSE t[i - Len(s)]
  BY <1>1, ConcatProperties
<1>3. ASSUME NEW i \in 1..Len(s) PROVE (s \o t)[i] = s[i]
  BY <1>1, <1>2
<1>4. ASSUME NEW i \in 1..Len(t) PROVE (s \o t)[Len(s) + i] = t[i]
  <2>1. Len(s) + i \in 1..Len(s) + Len(t) /\ ~(Len(s) + i <= Len(s)) /\ (Len(s) + i) - Len(s) = i
    BY <1>1
  <2> QED
    BY <2>1, <1>2
<1> QED
  BY <1>2, <1>3, <1>4

(* A reference of one part is known by that part.                          *)
LEMMA OnePart ==
  ASSUME NEW r \in Ref, NEW x
  PROVE  r = <<x>> <=> Len(r) = 1 /\ Last(r) = x
<1>1. r \in Seq(STRING) /\ Last(r) = r[Len(r)]
  BY RefFacts, LastIs
<1>2. ASSUME Len(r) = 1, Last(r) = x PROVE r = <<x>>
  <2>1. r[1] = x
    BY <1>1, <1>2
  <2>2. r = <<r[1]>>
    BY <1>1, <1>2
  <2> QED
    BY <2>1, <2>2, Zenon
<1>3. ASSUME r = <<x>> PROVE Len(r) = 1 /\ Last(r) = x
  <2>1. Len(<<x>>) = 1 /\ <<x>>[1] = x
    OBVIOUS
  <2> QED
    BY <2>1, <1>1, <1>3, Zenon
<1> QED
  BY <1>2, <1>3

(* The entries the walk passes over, by their last part and their depth    *)
(* (ignoredBundleEntry).                                                   *)
LEMMA ControlIs ==
  ASSUME NEW r \in Ref
  PROVE  ignoredBundleEntry(r) <=>
           \/ Last(r) = ".DS_Store"
           \/ Len(r) = 1 /\ Last(r) \in {"README.md", "SHA256SUMS", "SHA256SUMS.sig"}
<1>1. r \in ControlFiles <=> \E x \in {"README.md", "SHA256SUMS", "SHA256SUMS.sig"} : r = <<x>>
  BY Zenon DEF ControlFiles
<1> QED
  BY <1>1, OnePart, Zenon DEF ignoredBundleEntry

(* The parts of a path below b.                                            *)
LEMMA BelowFacts ==
  ASSUME NEW repo, IsRepo(repo), NEW b \in Ref, NEW p \in Below(repo, b)
  PROVE  /\ Rel(b, p) \in Ref /\ Len(Rel(b, p)) = Len(p) - Len(b) /\ Len(p) > Len(b)
         /\ Last(Rel(b, p)) = Last(p)
         /\ \A rel \in Ref : Rel(b, p) = rel <=> p = b \o rel
<1>1. p \in DOMAIN repo /\ Len(p) > Len(b) /\ SubSeq(p, 1, Len(b)) = b
  BY DEF Below
<1>2. p \in Ref
  BY <1>1, KindFacts
<1>3. PICK m \in Nat, n \in Nat : m = Len(b) /\ n = Len(p) /\ m >= 1 /\ n > m
  BY <1>1, <1>2, RefFacts
<1>4. m + 1 \in 1..Len(p) /\ n \in m + 1..Len(p) /\ m \in 1..Len(p) /\ 1 \in 1..Len(p)
  BY <1>3
<1>5. PICK q : q = SubSeq(p, m + 1, n)
  OBVIOUS
<1>6. q \in Ref /\ Len(q) = n - (m + 1) + 1 /\ \A i \in 1..n - (m + 1) + 1 : q[i] = p[(m + 1) + i - 1]
  BY <1>2, <1>4, <1>5, Slice
<1>7. n - (m + 1) + 1 = n - m /\ n - m \in 1..n - m /\ (m + 1) + (n - m) - 1 = n /\ n - m >= 1
  BY <1>3
<1>8. Len(q) = n - m /\ \A i \in 1..n - m : q[i] = p[(m + 1) + i - 1]
  BY <1>6, <1>7, Zenon
<1>9. q = Rel(b, p)
  BY <1>3, <1>5 DEF Rel
<1>10. Last(q) = Last(p)
  <2>1. q[n - m] = p[n]
    BY <1>7, <1>8
  <2> QED
    BY <2>1, <1>3, <1>8, LastIs
<1>11. \A i \in 1..m : p[i] = b[i]
  <2>1. PICK c : c = SubSeq(p, 1, m)
    OBVIOUS
  <2>2. \A i \in 1..m - 1 + 1 : c[i] = p[1 + i - 1]
    BY <1>2, <1>4, <2>1, Slice
  <2>3. c = b
    BY <1>1, <1>3, <2>1
  <2>4. ASSUME NEW i \in 1..m PROVE c[i] = p[i]
    <3>1. i \in 1..m - 1 + 1 /\ 1 + i - 1 = i
      OBVIOUS
    <3> QED
      BY <2>2, <3>1
  <2> QED
    BY <2>3, <2>4
<1>12. ASSUME NEW rel \in Ref, q = rel PROVE p = b \o rel
  <2>1. PICK c : c = b \o rel
    OBVIOUS
  <2>2. b \in Seq(STRING) /\ rel \in Seq(STRING) /\ p \in Seq(STRING)
    BY <1>2, RefFacts
  <2>3. c \in Seq(STRING \cup STRING) /\ Len(c) = Len(b) + Len(rel)
        /\ (\A i \in 1..Len(b) : c[i] = b[i]) /\ \A i \in 1..Len(rel) : c[Len(b) + i] = rel[i]
    BY <2>1, <2>2, Joined
  <2>4. STRING \cup STRING = STRING
    OBVIOUS
  <2>5. Len(c) = m + (n - m)
    BY <2>3, <1>3, <1>8, <1>12
  <2>6. Len(c) = n
    BY <2>5, <1>3
  <2>7. ASSUME NEW i \in 1..n PROVE c[i] = p[i]
    <3>1. CASE i <= m
      <4>1. i \in 1..m
        BY <3>1
      <4> QED
        BY <4>1, <2>3, <1>3, <1>11
    <3>2. CASE i > m
      <4>1. i - m \in 1..n - m /\ m + (i - m) = i /\ (m + 1) + (i - m) - 1 = i
        BY <3>2
      <4>2. rel[i - m] = p[i]
        BY <4>1, <1>8, <1>12
      <4>3. c[i] = rel[i - m]
        BY <4>1, <2>3, <1>3, <1>8, <1>12, ZenonT(60)
      <4> QED
        BY <4>2, <4>3
    <3> QED
      BY <3>1, <3>2
  <2>8. c \in Seq(STRING)
    BY <2>3, <2>4
  <2> QED
    BY <2>1, <2>2, <2>6, <2>7, <2>8, <1>3, SeqEqual
<1>13. ASSUME NEW rel \in Ref, p = b \o rel PROVE q = rel
  <2>2. b \in Seq(STRING) /\ rel \in Seq(STRING)
    BY RefFacts
  <2>3. Len(b \o rel) = Len(b) + Len(rel) /\ \A i \in 1..Len(rel) : (b \o rel)[Len(b) + i] = rel[i]
    BY <2>2, Joined
  <2>4. n = m + Len(rel) /\ \A i \in 1..Len(rel) : p[m + i] = rel[i]
    BY <2>3, <1>3, <1>13
  <2>5. Len(rel) = n - m
    BY <2>4, <1>3, RefFacts
  <2>6. ASSUME NEW i \in 1..n - m PROVE q[i] = rel[i]
    <3>1. (m + 1) + i - 1 = m + i
      BY <1>3
    <3>2. q[i] = p[m + i]
      BY <3>1, <1>8
    <3> QED
      BY <3>2, <2>4, <2>5
  <2> QED
    BY <2>5, <2>6, <1>6, <1>8, SameRef
<1>14. \A rel \in Ref : q = rel <=> p = b \o rel
  BY <1>12, <1>13
<1> QED
  BY <1>1, <1>3, <1>6, <1>8, <1>9, <1>10, <1>14

(* The lines of a SHA256SUMS that are not blank.                           *)
Used(lines) == {i \in DOMAIN lines : lines[i].form # "blank"}

(* They have the right form and list no path twice.                        *)
GoodLines(lines) ==
  /\ \A i \in Used(lines) :
       /\ lines[i].form = "text" /\ lines[i].hex /\ ~lines[i].marked
       /\ safeBundleRelativePath(lines[i].rel)
  /\ \A i, j \in Used(lines) : lines[i].rel = lines[j].rel => i = j

(* A SHA256SUMS is parsed without findings exactly if its lines have the   *)
(* right form and list no path twice, and then every line that is not      *)
(* blank is an entry (parseSHA256SUMS).                                    *)
LEMMA SumsAre ==
  ASSUME NEW path, NEW lines, DOMAIN lines \in SUBSET Nat,
         \A i \in DOMAIN lines : lines[i].form \in {"text", "blank", "binary", "other"}
  PROVE  /\ parseSHA256SUMS(lines, path).findings = {} <=> GoodLines(lines)
         /\ parseSHA256SUMS(lines, path).findings = {} =>
              parseSHA256SUMS(lines, path).entries = {lines[i] : i \in Used(lines)}
<1> DEFINE parts == {i \in DOMAIN lines : lines[i].form = "text"}
           kept == {i \in parts : ~lines[i].marked /\ safeBundleRelativePath(lines[i].rel)}
           odd == \E i \in DOMAIN lines : lines[i].form \in {"binary", "other"}
           upper == \E i \in parts : ~lines[i].hex
           twice == \E i, j \in kept : i < j /\ lines[i].rel = lines[j].rel
           S == parseSHA256SUMS(lines, path)
<1> HIDE DEF S
<1>1. S = [entries |-> {lines[i] : i \in kept},
           findings |-> Report(odd, path, "line format")
                        \cup Report(upper, path, "hash format")
                        \cup Report(kept # parts, path, "unsafe path")
                        \cup Report(twice, path, "duplicate checksum path")]
  BY Zenon DEF parseSHA256SUMS, S
<1> HIDE DEF odd, upper, kept, parts, twice
<1>2. S.findings = {} <=> ~odd /\ ~upper /\ kept = parts /\ ~twice
  BY <1>1 DEF Report
<1>3. S.entries = {lines[i] : i \in kept}
  BY <1>1
<1>4. ASSUME ~odd, ~upper, kept = parts, ~twice
      PROVE  /\ kept = Used(lines)
             /\ \A i \in Used(lines) :
                   /\ lines[i].form = "text" /\ lines[i].hex /\ ~lines[i].marked
                   /\ safeBundleRelativePath(lines[i].rel)
             /\ \A i, j \in Used(lines) : lines[i].rel = lines[j].rel => i = j
  <2>1. \A i \in Used(lines) : lines[i].form = "text"
    BY <1>4 DEF Used, odd
  <2>2. parts = Used(lines)
    BY <2>1 DEF parts, Used
  <2>3. \A i \in Used(lines) : lines[i].hex
    BY <2>2, <1>4, Zenon DEF upper
  <2>4. \A i \in Used(lines) : ~lines[i].marked /\ safeBundleRelativePath(lines[i].rel)
    BY <2>2, <1>4, Zenon DEF kept
  <2>5. ASSUME NEW i \in Used(lines), NEW j \in Used(lines), lines[i].rel = lines[j].rel
        PROVE  i = j
    <3>1. i \in Nat /\ j \in Nat
      BY DEF Used
    <3>2. i \in kept /\ j \in kept
      BY <2>2, <1>4
    <3>3. ~(i < j) /\ ~(j < i)
      BY <3>2, <2>5, <1>4, Zenon DEF twice
    <3> QED
      BY <3>1, <3>3
  <2> QED
    BY <2>1, <2>2, <2>3, <2>4, <2>5, <1>4, Zenon
<1>5. ASSUME \A i \in Used(lines) :
               /\ lines[i].form = "text" /\ lines[i].hex /\ ~lines[i].marked
               /\ safeBundleRelativePath(lines[i].rel),
             \A i, j \in Used(lines) : lines[i].rel = lines[j].rel => i = j
      PROVE  ~odd /\ ~upper /\ kept = parts /\ ~twice
  <2>1. \A i \in Used(lines) : lines[i].form = "text"
    BY <1>5, Zenon
  <2>2. parts = Used(lines)
    BY <2>1 DEF parts, Used
  <2>3. ~odd
    BY <2>1 DEF Used, odd
  <2>4. ~upper
    BY <2>2, <1>5, Zenon DEF upper
  <2>5. kept = parts
    BY <2>2, <1>5, Zenon DEF kept
  <2>6. ~twice
    <3> SUFFICES ASSUME twice PROVE FALSE
      OBVIOUS
    <3>1. PICK i \in kept, j \in kept : i < j /\ lines[i].rel = lines[j].rel
      BY DEF twice
    <3>2. i = j
      BY <3>1, <2>2, <2>5, <1>5, Zenon
    <3>3. i \in Nat
      BY <2>2, <2>5 DEF Used
    <3> QED
      BY <3>1, <3>2, <3>3
  <2> QED
    BY <2>3, <2>4, <2>5, <2>6
<1>6. S.findings = {} <=> GoodLines(lines)
  BY <1>2, <1>4, <1>5, Zenon DEF GoodLines
<1>7. S.findings = {} => S.entries = {lines[i] : i \in Used(lines)}
  BY <1>2, <1>3, <1>4, Zenon
<1> QED
  BY <1>6, <1>7, Zenon DEF S

(* A checksum line is verified exactly if there is a file at its path with *)
(* its digest.                                                             *)
LEMMA EntryIs ==
  ASSUME NEW repo, IsRepo(repo), NEW b \in Ref, NEW e, e.rel \in Ref
  PROVE  verifySHA256Entry(repo, b, e) = {} <=>
           Kind(repo, b \o e.rel) = "file" /\ repo[b \o e.rel].body = e.hash
<1>1. PICK rel, path : rel = e.rel /\ path = b \o rel /\ rel \in Ref
  OBVIOUS
<1> DEFINE at(i) == Kind(repo, b \o SubSeq(rel, 1, i))
           bad == \E i \in DOMAIN rel : \/ at(i) \in {"missing", "link"}
                                        \/ i < Len(rel) /\ at(i) # "dir"
           found == lstatChecksumEntry(repo, b, rel)
<1>2. found = {} <=> ~bad
  BY DEF lstatChecksumEntry, Report
<1>3. ASSUME Kind(repo, path) = "file" PROVE ~bad
  <2>1. path \in DOMAIN repo /\ path \in Ref
    BY <1>3, KindFacts
  <2>2. PICK m \in Nat, n \in Nat : m = Len(b) /\ n = Len(rel) /\ m >= 1 /\ n >= 1
    BY <1>1, RefFacts
  <2>3. b \in Seq(STRING) /\ rel \in Seq(STRING)
    BY <1>1, RefFacts
  <2>4. Len(path) = m + n /\ (\A i \in 1..m : path[i] = b[i]) /\ \A i \in 1..n : path[m + i] = rel[i]
    BY <1>1, <2>2, <2>3, Joined
  <2>5. ASSUME NEW i \in 1..n PROVE b \o SubSeq(rel, 1, i) = SubSeq(path, 1, m + i)
    <3>1. 1 \in 1..Len(rel) /\ i \in 1..Len(rel) /\ i - 1 + 1 = i
      BY <2>2
    <3>2. PICK c : c = SubSeq(rel, 1, i)
      OBVIOUS
    <3>3. c \in Ref /\ Len(c) = i /\ \A j \in 1..i : c[j] = rel[1 + j - 1]
      BY <3>1, <3>2, <1>1, Slice
    <3>4. 1 \in 1..Len(path) /\ m + i \in 1..Len(path) /\ (m + i) - 1 + 1 = m + i
      BY <2>2, <2>4
    <3>5. PICK d : d = SubSeq(path, 1, m + i)
      OBVIOUS
    <3>6. d \in Ref /\ Len(d) = m + i /\ \A j \in 1..m + i : d[j] = path[1 + j - 1]
      BY <3>4, <3>5, <2>1, Slice
    <3>7. PICK f : f = b \o c
      OBVIOUS
    <3>8. c \in Seq(STRING) /\ d \in Seq(STRING)
      BY <3>3, <3>6, RefFacts
    <3>13. /\ f \in Seq(STRING \cup STRING) /\ Len(f) = Len(b) + Len(c)
           /\ (\A j \in 1..Len(b) : f[j] = b[j]) /\ \A j \in 1..Len(c) : f[Len(b) + j] = c[j]
      BY <3>7, <3>8, <2>3, Joined
    <3>9. /\ f \in Seq(STRING \cup STRING) /\ Len(f) = m + i
          /\ (\A j \in 1..m : f[j] = b[j]) /\ \A j \in 1..i : f[m + j] = c[j]
      BY <3>3, <3>13, <2>2
    <3>10. STRING \cup STRING = STRING
      OBVIOUS
    <3>11. ASSUME NEW j \in 1..m + i PROVE f[j] = d[j]
      <4>1. d[j] = path[j]
        BY <3>6, <2>2
      <4>2. CASE j <= m
        <5>1. j \in 1..m
          BY <4>2
        <5> QED
          BY <5>1, <4>1, <3>9, <2>4
      <4>3. CASE j > m
        <5>1. j - m \in 1..i /\ j - m \in 1..n /\ m + (j - m) = j /\ 1 + (j - m) - 1 = j - m
          BY <4>3, <2>2
        <5>2. f[j] = c[j - m]
          BY <5>1, <3>9
        <5>3. c[j - m] = rel[j - m]
          BY <5>1, <3>3
        <5>4. path[j] = rel[j - m]
          BY <5>1, <2>4
        <5> QED
          BY <5>2, <5>3, <5>4, <4>1
      <4> QED
        BY <4>2, <4>3, <2>2
    <3>12. f \in Seq(STRING)
      BY <3>9, <3>10
    <3> QED
      BY <3>2, <3>5, <3>6, <3>7, <3>8, <3>9, <3>11, <3>12, SeqEqual
  <2>6. ASSUME NEW i \in 1..n, i < n PROVE at(i) = "dir"
    <3>1. m + i \in 1..Len(path) - 1
      BY <2>2, <2>4, <2>6
    <3>2. Kind(repo, SubSeq(path, 1, m + i)) = "dir"
      BY <3>1, <2>1, DirsAbove, SMTT(60)
    <3> QED
      BY <3>2, <2>5
  <2>7. at(n) = "file"
    <3>1. n \in 1..n /\ m + n = Len(path)
      BY <2>2, <2>4
    <3>2. b \o SubSeq(rel, 1, n) = SubSeq(path, 1, Len(path))
      BY <2>5, <3>1
    <3>3. SubSeq(path, 1, Len(path)) = path
      BY <2>1, RefFacts, SubSeqFull
    <3> QED
      BY <3>2, <3>3, <1>3, ZenonT(60)
  <2>8. DOMAIN rel = 1..n
    BY <1>1, <2>2, RefFacts
  <2> HIDE DEF at
  <2>9. ASSUME NEW i \in DOMAIN rel PROVE ~(at(i) \in {"missing", "link"} \/ (i < Len(rel) /\ at(i) # "dir"))
    <3>1. i \in 1..n
      BY <2>8
    <3>2. i = n \/ i < n
      BY <3>1, <2>2
    <3>3. CASE i = n
      <4>1. ~(i < Len(rel))
        BY <3>3, <2>2
      <4> QED
        BY <3>3, <4>1, <2>7
    <3>4. CASE i < n
      BY <3>1, <3>4, <2>6
    <3> QED
      BY <3>2, <3>3, <3>4
  <2> QED
    BY <2>9
<1> HIDE DEF bad, found
<1>4. verifySHA256Entry(repo, b, e) =
        IF found # {} THEN found
        ELSE IF Kind(repo, path) # "file" THEN {Finding(path, "non-regular file")}
        ELSE Report(repo[path].body # e.hash, path, "hash mismatch")
  BY <1>1, Zenon DEF verifySHA256Entry, found
<1> QED
  BY <1>1, <1>2, <1>3, <1>4 DEF Report

(* The fields of a checksum line.                                          *)
LEMMA SumLineFacts ==
  ASSUME NEW l \in SumLine
  PROVE  l.form \in {"text", "blank", "binary", "other"} /\ l.rel \in Ref
  BY DEF SumLine

(* Bundles are three parts long.                                           *)
IsBundle(b) == b \in Ref /\ Len(b) = 3 /\ SubSeq(b, 1, 2) = EvidenceDir

(* The SHA256SUMS of a bundle is a sequence of checksum lines.             *)
LEMMA SumsTyped ==
  ASSUME NEW repo, IsRepo(repo), NEW b, IsBundle(b),
         NEW path, path = b \o <<"SHA256SUMS">>, Kind(repo, path) = "file",
         NEW lines, lines = repo[path].body
  PROVE  /\ DOMAIN lines \in SUBSET Nat
         /\ \A i \in DOMAIN lines : /\ lines[i].form \in {"text", "blank", "binary", "other"}
                                    /\ lines[i].rel \in Ref
<1>1. path \in DOMAIN repo /\ path \in Ref
  BY KindFacts
<1>2. PICK x : x = "SHA256SUMS"
  OBVIOUS
<1>3. <<x>> \in Seq({x}) /\ Len(<<x>>) = 1 /\ <<x>>[1] = x
  OBVIOUS
<1>4. b \in Ref /\ b \in Seq(STRING) /\ Len(b) = 3
  BY RefFacts DEF IsBundle
<1>5. PICK c : c = <<x>>
  OBVIOUS
<1>6. c \in Seq({x}) /\ Len(c) = 1 /\ c[1] = x /\ path = b \o c
  BY <1>2, <1>3, <1>5, Zenon
<1>7. /\ Len(path) = Len(b) + Len(c) /\ (\A i \in 1..Len(b) : path[i] = b[i])
      /\ \A i \in 1..Len(c) : path[Len(b) + i] = c[i]
  <2>1. PICK A, B : b \in Seq(A) /\ c \in Seq(B)
    BY <1>4, <1>6
  <2>2. /\ Len(b \o c) = Len(b) + Len(c) /\ (\A i \in 1..Len(b) : (b \o c)[i] = b[i])
        /\ \A i \in 1..Len(c) : (b \o c)[Len(b) + i] = c[i]
    BY <2>1, Joined
  <2> QED
    BY <2>2, <1>6, Zenon
<1>8. Len(path) = 4 /\ 1 \in 1..3 /\ 2 \in 1..3 /\ 1 \in 1..1 /\ 3 + 1 = 4
  BY <1>4, <1>6, <1>7
<1>9. path[1] = b[1] /\ path[2] = b[2] /\ path[4] = x
  BY <1>4, <1>6, <1>7, <1>8
<1>10. b[1] = "docs" /\ b[2] = "evidence"
  <2>1. Len(b) >= 2
    BY <1>4
  <2> QED
    BY <2>1, <1>4, InEvidence DEF IsBundle
<1>11. SubSeq(path, 1, 2) = EvidenceDir
  <2>1. Len(path) >= 2
    BY <1>8
  <2> QED
    BY <2>1, <1>1, <1>9, <1>10, InEvidence
<1>12. IsSums(path)
  BY <1>2, <1>8, <1>9, <1>11, LastIs DEF IsSums
<1>13. IsNode(path, repo[path]) /\ repo[path].kind = "file"
  BY <1>1 DEF IsRepo, Kind
<1>14. PICK R : R = SumLine
  OBVIOUS
<1>15. lines \in Seq(R)
  BY <1>12, <1>13, <1>14 DEF IsNode
<1>16. DOMAIN lines = 1..Len(lines) /\ Len(lines) \in Nat /\ \A i \in 1..Len(lines) : lines[i] \in R
  BY <1>15, LenProperties, ElementOfSeq
<1>17. DOMAIN lines \in SUBSET Nat
  BY <1>16
<1> QED
  BY <1>14, <1>16, <1>17, SumLineFacts

(* p is passed over by the walk below b, or is one of the files rels.       *)
Covered(repo, b, rels, p) ==
  \/ Kind(repo, p) = "dir"
  \/ Last(p) = ".DS_Store"
  \/ /\ Len(p) = Len(b) + 1
     /\ Last(p) \in {"README.md", "SHA256SUMS", "SHA256SUMS.sig"}
  \/ /\ Kind(repo, p) = "file"
     /\ \E rel \in rels : p = b \o rel

(* The walk finds nothing exactly if every file below the bundle is either *)
(* passed over or among those listed.                                      *)
LEMMA RawIs ==
  ASSUME NEW repo, IsRepo(repo), NEW b \in Ref, NEW rels \in SUBSET Ref
  PROVE  /\ bundleRawFiles(repo, b).findings = {}
         /\ bundleRawFiles(repo, b).files \ rels = {}
         <=> \A p \in Below(repo, b) : Covered(repo, b, rels, p)
<1> DEFINE walked == {p \in Below(repo, b) : ~ignoredBundleEntry(Rel(b, p))}
           special == {q \in walked : Kind(repo, q) \in {"link", "pipe"}}
           files == {Rel(b, p) : p \in {q \in walked : Kind(repo, q) = "file"}}
           W == bundleRawFiles(repo, b)
<1> HIDE DEF W
<1>1. W = [files |-> files, findings |-> {Finding(p, "not a regular file") : p \in special}]
  BY Zenon DEF bundleRawFiles, W
<1>6. \A f : f \in files <=> \E p \in walked : Kind(repo, p) = "file" /\ f = Rel(b, p)
  OBVIOUS
<1>7. \A p : p \in special <=> p \in walked /\ Kind(repo, p) \in {"link", "pipe"}
  OBVIOUS
<1> HIDE DEF files, special
<1>2. W.files = files /\ (W.findings = {} <=> special = {})
  BY <1>1
<1>3. ASSUME NEW p \in Below(repo, b)
      PROVE  p \notin walked <=>
               \/ Last(p) = ".DS_Store"
               \/ Len(p) = Len(b) + 1 /\ Last(p) \in {"README.md", "SHA256SUMS", "SHA256SUMS.sig"}
  <2>1. PICK q : q = Rel(b, p)
    OBVIOUS
  <2>2. q \in Ref /\ Len(q) = Len(p) - Len(b) /\ Last(q) = Last(p) /\ Len(p) > Len(b)
    BY <2>1, BelowFacts
  <2>3. p \notin walked <=> ignoredBundleEntry(q)
    BY <2>1
  <2>4. Len(q) \in Nat /\ Len(b) \in Nat /\ Len(q) = Len(p) - Len(b) /\ p \in Ref
    BY <2>2, RefFacts, KindFacts DEF Below
  <2>7. Len(p) \in Nat
    BY <2>4, RefFacts
  <2>5. Len(q) = 1 <=> Len(p) = Len(b) + 1
    BY <2>4, <2>7
  <2>6. ignoredBundleEntry(q) <=>
           \/ Last(q) = ".DS_Store"
           \/ Len(q) = 1 /\ Last(q) \in {"README.md", "SHA256SUMS", "SHA256SUMS.sig"}
    BY <2>2, ControlIs
  <2> HIDE DEF walked
  <2> QED
    BY <2>2, <2>3, <2>5, <2>6, Zenon
<1>4. ASSUME NEW p \in Below(repo, b)
      PROVE  /\ Kind(repo, p) \in {"dir", "file", "link", "pipe"}
             /\ Rel(b, p) \in rels <=> \E rel \in rels : p = b \o rel
  <2>1. p \in DOMAIN repo
    BY DEF Below
  <2>2. Kind(repo, p) \in {"dir", "file", "link", "pipe"}
    BY <2>1, KindFacts
  <2>3. \A rel \in Ref : Rel(b, p) = rel <=> p = b \o rel
    BY BelowFacts, SMTT(60)
  <2> QED
    BY <2>2, <2>3
<1>8. \A p \in walked : p \in Below(repo, b)
  OBVIOUS
<1> HIDE DEF walked
<1>5. (special = {} /\ files \ rels = {}) <=>
        \A p \in Below(repo, b) :
          p \notin walked \/ Kind(repo, p) = "dir" \/ (Kind(repo, p) = "file" /\ Rel(b, p) \in rels)
  <2>1. ASSUME special = {}, files \ rels = {}, NEW p \in Below(repo, b)
        PROVE  p \notin walked \/ Kind(repo, p) = "dir" \/ (Kind(repo, p) = "file" /\ Rel(b, p) \in rels)
    BY <2>1, <1>4, <1>6, <1>7
  <2>2. ASSUME \A p \in Below(repo, b) :
                 p \notin walked \/ Kind(repo, p) = "dir" \/ (Kind(repo, p) = "file" /\ Rel(b, p) \in rels)
        PROVE  special = {} /\ files \ rels = {}
    <3>1. \A p \in special : FALSE
      BY <2>2, <1>7, <1>8
    <3>2. \A f \in files : f \in rels
      BY <2>2, <1>6, <1>8
    <3> QED
      BY <3>1, <3>2
  <2> QED
    BY <2>1, <2>2
<1>9. (W.findings = {} /\ W.files \ rels = {}) <=>
        \A p \in Below(repo, b) : Covered(repo, b, rels, p)
  <2>1. (W.findings = {} /\ W.files \ rels = {}) <=> (special = {} /\ files \ rels = {})
    BY <1>2, Zenon
  <2> QED
    BY <2>1, <1>3, <1>4, <1>5, Zenon DEF Covered
<1> QED
  BY <1>9 DEF W

(* The lines of an intact bundle's SHA256SUMS, and the files they cover.   *)
ListedFiles(repo, b, lines) ==
  /\ Used(lines) # {}
  /\ \A i \in Used(lines) :
       /\ lines[i].form = "text" /\ lines[i].hex /\ ~lines[i].marked
       /\ \A n \in DOMAIN lines[i].rel : lines[i].rel[n] \notin OddPart
       /\ Kind(repo, b \o lines[i].rel) = "file"
       /\ repo[b \o lines[i].rel].body = lines[i].hash
  /\ \A i, j \in Used(lines) : lines[i].rel = lines[j].rel => i = j
  /\ \A p \in Below(repo, b) :
       \/ Kind(repo, p) = "dir"
       \/ Last(p) = ".DS_Store"
       \/ /\ Len(p) = Len(b) + 1
          /\ Last(p) \in {"README.md", "SHA256SUMS", "SHA256SUMS.sig"}
       \/ /\ Kind(repo, p) = "file"
          /\ \E i \in Used(lines) : p = b \o lines[i].rel

(* What the check wants of a bundle with a SHA256SUMS.                     *)
ListAccepted(repo, b, lines, path) ==
  LET sums == parseSHA256SUMS(lines, path)
      raw == bundleRawFiles(repo, b)
  IN  /\ sums.findings = {}
      /\ sums.entries # {}
      /\ \A e \in sums.entries : verifySHA256Entry(repo, b, e) = {}
      /\ raw.findings = {}
      /\ raw.files \ {e.rel : e \in sums.entries} = {}

(* A bundle with a SHA256SUMS is accepted exactly if it is intact.         *)
LEMMA ListedIs ==
  ASSUME NEW repo, IsRepo(repo), NEW b, IsBundle(b),
         NEW path, path = b \o <<"SHA256SUMS">>, Kind(repo, path) = "file",
         NEW lines, lines = repo[path].body
  PROVE  ListAccepted(repo, b, lines, path) <=> ListedFiles(repo, b, lines)
<1>1. /\ DOMAIN lines \in SUBSET Nat
      /\ \A i \in DOMAIN lines : /\ lines[i].form \in {"text", "blank", "binary", "other"}
                                 /\ lines[i].rel \in Ref
  BY SumsTyped, ZenonT(60)
<1>2. b \in Ref
  BY DEF IsBundle
<1> DEFINE U == Used(lines)
           sums == parseSHA256SUMS(lines, path)
           raw == bundleRawFiles(repo, b)
<1>4. \A i \in U : lines[i].rel \in Ref
  BY <1>1 DEF Used
<1>3. /\ sums.findings = {} <=> GoodLines(lines)
      /\ sums.findings = {} => sums.entries = {lines[i] : i \in U}
  BY <1>1, SumsAre, SMTT(60)
<1> HIDE DEF sums
<1>6. /\ sums.findings = {} <=>
              /\ \A i \in U :
                   /\ lines[i].form = "text" /\ lines[i].hex /\ ~lines[i].marked
                   /\ safeBundleRelativePath(lines[i].rel)
              /\ \A i, j \in U : lines[i].rel = lines[j].rel => i = j
      /\ sums.findings = {} => sums.entries = {lines[i] : i \in U}
  BY <1>3, Zenon DEF GoodLines
<1> HIDE DEF U
<1>7. PICK rels : rels = {lines[i].rel : i \in U}
  OBVIOUS
<1>8. rels \in SUBSET Ref
  BY <1>4, <1>7
<1>9. ASSUME NEW p PROVE (\E rel \in rels : p = b \o rel) <=> \E i \in U : p = b \o lines[i].rel
  BY <1>7
<1> DEFINE Seen(p) == \/ Kind(repo, p) = "dir"
                  \/ Last(p) = ".DS_Store"
                  \/ /\ Len(p) = Len(b) + 1
                     /\ Last(p) \in {"README.md", "SHA256SUMS", "SHA256SUMS.sig"}
                  \/ /\ Kind(repo, p) = "file"
                     /\ \E i \in U : p = b \o lines[i].rel
<1>11. (raw.findings = {} /\ raw.files \ rels = {}) <=> \A p \in Below(repo, b) : Seen(p)
  <2>1. (raw.findings = {} /\ raw.files \ rels = {}) <=> \A p \in Below(repo, b) : Covered(repo, b, rels, p)
    BY <1>2, <1>8, RawIs
  <2>2. ASSUME NEW p PROVE Covered(repo, b, rels, p) <=> Seen(p)
    BY <1>9, Zenon DEF Covered
  <2> HIDE DEF raw, Seen
  <2> QED
    BY <2>1, <2>2, Zenon
<1> HIDE DEF Seen, raw
<1>12. ASSUME NEW i \in U
       PROVE  verifySHA256Entry(repo, b, lines[i]) = {} <=>
                /\ Kind(repo, b \o lines[i].rel) = "file"
                /\ repo[b \o lines[i].rel].body = lines[i].hash
  <2>1. PICK e : e = lines[i]
    OBVIOUS
  <2>2. e.rel \in Ref
    BY <2>1, <1>4
  <2>3. verifySHA256Entry(repo, b, e) = {} <=>
           Kind(repo, b \o e.rel) = "file" /\ repo[b \o e.rel].body = e.hash
    BY <2>2, <1>2, EntryIs
  <2> QED
    BY <2>1, <2>3, Zenon
<1>13. ASSUME sums.findings = {}
       PROVE  /\ sums.entries = {} <=> U = {}
              /\ (\A e \in sums.entries : verifySHA256Entry(repo, b, e) = {}) <=>
                   \A i \in U : verifySHA256Entry(repo, b, lines[i]) = {}
              /\ {e.rel : e \in sums.entries} = rels
  <2>1. sums.entries = {lines[i] : i \in U}
    BY <1>6, <1>13, Zenon
  <2>2. \A e : e \in sums.entries <=> \E i \in U : e = lines[i]
    BY <2>1
  <2>3. ASSUME NEW i \in U PROVE lines[i] \in sums.entries
    BY <2>2
  <2>4. sums.entries = {} <=> U = {}
    BY <2>2, <2>3
  <2>5. (\A e \in sums.entries : verifySHA256Entry(repo, b, e) = {}) <=>
                   \A i \in U : verifySHA256Entry(repo, b, lines[i]) = {}
    BY <2>2, <2>3
  <2>6. \A r : r \in {e.rel : e \in sums.entries} <=> \E e \in sums.entries : r = e.rel
    OBVIOUS
  <2>7. \A r : r \in rels <=> \E i \in U : r = lines[i].rel
    BY <1>7
  <2>8. \A r : r \in {e.rel : e \in sums.entries} <=> r \in rels
    BY <2>2, <2>3, <2>6, <2>7, SMTT(60)
  <2>9. {e.rel : e \in sums.entries} = rels
    BY <2>8
  <2> QED
    BY <2>4, <2>5, <2>9
<1>14. ASSUME NEW i \in U, Kind(repo, b \o lines[i].rel) = "file"
       PROVE  safeBundleRelativePath(lines[i].rel) <=>
                \A n \in DOMAIN lines[i].rel : lines[i].rel[n] \notin OddPart
  <2>1. PICK rel : rel = lines[i].rel
    OBVIOUS
  <2>2. rel \in Ref
    BY <2>1, <1>4
  <2>3. PICK p : p = b \o rel
    OBVIOUS
  <2>4. p \in DOMAIN repo
    BY <1>14, <2>1, <2>3, KindFacts
  <2>5. IsNode(p, repo[p]) /\ p \in Ref
    BY <2>4, KindFacts DEF IsRepo
  <2>6. b \in Seq(STRING) /\ rel \in Seq(STRING) /\ Len(b) = 3 /\ Len(rel) \in Nat
        /\ DOMAIN rel = 1..Len(rel)
    BY <1>2, <2>2, RefFacts DEF IsBundle
  <2>12. b \in Seq(STRING) /\ rel \in Seq(STRING)
    BY <2>6
  <2>11. Len(b \o rel) = Len(b) + Len(rel) /\ \A n \in 1..Len(rel) : (b \o rel)[Len(b) + n] = rel[n]
    BY <2>12, Joined
  <2>7. Len(p) = Len(b) + Len(rel) /\ \A n \in 1..Len(rel) : p[Len(b) + n] = rel[n]
    BY <2>3, <2>11, Zenon
  <2>8. ASSUME NEW n \in DOMAIN rel PROVE rel[n] \notin {"", ".", ".."}
    <3>1. n \in 1..Len(rel) /\ 3 + n \in 1..3 + Len(rel)
      BY <2>6
    <3>2. Len(p) = 3 + Len(rel) /\ p[3 + n] = rel[n]
      BY <3>1, <2>6, <2>7
    <3>3. 3 + n \in DOMAIN p
      BY <3>1, <3>2, <2>5, RefFacts
    <3> QED
      BY <3>2, <3>3, <2>5 DEF IsNode
  <2>9. safeBundleRelativePath(rel) <=> \A n \in DOMAIN rel : rel[n] \notin UnsafePart
    BY DEF safeBundleRelativePath, safeSlashPath
  <2>10. safeBundleRelativePath(rel) <=> \A n \in DOMAIN rel : rel[n] \notin OddPart
    BY <2>8, <2>9 DEF UnsafePart
  <2> QED
    BY <2>1, <2>10, Zenon
<1>15. ASSUME sums.findings = {}, sums.entries # {},
              \A e \in sums.entries : verifySHA256Entry(repo, b, e) = {},
              raw.findings = {}, raw.files \ {e.rel : e \in sums.entries} = {}
       PROVE /\ U # {}
             /\ \A i \in U :
                  /\ lines[i].form = "text" /\ lines[i].hex /\ ~lines[i].marked
                  /\ \A n \in DOMAIN lines[i].rel : lines[i].rel[n] \notin OddPart
                  /\ Kind(repo, b \o lines[i].rel) = "file"
                  /\ repo[b \o lines[i].rel].body = lines[i].hash
             /\ \A i, j \in U : lines[i].rel = lines[j].rel => i = j
             /\ \A p \in Below(repo, b) : Seen(p)
  <2>1. U # {} /\ (\A i \in U : verifySHA256Entry(repo, b, lines[i]) = {})
        /\ {e.rel : e \in sums.entries} = rels
    BY <1>13, <1>15, Zenon
  <2>2. \A p \in Below(repo, b) : Seen(p)
    BY <2>1, <1>11, <1>15
  <2>3. \A i \in U : /\ lines[i].form = "text" /\ lines[i].hex /\ ~lines[i].marked
                     /\ safeBundleRelativePath(lines[i].rel)
    BY <1>6, <1>15, Zenon
  <2>4. \A i, j \in U : lines[i].rel = lines[j].rel => i = j
    BY <1>6, <1>15, Zenon
  <2>5. \A i \in U : Kind(repo, b \o lines[i].rel) = "file" /\ repo[b \o lines[i].rel].body = lines[i].hash
    BY <2>1, <1>12, Zenon
  <2>6. \A i \in U : \A n \in DOMAIN lines[i].rel : lines[i].rel[n] \notin OddPart
    BY <2>3, <2>5, <1>14, Zenon
  <2> QED
    BY <2>1, <2>2, <2>3, <2>4, <2>5, <2>6, Zenon
<1>16. ASSUME U # {},
              \A i \in U :
                  /\ lines[i].form = "text" /\ lines[i].hex /\ ~lines[i].marked
                  /\ \A n \in DOMAIN lines[i].rel : lines[i].rel[n] \notin OddPart
                  /\ Kind(repo, b \o lines[i].rel) = "file"
                  /\ repo[b \o lines[i].rel].body = lines[i].hash,
              \A i, j \in U : lines[i].rel = lines[j].rel => i = j,
              \A p \in Below(repo, b) : Seen(p)
       PROVE  /\ sums.findings = {} /\ sums.entries # {}
              /\ \A e \in sums.entries : verifySHA256Entry(repo, b, e) = {}
              /\ raw.findings = {} /\ raw.files \ {e.rel : e \in sums.entries} = {}
  <2>1. \A i \in U : safeBundleRelativePath(lines[i].rel)
    BY <1>14, <1>16, Zenon
  <2>2. sums.findings = {}
    BY <2>1, <1>6, <1>16, Zenon
  <2>3. \A i \in U : verifySHA256Entry(repo, b, lines[i]) = {}
    BY <1>12, <1>16, Zenon
  <2>4. /\ sums.entries # {} /\ {e.rel : e \in sums.entries} = rels
        /\ \A e \in sums.entries : verifySHA256Entry(repo, b, e) = {}
    BY <2>2, <2>3, <1>13, <1>16, Zenon
  <2>5. raw.findings = {} /\ raw.files \ rels = {}
    BY <1>11, <1>16, Zenon
  <2> QED
    BY <2>2, <2>4, <2>5, Zenon
<1>17. (/\ sums.findings = {}
        /\ sums.entries # {}
        /\ \A e \in sums.entries : verifySHA256Entry(repo, b, e) = {}
        /\ raw.findings = {}
        /\ raw.files \ {e.rel : e \in sums.entries} = {})
       <=>
       (/\ U # {}
        /\ \A i \in U :
             /\ lines[i].form = "text" /\ lines[i].hex /\ ~lines[i].marked
             /\ \A n \in DOMAIN lines[i].rel : lines[i].rel[n] \notin OddPart
             /\ Kind(repo, b \o lines[i].rel) = "file"
             /\ repo[b \o lines[i].rel].body = lines[i].hash
        /\ \A i, j \in U : lines[i].rel = lines[j].rel => i = j
        /\ \A p \in Below(repo, b) : Seen(p))
  BY <1>15, <1>16, Zenon
<1> QED
  BY <1>17, ZenonT(60) DEF ListAccepted, ListedFiles, Seen, U, sums, raw

(* An intact bundle, with what its SHA256SUMS promises as one operator.    *)
LEMMA IntactBundleIs ==
  ASSUME NEW repo, NEW b
  PROVE  IntactBundle(repo, b) <=>
           /\ Kind(repo, b) = "dir"
           /\ \A i \in DOMAIN b : b[i] \notin OddPart
           /\ Kind(repo, b \o <<"README.md">>) = "file"
           /\ Kind(repo, b \o <<"SHA256SUMS.sig">>) \in {"missing", "file"}
           /\ Kind(repo, b \o <<"SHA256SUMS">>) = "file"
           /\ ListedFiles(repo, b, repo[b \o <<"SHA256SUMS">>].body)
  BY Zenon DEF IntactBundle, ListedFiles, Used

(* p can be the path of something that exists.                             *)
NoDots(p) == \A i \in DOMAIN p : p[i] \notin {"", ".", ".."}

(* A bundle is accepted exactly if it is intact (checkBundle).             *)
LEMMA BundleIs ==
  ASSUME NEW repo, IsRepo(repo), NEW b, IsBundle(b), NoDots(b)
  PROVE  checkBundle(repo, b) = {} <=> IntactBundle(repo, b)
<1> DEFINE at == lstatRepoRelative(repo, b)
           sumPath == b \o <<"SHA256SUMS">>
           readme == validateBundleControlFile(repo, b \o <<"README.md">>)
           sig == validateOptionalBundleControlFile(repo, b \o <<"SHA256SUMS.sig">>)
           own == validateBundleControlFile(repo, sumPath)
           control == readme \cup sig \cup own
           sums == parseSHA256SUMS(repo[sumPath].body, sumPath)
           raw == bundleRawFiles(repo, b)
           verified == UNION {verifySHA256Entry(repo, b, e) : e \in sums.entries}
           uncovered == {Finding(b \o f, "not covered") : f \in raw.files \ {e.rel : e \in sums.entries}}
           listed == sums.findings \cup Report(sums.entries = {}, sumPath, "no checksum entries")
                     \cup verified \cup raw.findings \cup uncovered
<1>1. b \in Ref /\ Len(b) = 3 /\ DOMAIN b = 1..3 /\ Last(b) = b[3]
  BY RefFacts, LastIs DEF IsBundle
<1>2. (at.findings = {} /\ at.kind = "dir") <=>
         Kind(repo, b) = "dir" /\ \A i \in DOMAIN b : b[i] \notin OddPart
  <2>7. 3 \in 1..3
    OBVIOUS
  <2>6. 3 \in DOMAIN b
    BY <1>1, <2>7, Zenon
  <2>1. Last(b) # ""
    BY <1>1, <2>6, Zenon DEF NoDots
  <2>2. TrimSlash(b) = b
    BY <2>1 DEF TrimSlash
  <2>3. safeRepoRelativeRef(b) <=> Clean(b)
    BY <1>1, <2>2, SafeIs
  <2>4. Clean(b) <=> \A i \in DOMAIN b : b[i] \notin OddPart
    BY <1>1 DEF Clean, UnsafePart, NoDots
  <2>5. (at.findings = {} /\ at.kind = "dir") <=> safeRepoRelativeRef(b) /\ Kind(repo, b) = "dir"
    BY <2>2, LookedUp
  <2> QED
    BY <2>3, <2>4, <2>5, Zenon
<1>3. control = {} <=>
        /\ Kind(repo, b \o <<"README.md">>) = "file"
        /\ Kind(repo, b \o <<"SHA256SUMS.sig">>) \in {"missing", "file"}
        /\ Kind(repo, sumPath) = "file"
  BY DEF validateBundleControlFile, validateOptionalBundleControlFile, Report
<1>4. Kind(repo, sumPath) = "file" =>
        (/\ sums.findings = {}
         /\ sums.entries # {}
         /\ \A e \in sums.entries : verifySHA256Entry(repo, b, e) = {}
         /\ raw.findings = {}
         /\ raw.files \ {e.rel : e \in sums.entries} = {}
         <=> ListedFiles(repo, b, repo[sumPath].body))
  <2> SUFFICES ASSUME Kind(repo, sumPath) = "file"
               PROVE  ListAccepted(repo, b, repo[sumPath].body, sumPath) <=> ListedFiles(repo, b, repo[sumPath].body)
    BY Zenon DEF ListAccepted
  <2> QED
    BY ListedIs
<1>5. checkBundle(repo, b) =
        IF at.findings # {} THEN at.findings
        ELSE IF at.kind # "dir" THEN {Finding(b, "root is not a directory")}
        ELSE IF Kind(repo, sumPath) # "file" THEN control
        ELSE control \cup sums.findings \cup Report(sums.entries = {}, sumPath, "no checksum entries")
                     \cup verified \cup raw.findings \cup uncovered
  BY Zenon DEF checkBundle
<1>6. verified = {} <=> \A e \in sums.entries : verifySHA256Entry(repo, b, e) = {}
  OBVIOUS
<1>7. uncovered = {} <=> raw.files \ {e.rel : e \in sums.entries} = {}
  BY Zenon
<1>8. Report(sums.entries = {}, sumPath, "no checksum entries") = {} <=> sums.entries # {}
  BY DEF Report
<1>9. IntactBundle(repo, b) <=>
        /\ Kind(repo, b) = "dir" /\ \A i \in DOMAIN b : b[i] \notin OddPart
        /\ control = {}
        /\ ListedFiles(repo, b, repo[sumPath].body)
  BY <1>3, IntactBundleIs, Zenon
<1>10. PICK unlisted : unlisted = Report(sums.entries = {}, sumPath, "no checksum entries")
  OBVIOUS
<1> HIDE DEF at, control, sums, raw, verified, uncovered, sumPath
<1>11. ASSUME at.findings = {}, at.kind = "dir", Kind(repo, sumPath) = "file"
       PROVE  checkBundle(repo, b) = {} <=> control = {} /\ ListedFiles(repo, b, repo[sumPath].body)
  <2>1. checkBundle(repo, b) = control \cup sums.findings \cup unlisted \cup verified
                               \cup raw.findings \cup uncovered
    BY <1>5, <1>10, <1>11, Zenon
  <2>2. checkBundle(repo, b) = {} <=>
          /\ control = {} /\ sums.findings = {} /\ unlisted = {} /\ verified = {}
          /\ raw.findings = {} /\ uncovered = {}
    BY <2>1
  <2> QED
    BY <2>2, <1>4, <1>6, <1>7, <1>8, <1>10, <1>11, Zenon
<1>12. ASSUME at.findings = {}, at.kind = "dir", Kind(repo, sumPath) # "file"
       PROVE  checkBundle(repo, b) # {} /\ control # {}
  BY <1>3, <1>5, <1>12, Zenon
<1>13. ASSUME ~(at.findings = {} /\ at.kind = "dir") PROVE checkBundle(repo, b) # {}
  BY <1>5, <1>13, Zenon
<1> QED
  BY <1>2, <1>9, <1>11, <1>12, <1>13, Zenon

----------------------------------------------------------------------------
(* The rows                                                                *)

(* A clean path can be the path of something that exists.                  *)
LEMMA CleanNoDots ==
  ASSUME NEW p, Clean(p) PROVE p \in Ref /\ NoDots(p)
  BY RefFacts DEF Clean, NoDots, UnsafePart

(* The bundle a path below docs/evidence lies in.                          *)
LEMMA BundleOfPath ==
  ASSUME NEW p \in Ref, Len(p) >= 3, SubSeq(p, 1, 2) = EvidenceDir, NoDots(p), NEW b, b = SubSeq(p, 1, 3)
  PROVE  IsBundle(b) /\ NoDots(b)
<1>1. PICK n \in Nat : n = Len(p) /\ n >= 3
  BY RefFacts
<1>2. 1 \in 1..Len(p) /\ 3 \in 1..Len(p) /\ 3 - 1 + 1 = 3
  BY <1>1
<1>3. b \in Ref /\ Len(b) = 3 /\ \A i \in 1..3 : b[i] = p[1 + i - 1]
  BY <1>2, Slice
<1>4. 1 \in 1..3 /\ 2 \in 1..3 /\ 1 + 1 - 1 = 1 /\ 1 + 2 - 1 = 2
  OBVIOUS
<1>5. b[1] = p[1] /\ b[2] = p[2]
  BY <1>3, <1>4
<1>6. Len(p) >= 2 /\ Len(b) >= 2
  BY <1>1, <1>3
<1>7. SubSeq(b, 1, 2) = EvidenceDir
  BY <1>3, <1>5, <1>6, InEvidence
<1>8. DOMAIN b = 1..3 /\ DOMAIN p = 1..n
  BY <1>1, <1>3, RefFacts
<1>9. ASSUME NEW i \in DOMAIN b PROVE b[i] = p[i] /\ i \in DOMAIN p
  BY <1>1, <1>3, <1>8
<1>10. NoDots(b)
  BY <1>9, Zenon DEF NoDots
<1> QED
  BY <1>3, <1>7, <1>10 DEF IsBundle

(* r leads somewhere in docs/evidence.                                     *)
RawTarget(r) == Len(r) >= 3 /\ SubSeq(r, 1, 2) = EvidenceDir

(* A reference leads into docs/evidence exactly if its path does;          *)
(* docs/evidence itself counts with a final slash.                         *)
LEMMA RawTargetIs ==
  ASSUME NEW r \in Ref, NEW p, p = TrimSlash(r), Clean(p)
  PROVE  RawTarget(r) <=>
           /\ Len(p) >= 2 /\ SubSeq(p, 1, 2) = EvidenceDir
           /\ Len(p) > 2 \/ Last(r) = ""
<1>1. PICK n \in Nat : n = Len(r) /\ n >= 1
  BY RefFacts
<1>2. CASE Last(r) # ""
  <2>1. p = r
    BY <1>2 DEF TrimSlash
  <2>2. Len(p) > 2 <=> Len(r) >= 3
    BY <1>1, <2>1
  <2>3. Len(p) > 2 => Len(p) >= 2
    BY <1>1, <2>1
  <2> QED
    BY <1>2, <2>1, <2>2, <2>3, Zenon DEF RawTarget
<1>3. CASE Last(r) = ""
  <2>1. p = Front(r)
    BY <1>3 DEF TrimSlash
  <2>2. n # 1
    <3> SUFFICES ASSUME n = 1 PROVE FALSE
      OBVIOUS
    <3>1. SubSeq(r, 1, 0) = <<>>
      BY SubSeqEmpty
    <3>2. Len(r) - 1 = 0
      BY <1>1
    <3>3. p = <<>>
      BY <2>1, <3>1, <3>2 DEF Front
    <3>4. p \in Ref
      BY DEF Clean
    <3> QED
      BY <3>3, <3>4 DEF Ref
  <2>3. n > 1 /\ Len(r) > 1
    BY <2>2, <1>1
  <2>4. p \in Ref /\ Len(p) = n - 1 /\ \A i \in 1..n - 1 : p[i] = r[i]
    BY <1>1, <2>1, <2>3, FrontFacts
  <2>5. Len(p) >= 2 <=> Len(r) >= 3
    BY <1>1, <2>4
  <2>6. ASSUME Len(p) >= 2 PROVE SubSeq(p, 1, 2) = EvidenceDir <=> SubSeq(r, 1, 2) = EvidenceDir
    <3>1. 1 \in 1..n - 1 /\ 2 \in 1..n - 1 /\ Len(r) >= 2
      BY <1>1, <2>4, <2>6
    <3>2. p[1] = r[1] /\ p[2] = r[2]
      BY <3>1, <2>4
    <3>3. SubSeq(p, 1, 2) = EvidenceDir <=> p[1] = "docs" /\ p[2] = "evidence"
      BY <2>4, <2>6, InEvidence
    <3>4. SubSeq(r, 1, 2) = EvidenceDir <=> r[1] = "docs" /\ r[2] = "evidence"
      BY <3>1, InEvidence
    <3> QED
      BY <3>2, <3>3, <3>4, Zenon
  <2> QED
    BY <1>3, <2>5, <2>6, Zenon DEF RawTarget
<1> QED
  BY <1>2, <1>3

(* A reference of a raw cell is good exactly if the check accepts what it  *)
(* leads to, and the bundle it leads into.                                 *)
LEMMA GoodRawIs ==
  ASSUME NEW repo, IsRepo(repo), NEW ref \in Ref, NEW r, r = trimLeadingDotSlash(ref)
  PROVE  GoodRaw(repo, ref) <=>
           (safeRepoRelativeRef(r) /\ RawTarget(r) =>
              /\ Kind(repo, TrimSlash(r)) \notin {"missing", "link"}
              /\ \A b \in evidenceBundleForRef(repo, r) : checkBundle(repo, b) = {})
<1>1. r \in Ref /\ Last(r) = Last(ref)
  BY TrimType, LastOfTrimmed
<1>2. CASE ~safeRepoRelativeRef(r)
  <2>1. Named(ref) = {}
    BY <1>2, NamedIs
  <2> QED
    BY <2>1, <1>2, Zenon DEF GoodRaw
<1>3. CASE safeRepoRelativeRef(r)
  <2>1. PICK p : p = TrimSlash(r)
    OBVIOUS
  <2>2. Named(ref) = {p}
    BY <1>3, <2>1, NamedIs
  <2>3. Clean(p) /\ p \in Ref /\ NoDots(p)
    BY <1>1, <1>3, <2>1, SafeIs, CleanNoDots
  <2>4. RawTarget(r) <=> /\ Len(p) >= 2 /\ SubSeq(p, 1, 2) = EvidenceDir
                         /\ Len(p) > 2 \/ Last(r) = ""
    BY <1>1, <2>1, <2>3, RawTargetIs
  <2> DEFINE enters == Len(p) > 3 \/ (Len(p) = 3 /\ (Kind(repo, p) = "dir" \/ Last(r) = ""))
             inBundle == \/ Kind(repo, p) \in {"dir", "link"}
                         \/ Last(r) = ""
                         \/ Len(p) >= 4
  <2>5. GoodRaw(repo, ref) <=>
          (RawTarget(r) => /\ Kind(repo, p) \notin {"missing", "link"}
                           /\ enters => IntactBundle(repo, SubSeq(p, 1, 3)))
    BY <2>2, <2>4, <1>1, Zenon DEF GoodRaw
  <2>6. evidenceBundleForRef(repo, r) = IF Len(p) >= 3 /\ inBundle THEN {SubSeq(p, 1, 3)} ELSE {}
    BY <2>1 DEF evidenceBundleForRef
  <2>7. PICK n \in Nat : n = Len(p)
    BY <2>3, RefFacts
  <2>8. (Len(p) > 3 <=> Len(p) >= 4) /\ (Len(p) >= 3 <=> Len(p) > 3 \/ Len(p) = 3)
    BY <2>7
  <2>9. Kind(repo, p) # "link" => (enters <=> Len(p) >= 3 /\ inBundle)
    BY <2>8
  <2> HIDE DEF enters, inBundle
  <2>10. ASSUME RawTarget(r), enters, Len(p) >= 3
         PROVE  checkBundle(repo, SubSeq(p, 1, 3)) = {} <=> IntactBundle(repo, SubSeq(p, 1, 3))
    <3>1. PICK b : b = SubSeq(p, 1, 3)
      OBVIOUS
    <3>2. IsBundle(b) /\ NoDots(b)
      BY <2>3, <2>4, <2>10, <3>1, BundleOfPath
    <3>3. checkBundle(repo, b) = {} <=> IntactBundle(repo, b)
      BY <3>2, BundleIs
    <3> QED
      BY <3>1, <3>3, Zenon
  <2>11. ASSUME RawTarget(r), Kind(repo, p) \notin {"missing", "link"}
         PROVE  (enters => IntactBundle(repo, SubSeq(p, 1, 3))) <=>
                  \A b \in evidenceBundleForRef(repo, r) : checkBundle(repo, b) = {}
    <3>1. enters <=> Len(p) >= 3 /\ inBundle
      BY <2>9, <2>11, Zenon
    <3>2. CASE enters
      <4>1. evidenceBundleForRef(repo, r) = {SubSeq(p, 1, 3)}
        BY <3>1, <3>2, <2>6, Zenon
      <4> QED
        BY <4>1, <3>1, <3>2, <2>10, <2>11, Zenon
    <3>3. CASE ~enters
      <4>1. evidenceBundleForRef(repo, r) = {}
        BY <3>1, <3>3, <2>6, Zenon
      <4> QED
        BY <4>1, <3>3, Zenon
    <3> QED
      BY <3>2, <3>3
  <2> QED
    BY <1>3, <2>1, <2>5, <2>11, Zenon
<1> QED
  BY <1>2, <1>3

(* The references of a raw-evidence cell are good exactly if the check     *)
(* accepts each one it keeps, and the bundle of each.                      *)
LEMMA RawCellIs ==
  ASSUME NEW repo, IsRepo(repo), NEW cell \in SUBSET Ref
  PROVE  (\A ref \in cell : GoodRaw(repo, ref)) <=>
           \A r \in evidenceRefs(cell).refs :
             /\ RefFindings(repo, r, {"missing", "link"}) = {}
             /\ \A b \in evidenceBundleForRef(repo, r) : checkBundle(repo, b) = {}
<1> DEFINE refuse == {"missing", "link"}
           Sound(r) == /\ Kind(repo, TrimSlash(r)) \notin refuse
                       /\ \A b \in evidenceBundleForRef(repo, r) : checkBundle(repo, b) = {}
<1>1. \A r : r \in evidenceRefs(cell).refs <=> r \in CellRefs(cell) /\ RawTarget(r) /\ safeRepoRelativeRef(r)
  BY RawKept, Zenon DEF RawTarget
<1>2. ASSUME NEW r \in evidenceRefs(cell).refs
      PROVE  RefFindings(repo, r, refuse) = {} <=> Kind(repo, TrimSlash(r)) \notin refuse
  <2>1. "missing" \in refuse
    BY Zenon
  <2> HIDE DEF refuse
  <2> QED
    BY <2>1, <1>1, RefAccepted
<1>3. ASSUME NEW ref \in cell
      PROVE  GoodRaw(repo, ref) <=>
               (trimLeadingDotSlash(ref) \in evidenceRefs(cell).refs => Sound(trimLeadingDotSlash(ref)))
  <2>1. PICK r : r = trimLeadingDotSlash(ref)
    OBVIOUS
  <2>2. r \in CellRefs(cell) /\ ref \in Ref
    BY <2>1 DEF CellRefs
  <2>3. GoodRaw(repo, ref) <=> (safeRepoRelativeRef(r) /\ RawTarget(r) => Sound(r))
    BY <2>1, <2>2, GoodRawIs
  <2> HIDE DEF Sound
  <2> QED
    BY <2>1, <2>2, <2>3, <1>1, Zenon
<1>4. ASSUME NEW r \in evidenceRefs(cell).refs PROVE \E ref \in cell : r = trimLeadingDotSlash(ref)
  BY <1>1 DEF CellRefs
<1>5. (\A ref \in cell : GoodRaw(repo, ref)) <=> \A r \in evidenceRefs(cell).refs : Sound(r)
  <2> HIDE DEF Sound
  <2> QED
    BY <1>3, <1>4
<1> QED
  BY <1>2, <1>5, Zenon

(* When no reference of a row is reported, the bundles checked for the row *)
(* are those of all its references.                                        *)
LEMMA Referenced ==
  ASSUME NEW repo, NEW row,
         \A r \in evidenceRefs(row.raw).refs : RefFindings(repo, r, {"missing", "link"}) = {}
  PROVE  (\A b \in referencedBundles(repo, row) : checkBundle(repo, b) = {}) <=>
           \A r \in evidenceRefs(row.raw).refs :
             \A b \in evidenceBundleForRef(repo, r) : checkBundle(repo, b) = {}
<1> DEFINE Found(r) == LET at == lstatRepoRelative(repo, r) IN at.findings = {} /\ at.kind # "missing"
           refuse == {"missing", "link"}
<1>1. \A b : b \in referencedBundles(repo, row) <=>
        \E r \in evidenceRefs(row.raw).refs : Found(r) /\ b \in evidenceBundleForRef(repo, r)
  <2> HIDE DEF Found
  <2>1. referencedBundles(repo, row) =
          UNION {evidenceBundleForRef(repo, ref) : ref \in {r \in evidenceRefs(row.raw).refs : Found(r)}}
    BY Zenon DEF referencedBundles, Found
  <2> QED
    BY <2>1
<1>2. ASSUME NEW r \in evidenceRefs(row.raw).refs PROVE Found(r)
  <2>1. PICK at : at = lstatRepoRelative(repo, r)
    OBVIOUS
  <2>2. RefFindings(repo, r, refuse) = {}
    OBVIOUS
  <2>3. at.findings = {} /\ at.kind \notin refuse
    <3> HIDE DEF refuse
    <3> QED
      BY <2>1, <2>2 DEF RefFindings, Report
  <2> QED
    BY <2>1, <2>3, Zenon
<1> HIDE DEF Found
<1> QED
  BY <1>1, <1>2, Zenon

(* A summary doc is accepted exactly if it is a file, or a pipe, which the *)
(* check does not tell apart.                                              *)
LEMMA DocCellIs ==
  ASSUME NEW repo, IsRepo(repo), NEW cell \in SUBSET Ref
  PROVE  (\A r \in summaryRefs(cell).refs : RefFindings(repo, r, {"missing", "link", "dir"}) = {}) <=>
           \A r \in summaryRefs(cell).refs : Kind(repo, r) \in {"file", "pipe"}
<1> DEFINE refuse == {"missing", "link", "dir"}
<1>1. ASSUME NEW r \in summaryRefs(cell).refs
      PROVE  RefFindings(repo, r, refuse) = {} <=> Kind(repo, r) \in {"file", "pipe"}
  <2>1. safeRepoRelativeRef(r) /\ Last(r) \in MdName
    BY DocKept
  <2>2. Last(r) # ""
    BY <2>1, NamesAssumption
  <2>3. TrimSlash(r) = r
    BY <2>2 DEF TrimSlash
  <2>4. "missing" \in refuse
    BY Zenon
  <2>5. Kind(repo, r) \notin refuse <=> Kind(repo, r) \in {"file", "pipe"}
    BY KindFacts
  <2> HIDE DEF refuse
  <2>6. RefFindings(repo, r, refuse) = {} <=> Kind(repo, r) \notin refuse
    BY <2>1, <2>3, <2>4, RefAccepted
  <2> QED
    BY <2>5, <2>6, Zenon
<1> QED
  BY <1>1, Zenon

(* A row is accepted, with the bundles it refers to, exactly if its        *)
(* references are what they should be.                                     *)
LEMMA RowIs ==
  ASSUME NEW repo, IsRepo(repo), NEW row, row.raw \in SUBSET Ref, row.summary \in SUBSET Ref
  PROVE  /\ RowFindings(repo, row) = {}
         /\ \A b \in referencedBundles(repo, row) : checkBundle(repo, b) = {}
         <=>
         /\ \A ref \in row.raw \cup row.summary : Claims(ref) => Named(ref) # {}
         /\ \A ref \in row.raw : GoodRaw(repo, ref)
         /\ \A p \in summaryRefs(row.summary).refs : Kind(repo, p) \in {"file", "pipe"}
<1> DEFINE raw == evidenceRefs(row.raw)
           doc == summaryRefs(row.summary)
           A == UNION {RefFindings(repo, ref, {"missing", "link"}) : ref \in raw.refs}
           B == UNION {RefFindings(repo, ref, {"missing", "link", "dir"}) : ref \in doc.refs}
<1>1. A = {} <=> \A r \in raw.refs : RefFindings(repo, r, {"missing", "link"}) = {}
  <2> HIDE DEF raw
  <2>1. ASSUME A = {}, NEW r \in raw.refs
        PROVE  RefFindings(repo, r, {"missing", "link"}) = {}
    BY <2>1, ZenonT(60)
  <2>2. ASSUME \A r \in raw.refs : RefFindings(repo, r, {"missing", "link"}) = {}
        PROVE  A = {}
    BY <2>2, ZenonT(60)
  <2> QED
    BY <2>1, <2>2
<1>2. B = {} <=> \A r \in doc.refs : RefFindings(repo, r, {"missing", "link", "dir"}) = {}
  <2> HIDE DEF doc
  <2>1. ASSUME B = {}, NEW r \in doc.refs
        PROVE  RefFindings(repo, r, {"missing", "link", "dir"}) = {}
    BY <2>1, ZenonT(60)
  <2>2. ASSUME \A r \in doc.refs : RefFindings(repo, r, {"missing", "link", "dir"}) = {}
        PROVE  B = {}
    BY <2>2, ZenonT(60)
  <2> QED
    BY <2>1, <2>2
<1>3. RowFindings(repo, row) = raw.findings \cup doc.findings \cup A \cup B
  BY Zenon DEF RowFindings
<1>4. raw.findings = {} <=> \A ref \in row.raw : Claims(ref) => Named(ref) # {}
  BY RawKept
<1>5. doc.findings = {} <=> \A ref \in row.summary : Claims(ref) => Named(ref) # {}
  BY DocKept
<1>6. B = {} <=> \A p \in doc.refs : Kind(repo, p) \in {"file", "pipe"}
  BY <1>2, DocCellIs, Zenon
<1>7. (A = {} /\ \A b \in referencedBundles(repo, row) : checkBundle(repo, b) = {}) <=>
        \A ref \in row.raw : GoodRaw(repo, ref)
  <2>1. (\A ref \in row.raw : GoodRaw(repo, ref)) <=>
           \A r \in raw.refs :
             /\ RefFindings(repo, r, {"missing", "link"}) = {}
             /\ \A b \in evidenceBundleForRef(repo, r) : checkBundle(repo, b) = {}
    BY RawCellIs
  <2>2. A = {} => ((\A b \in referencedBundles(repo, row) : checkBundle(repo, b) = {}) <=>
           \A r \in raw.refs : \A b \in evidenceBundleForRef(repo, r) : checkBundle(repo, b) = {})
    <3> SUFFICES ASSUME A = {}
                 PROVE  (\A b \in referencedBundles(repo, row) : checkBundle(repo, b) = {}) <=>
                          \A r \in raw.refs : \A b \in evidenceBundleForRef(repo, r) : checkBundle(repo, b) = {}
      OBVIOUS
    <3>1. \A r \in evidenceRefs(row.raw).refs : RefFindings(repo, r, {"missing", "link"}) = {}
      BY <1>1, Zenon
    <3> QED
      BY <3>1, Referenced
  <2> HIDE DEF A, raw
  <2> QED
    BY <2>1, <2>2, <1>1, Zenon
<1>8. RowFindings(repo, row) = {} <=> raw.findings = {} /\ doc.findings = {} /\ A = {} /\ B = {}
  <2> HIDE DEF raw, doc, A, B
  <2> QED
    BY <1>3
<1>9. (\A ref \in row.raw \cup row.summary : Claims(ref) => Named(ref) # {}) <=>
        /\ \A ref \in row.raw : Claims(ref) => Named(ref) # {}
        /\ \A ref \in row.summary : Claims(ref) => Named(ref) # {}
  BY Zenon
<1> HIDE DEF raw, A, B
<1> QED
  BY <1>4, <1>5, <1>6, <1>7, <1>8, <1>9, Zenon

----------------------------------------------------------------------------
(* The whole check                                                         *)

(* The baseline is a sequence of lines whose cells are sets of references. *)
LEMMA IndexTyped ==
  ASSUME NEW repo, IsRepo(repo), Kind(repo, Baseline) = "file", NEW lines, lines = repo[Baseline].body
  PROVE  /\ DOMAIN lines \in SUBSET Nat
         /\ \A i \in DOMAIN lines : lines[i].raw \in SUBSET Ref /\ lines[i].summary \in SUBSET Ref
<1>1. Baseline \in DOMAIN repo
  BY KindFacts
<1>2. IsNode(Baseline, repo[Baseline]) /\ repo[Baseline].kind = "file"
  BY <1>1 DEF IsRepo, Kind
<1>3. PICK R : R = IndexLine
  OBVIOUS
<1>4. lines \in Seq(R)
  BY <1>2, <1>3 DEF IsNode
<1>5. DOMAIN lines = 1..Len(lines) /\ Len(lines) \in Nat /\ \A i \in 1..Len(lines) : lines[i] \in R
  BY <1>4, LenProperties, ElementOfSeq
<1>6. \A l \in IndexLine : l.raw \in SUBSET Ref /\ l.summary \in SUBSET Ref
  BY DEF IndexLine
<1>7. DOMAIN lines \in SUBSET Nat
  BY <1>5
<1> QED
  BY <1>3, <1>5, <1>6, <1>7

(* What lies directly in docs/evidence is three parts long and has no      *)
(* dots.                                                                   *)
LEMMA DiscoveredIs ==
  ASSUME NEW repo, IsRepo(repo), NEW b \in DOMAIN repo
  PROVE  /\ Front(b) = EvidenceDir <=> IsBundle(b)
         /\ NoDots(b)
<1>1. b \in Ref /\ NoDots(b)
  BY KindFacts DEF IsRepo, IsNode, NoDots
<1>2. PICK n \in Nat : n = Len(b) /\ n >= 1
  BY <1>1, RefFacts
<1>3. Len(EvidenceDir) = 2
  BY DEF EvidenceDir
<1>4. CASE n = 1
  <2>1. SubSeq(b, 1, 0) = <<>>
    BY SubSeqEmpty
  <2>2. Len(b) - 1 = 0 /\ Len(b) # 3
    BY <1>2, <1>4
  <2>3. Front(b) = <<>>
    BY <2>1, <2>2 DEF Front
  <2>4. <<>> # EvidenceDir
    BY DEF EvidenceDir
  <2> QED
    BY <2>2, <2>3, <2>4, <1>1 DEF IsBundle
<1>5. CASE n # 1
  <2>1. Len(b) > 1
    BY <1>2, <1>5
  <2>2. Len(Front(b)) = n - 1 /\ Front(b) = SubSeq(b, 1, n - 1)
    BY <2>1, <1>1, <1>2, FrontFacts
  <2>3. ASSUME Front(b) = EvidenceDir PROVE IsBundle(b)
    <3>1. n - 1 = 2
      BY <2>2, <2>3, <1>3
    <3>2. Len(b) = 3
      BY <3>1, <1>2
    <3>3. SubSeq(b, 1, 2) = EvidenceDir
      BY <2>2, <2>3, <3>1
    <3> QED
      BY <3>2, <3>3, <1>1 DEF IsBundle
  <2>4. ASSUME IsBundle(b) PROVE Front(b) = EvidenceDir
    <3>1. Len(b) = 3 /\ SubSeq(b, 1, 2) = EvidenceDir
      BY <2>4 DEF IsBundle
    <3>2. n - 1 = 2
      BY <3>1, <1>2
    <3> QED
      BY <3>1, <3>2, <2>2
  <2> QED
    BY <2>3, <2>4, <1>1
<1> QED
  BY <1>4, <1>5

(***************************************************************************)
(* checkRepo, with everything it calls, reports nothing on a file tree and *)
(* does not fail exactly if the tree is intact: nothing that is wrong goes *)
(* unnoticed and nothing that is right is rejected, in any repository.     *)
(***************************************************************************)
THEOREM CheckExact ==
  ASSUME NEW repo, IsRepo(repo)
  PROVE  ExitStatus(repo) = 0 <=> Intact(repo)
<1> DEFINE lines == repo[Baseline].body
           body == repo[Manifest].body
           index == parseBaselineIndex(lines)
           T == TableLines(lines)
           rows(h, s) == {lines[i] : i \in T \ {h, s}}
           Good(row) == /\ \A ref \in row.raw \cup row.summary : Claims(ref) => Named(ref) # {}
                        /\ \A ref \in row.raw : GoodRaw(repo, ref)
                        /\ \A p \in summaryRefs(row.summary).refs : Kind(repo, p) \in {"file", "pipe"}
           Lying == \A b \in DOMAIN repo :
                      /\ Front(b) = EvidenceDir
                      /\ Last(b) \notin HiddenName
                      /\ Kind(repo, b) \in {"dir", "link"}
                      => IntactBundle(repo, b)
<1>1. (\A b \in discoverEvidenceBundles(repo) : checkBundle(repo, b) = {}) <=> Lying
  <2>1. \A b : b \in discoverEvidenceBundles(repo) <=>
          /\ b \in DOMAIN repo /\ IsBundle(b) /\ Last(b) \notin HiddenName
          /\ Kind(repo, b) \in {"dir", "link"}
    BY KindFacts DEF discoverEvidenceBundles, IsBundle
  <2>2. ASSUME NEW b \in DOMAIN repo, IsBundle(b) PROVE checkBundle(repo, b) = {} <=> IntactBundle(repo, b)
    BY <2>2, DiscoveredIs, BundleIs
  <2>3. \A b \in DOMAIN repo : Front(b) = EvidenceDir <=> IsBundle(b)
    BY DiscoveredIs
  <2> QED
    BY <2>1, <2>2, <2>3, Zenon
<1>2. Intact(repo) <=>
        /\ Kind(repo, Baseline) = "file" /\ Kind(repo, Manifest) = "file"
        /\ Kind(repo, EvidenceDir) = "dir"
        /\ \E h, s \in T : IntactIndex(lines, h, s) /\ IntactRows(repo, rows(h, s))
        /\ Lying
  BY Zenon DEF Intact
<1>3. ExitStatus(repo) = 0 <=>
        /\ Kind(repo, Baseline) = "file"
        /\ Kind(repo, EvidenceDir) = "dir"
        /\ index.findings = {}
        /\ \A row \in index.rows : RowFindings(repo, row) = {}
        /\ checkSummaryDocsManifest(repo, summaryDocSet(index.rows)) = {}
        /\ \A row \in index.rows : \A b \in referencedBundles(repo, row) : checkBundle(repo, b) = {}
        /\ \A b \in discoverEvidenceBundles(repo) : checkBundle(repo, b) = {}
  BY StatusIs
<1> HIDE DEF Lying
<1>4. ASSUME Kind(repo, Baseline) = "file", NEW h \in T, NEW s \in T, IntactIndex(lines, h, s)
      PROVE  /\ index.rows = rows(h, s)
             /\ (/\ \A row \in index.rows : RowFindings(repo, row) = {}
                 /\ checkSummaryDocsManifest(repo, summaryDocSet(index.rows)) = {}
                 /\ \A row \in index.rows : \A b \in referencedBundles(repo, row) : checkBundle(repo, b) = {})
                <=> (Kind(repo, Manifest) = "file" /\ IntactRows(repo, rows(h, s)))
  <2>1. /\ DOMAIN lines \in SUBSET Nat
        /\ \A i \in DOMAIN lines : lines[i].raw \in SUBSET Ref /\ lines[i].summary \in SUBSET Ref
    BY <1>4, IndexTyped
  <2>2. index.rows = rows(h, s)
    BY <2>1, <1>4, IndexIs
  <2>3. T \subseteq DOMAIN lines
    BY DEF TableLines
  <2>4. \A row \in rows(h, s) : row.raw \in SUBSET Ref /\ row.summary \in SUBSET Ref
    <3> HIDE DEF T, lines
    <3> QED
      BY <2>1, <2>3
  <2>5. PICK R : R = rows(h, s)
    OBVIOUS
  <2> HIDE DEF rows, lines, index
  <2>6. \A row \in R : row.raw \in SUBSET Ref /\ row.summary \in SUBSET Ref
    BY <2>4, <2>5, Zenon
  <2>7. summaryDocSet(R) = NamedDocs(R)
    BY <2>6, DocsAre
  <2>8. checkSummaryDocsManifest(repo, NamedDocs(R)) = {} <=>
           Kind(repo, Manifest) = "file" /\ ~Padded(body) /\ ListsSorted(body, NamedDocs(R))
    BY ManifestIs
  <2>9. ASSUME NEW row \in R
        PROVE  (/\ RowFindings(repo, row) = {}
                /\ \A b \in referencedBundles(repo, row) : checkBundle(repo, b) = {}) <=> Good(row)
    BY <2>6, RowIs
  <2>10. (\A row \in R : \A p \in summaryRefs(row.summary).refs : Kind(repo, p) \in {"file", "pipe"}) <=>
            \A p \in NamedDocs(R) : Kind(repo, p) \in {"file", "pipe"}
    <3>1. \A p : p \in NamedDocs(R) <=> \E row \in R : p \in summaryRefs(row.summary).refs
      BY <2>7 DEF summaryDocSet
    <3> QED
      BY <3>1, Zenon
  <2>11. (\A row \in R : Good(row)) <=>
           /\ \A row \in R : \A ref \in row.raw \cup row.summary : Claims(ref) => Named(ref) # {}
           /\ \A row \in R : \A ref \in row.raw : GoodRaw(repo, ref)
           /\ \A p \in NamedDocs(R) : Kind(repo, p) \in {"file", "pipe"}
    BY <2>10, Zenon
  <2>12. IntactRows(repo, R) <=>
           (\A row \in R : Good(row)) /\ ~Padded(body) /\ ListsSorted(body, NamedDocs(R))
    BY <2>11, Zenon DEF IntactRows
  <2> HIDE DEF Good, body
  <2>13. (/\ \A row \in R : RowFindings(repo, row) = {}
          /\ \A row \in R : \A b \in referencedBundles(repo, row) : checkBundle(repo, b) = {})
         <=> \A row \in R : Good(row)
    BY <2>9, Zenon
  <2>14. (/\ \A row \in R : RowFindings(repo, row) = {}
          /\ checkSummaryDocsManifest(repo, summaryDocSet(R)) = {}
          /\ \A row \in R : \A b \in referencedBundles(repo, row) : checkBundle(repo, b) = {})
         <=> (Kind(repo, Manifest) = "file" /\ IntactRows(repo, R))
    BY <2>7, <2>8, <2>12, <2>13, Zenon
  <2> QED
    BY <2>2, <2>5, <2>14, Zenon
<1>5. Kind(repo, Baseline) = "file" =>
        (index.findings = {} <=> \E h, s \in T : IntactIndex(lines, h, s))
  <2> SUFFICES ASSUME Kind(repo, Baseline) = "file"
               PROVE  index.findings = {} <=> \E h, s \in T : IntactIndex(lines, h, s)
    OBVIOUS
  <2>1. DOMAIN lines \in SUBSET Nat
    BY IndexTyped
  <2> QED
    BY <2>1, IndexIs
<1> HIDE DEF rows, lines, index, T
<1>6. ASSUME ExitStatus(repo) = 0 PROVE Intact(repo)
  <2>1. PICK h \in T, s \in T : IntactIndex(lines, h, s)
    BY <1>3, <1>5, <1>6
  <2> QED
    BY <2>1, <1>1, <1>2, <1>3, <1>4, <1>6, Zenon
<1>7. ASSUME Intact(repo) PROVE ExitStatus(repo) = 0
  <2>1. PICK h \in T, s \in T : IntactIndex(lines, h, s) /\ IntactRows(repo, rows(h, s))
    BY <1>2, <1>7
  <2>2. index.findings = {}
    BY <2>1, <1>2, <1>5, <1>7, Zenon
  <2> QED
    BY <2>1, <2>2, <1>1, <1>2, <1>3, <1>4, <1>7, Zenon
<1> QED
  BY <1>6, <1>7

----------------------------------------------------------------------------
(* Edits keep a file tree a file tree                                      *)

(* The prefixes of a prefix of a path are prefixes of the path.            *)
LEMMA Prefix ==
  ASSUME NEW p \in Ref, NEW i \in 1..Len(p), NEW j \in 1..i
  PROVE  /\ SubSeq(p, 1, i) \in Ref /\ Len(SubSeq(p, 1, i)) = i
         /\ SubSeq(SubSeq(p, 1, i), 1, j) = SubSeq(p, 1, j)
<1>1. PICK n \in Nat : n = Len(p)
  BY RefFacts
<1>2. 1 \in 1..Len(p) /\ j \in 1..Len(p) /\ i \in 1..Len(p) /\ i - 1 + 1 = i /\ j - 1 + 1 = j /\ i \in Nat /\ j \in Nat
  BY <1>1
<1>3. PICK q : q = SubSeq(p, 1, i)
  OBVIOUS
<1>4. q \in Ref /\ Len(q) = i /\ \A k \in 1..i : q[k] = p[1 + k - 1]
  BY <1>2, <1>3, Slice
<1>5. PICK r : r = SubSeq(p, 1, j)
  OBVIOUS
<1>6. r \in Ref /\ Len(r) = j /\ \A k \in 1..j : r[k] = p[1 + k - 1]
  BY <1>2, <1>5, Slice
<1>7. PICK t : t = SubSeq(q, 1, j)
  OBVIOUS
<1>8. 1 \in 1..Len(q) /\ j \in 1..Len(q)
  BY <1>2, <1>4
<1>9. t \in Ref /\ Len(t) = j /\ \A k \in 1..j : t[k] = q[1 + k - 1]
  BY <1>2, <1>4, <1>7, <1>8, Slice
<1>10. ASSUME NEW k \in 1..j PROVE t[k] = r[k]
  <2>1. k \in 1..i /\ 1 + k - 1 = k
    BY <1>2
  <2> QED
    BY <2>1, <1>4, <1>6, <1>9
<1>11. t = r
  BY <1>6, <1>9, <1>10, SameRef
<1> QED
  BY <1>3, <1>4, <1>5, <1>7, <1>11

(* What is below something below path is below path.                       *)
LEMMA BelowPrefix ==
  ASSUME NEW repo, NEW path \in Ref, NEW p \in DOMAIN repo, p \in Ref, NEW i \in 1..Len(p) - 1,
         NEW q, q = SubSeq(p, 1, i)
  PROVE  /\ q = path => p \in Below(repo, path)
         /\ q \in Below(repo, path) => p \in Below(repo, path)
<1>1. PICK n \in Nat, m \in Nat : n = Len(p) /\ m = Len(path) /\ m >= 1
  BY RefFacts
<1>2. i \in 1..Len(p) /\ i \in Nat /\ i < n /\ i \in 1..i
  BY <1>1
<1>3. q \in Ref /\ Len(q) = i
  BY <1>2, Prefix
<1>4. ASSUME q = path PROVE p \in Below(repo, path)
  <2>1. Len(p) > Len(path) /\ Len(path) = i
    BY <1>1, <1>2, <1>3, <1>4
  <2> QED
    BY <2>1, <1>4 DEF Below
<1>5. ASSUME q \in Below(repo, path) PROVE p \in Below(repo, path)
  <2>1. Len(q) > Len(path) /\ SubSeq(q, 1, Len(path)) = path
    BY <1>5 DEF Below
  <2>2. m \in 1..i /\ n > m
    BY <2>1, <1>1, <1>2, <1>3
  <2>3. SubSeq(q, 1, m) = SubSeq(p, 1, m)
    BY <2>2, <1>2, Prefix
  <2>4. Len(p) > Len(path)
    BY <2>2, <1>1
  <2> QED
    BY <2>1, <2>3, <2>4, <1>1 DEF Below
<1> QED
  BY <1>4, <1>5

(* Deleting a path with everything below it leaves a file tree.            *)
LEMMA DeleteKeeps ==
  ASSUME NEW repo, IsRepo(repo), NEW path \in Ref,
         NEW new, new = [p \in DOMAIN repo \ ({path} \cup Below(repo, path)) |-> repo[p]]
  PROVE  IsRepo(new)
<1>1. /\ DOMAIN new = DOMAIN repo \ ({path} \cup Below(repo, path))
      /\ \A p \in DOMAIN new : new[p] = repo[p]
  OBVIOUS
<1>2. ASSUME NEW p \in DOMAIN new, NEW i \in 1..Len(p) - 1, NEW q, q = SubSeq(p, 1, i)
      PROVE  Kind(new, q) = "dir"
  <2>1. p \in DOMAIN repo /\ p \in Ref /\ p \notin Below(repo, path)
    BY <1>1, KindFacts
  <2>2. Kind(repo, q) = "dir"
    BY <2>1, <1>2, DirsAbove
  <2>3. q \in DOMAIN repo
    BY <2>2, KindFacts
  <2>4. q # path /\ q \notin Below(repo, path)
    BY <2>1, <1>2, BelowPrefix
  <2>5. q \in DOMAIN new
    BY <2>3, <2>4, <1>1
  <2> QED
    BY <2>2, <2>3, <2>5, <1>1 DEF Kind
<1>3. ASSUME NEW p \in DOMAIN new PROVE IsNode(p, new[p])
  BY <1>1 DEF IsRepo
<1> QED
  BY <1>2, <1>3, ZenonT(60) DEF IsRepo

(* new is repo with node put at path.                                      *)
Replaced(repo, path, node, new) ==
  LET over == IF node.kind = "dir" THEN {} ELSE Below(repo, path)
  IN  new = [p \in (DOMAIN repo \ over) \cup {path} |-> IF p = path THEN node ELSE repo[p]]

(* Putting something at a path whose directory exists leaves a file tree.  *)
LEMMA PutKeeps ==
  ASSUME NEW repo, IsRepo(repo), NEW path \in Ref, NEW node, IsNode(path, node),
         Len(path) > 1 => Kind(repo, Front(path)) = "dir",
         NEW new, Replaced(repo, path, node, new)
  PROVE  IsRepo(new)
<1>7. PICK over : over = IF node.kind = "dir" THEN {} ELSE Below(repo, path)
  OBVIOUS
<1>8. new = [p \in (DOMAIN repo \ over) \cup {path} |-> IF p = path THEN node ELSE repo[p]]
  BY <1>7, Zenon DEF Replaced
<1>1. /\ DOMAIN new = (DOMAIN repo \ over) \cup {path}
      /\ new[path] = node /\ \A p \in DOMAIN new : p # path => new[p] = repo[p]
  BY <1>8
<1>2. ASSUME NEW q, Kind(repo, q) = "dir", q # path, q \notin over PROVE Kind(new, q) = "dir"
  <2>1. q \in DOMAIN repo
    BY <1>2, KindFacts
  <2>2. q \in DOMAIN new
    BY <2>1, <1>1, <1>2
  <2> QED
    BY <2>1, <2>2, <1>1, <1>2 DEF Kind
<1>3. ASSUME NEW i \in 1..Len(path) - 1, NEW q, q = SubSeq(path, 1, i)
      PROVE  Kind(new, q) = "dir"
  <2>1. PICK n \in Nat : n = Len(path)
    BY RefFacts
  <2>2. i \in Nat /\ i >= 1 /\ i < n /\ n > 1 /\ n - 1 \in 1..Len(path) /\ i \in 1..n - 1
        /\ i \in 1..Len(path) /\ i \in 1..i /\ Len(path) > 1
    BY <2>1
  <2>3. PICK f : f = SubSeq(path, 1, n - 1)
    OBVIOUS
  <2>4. f \in Ref /\ Len(f) = n - 1 /\ SubSeq(f, 1, i) = q
    BY <2>2, <2>3, <1>3, Prefix
  <2>5. Kind(repo, f) = "dir"
    <3>1. Front(path) = f
      BY <2>1, <2>3 DEF Front
    <3> QED
      BY <3>1, <2>2
  <2>6. f \in DOMAIN repo
    BY <2>5, KindFacts
  <2>7. Kind(repo, q) = "dir"
    <3>1. CASE i = n - 1
      BY <3>1, <2>3, <2>5, <1>3
    <3>2. CASE i # n - 1
      <4>1. i \in 1..Len(f) - 1
        BY <3>2, <2>2, <2>4
      <4> QED
        BY <4>1, <2>4, <2>6, DirsAbove
    <3> QED
      BY <3>1, <3>2
  <2>8. Len(q) = i
    BY <2>2, <1>3, Prefix
  <2>9. q # path /\ q \notin Below(repo, path)
    <3>1. Len(q) # Len(path) /\ ~(Len(q) > Len(path))
      BY <2>1, <2>2, <2>8
    <3> QED
      BY <3>1 DEF Below
  <2>10. q \notin over
    BY <2>9, <1>7
  <2> QED
    BY <2>7, <2>9, <2>10, <1>2
<1>4. ASSUME NEW p \in DOMAIN new, p # path, NEW i \in 1..Len(p) - 1, NEW q, q = SubSeq(p, 1, i)
      PROVE  Kind(new, q) = "dir"
  <2>1. p \in DOMAIN repo /\ p \in Ref /\ p \notin over
    BY <1>1, <1>4, KindFacts
  <2>2. Kind(repo, q) = "dir"
    BY <2>1, <1>4, DirsAbove
  <2>3. /\ q = path => p \in Below(repo, path)
        /\ q \in Below(repo, path) => p \in Below(repo, path)
    BY <2>1, <1>4, BelowPrefix
  <2>4. CASE q = path
    <3>1. node.kind = "dir"
      BY <2>1, <2>3, <2>4, <1>7
    <3> QED
      BY <3>1, <2>4, <1>1 DEF Kind
  <2>5. CASE q # path
    <3>1. q \notin over
      BY <2>1, <2>3, <1>7
    <3> QED
      BY <3>1, <2>2, <2>5, <1>2
  <2> QED
    BY <2>4, <2>5
<1>5. ASSUME NEW p \in DOMAIN new PROVE IsNode(p, new[p])
  <2>1. CASE p = path
    BY <2>1, <1>1
  <2>2. CASE p # path
    BY <2>2, <1>1 DEF IsRepo
  <2> QED
    BY <2>1, <2>2
<1>6. ASSUME NEW p \in DOMAIN new, NEW i \in 1..Len(p) - 1
      PROVE  Kind(new, SubSeq(p, 1, i)) = "dir"
  BY <1>3, <1>4
<1> QED
  BY <1>5, <1>6 DEF IsRepo

(* Every edit leaves a file tree.                                          *)
LEMMA EditKeeps ==
  ASSUME IsRepo(tree), NEW e, IsNode(e[1], e[2]), Edit(e)
  PROVE  IsRepo(tree')
<1>1. e[1] \in Ref
  BY DEF IsNode
<1>2. CASE Delete(e[1])
  BY <1>1, <1>2, DeleteKeeps DEF Delete
<1>3. CASE Put(e[1], e[2])
  <2>1. PICK path, node : path = e[1] /\ node = e[2]
    OBVIOUS
  <2>2. path \in Ref /\ IsNode(path, node) /\ Put(path, node)
    BY <1>1, <1>3, <2>1
  <2>3. Len(path) > 1 => Kind(tree, Front(path)) = "dir"
    BY <2>2 DEF Put
  <2>4. Replaced(tree, path, node, tree')
    BY <2>2, Zenon DEF Put, Replaced
  <2> QED
    BY <2>2, <2>3, <2>4, PutKeeps
<1> QED
  BY <1>2, <1>3 DEF Edit

----------------------------------------------------------------------------
(* What a merge that was not checked leaves alone                          *)

(* p lies below docs/evidence.                                             *)
EvidencePath(p) == Len(p) > 2 /\ SubSeq(p, 1, 2) = EvidenceDir

(* The same is at p in both trees.                                         *)
SameAt(old, new, p) ==
  /\ Kind(old, p) = Kind(new, p)
  /\ Kind(old, p) = "file" => old[p] = new[p]

(* Everything below docs/evidence is the same in both trees.               *)
SameEvidence(old, new) ==
  \A p \in DOMAIN old \cup DOMAIN new : EvidencePath(p) => SameAt(old, new, p)

(* What is below docs/evidence, or below something in it, is in it.        *)
LEMMA EvidenceBelow ==
  ASSUME NEW p \in Ref, NEW q \in Ref, Len(p) >= 2, SubSeq(p, 1, 2) = EvidenceDir,
         Len(q) > Len(p), SubSeq(q, 1, Len(p)) = p
  PROVE  EvidencePath(q)
<1>1. PICK m \in Nat, n \in Nat : m = Len(p) /\ n = Len(q)
  BY RefFacts
<1>2. m \in 1..Len(q) /\ 2 \in 1..m /\ Len(q) > 2
  BY <1>1
<1>3. SubSeq(SubSeq(q, 1, m), 1, 2) = SubSeq(q, 1, 2)
  BY <1>2, Prefix
<1> QED
  BY <1>1, <1>2, <1>3, SMTT(60) DEF EvidencePath

(* Trees that agree on docs/evidence agree on the files of a bundle.       *)
LEMMA SameInBundle ==
  ASSUME NEW old, NEW new, IsRepo(old), IsRepo(new), SameEvidence(old, new), NEW b, IsBundle(b),
         NEW S, NEW rel \in Seq(S), NEW p, p = b \o rel
  PROVE  SameAt(old, new, p)
<1>1. CASE p \notin DOMAIN old /\ p \notin DOMAIN new
  BY <1>1 DEF SameAt, Kind
<1>2. CASE p \in DOMAIN old \cup DOMAIN new
  <2>1. p \in Ref
    BY <1>2, KindFacts
  <2>2. b \in Ref /\ b \in Seq(STRING) /\ Len(b) = 3 /\ SubSeq(b, 1, 2) = EvidenceDir /\ Len(rel) \in Nat
    BY RefFacts, LenProperties DEF IsBundle
  <2>3. b \in Seq(STRING)
    BY <2>2
  <2>4. Len(b \o rel) = Len(b) + Len(rel) /\ \A i \in 1..Len(b) : (b \o rel)[i] = b[i]
    BY <2>3, Joined
  <2>5. Len(p) = Len(b) + Len(rel) /\ \A i \in 1..Len(b) : p[i] = b[i]
    BY <2>4, Zenon
  <2>6. Len(b) = 3 /\ Len(rel) \in Nat /\ Len(p) = Len(b) + Len(rel)
    BY <2>2, <2>5, Zenon
  <2>7. Len(p) > 2 /\ Len(p) >= 2 /\ Len(b) >= 2 /\ 1 \in 1..Len(b) /\ 2 \in 1..Len(b)
    BY <2>6
  <2>8. p[1] = b[1] /\ p[2] = b[2]
    BY <2>5, <2>7
  <2>9. b[1] = "docs" /\ b[2] = "evidence"
    BY <2>2, <2>7, InEvidence
  <2>10. SubSeq(p, 1, 2) = EvidenceDir
    BY <2>1, <2>7, <2>8, <2>9, InEvidence
  <2> QED
    BY <1>2, <2>7, <2>10 DEF SameEvidence, EvidencePath
<1> QED
  BY <1>1, <1>2

(* Trees that agree on docs/evidence have the same intact bundles.         *)
LEMMA SameBundle ==
  ASSUME NEW old, NEW new, IsRepo(old), IsRepo(new), SameEvidence(old, new), NEW b, IsBundle(b),
         IntactBundle(old, b)
  PROVE  IntactBundle(new, b)
<1> DEFINE path == b \o <<"SHA256SUMS">>
           lines == old[path].body
<1>1. /\ Kind(old, b) = "dir"
      /\ \A i \in DOMAIN b : b[i] \notin OddPart
      /\ Kind(old, b \o <<"README.md">>) = "file"
      /\ Kind(old, b \o <<"SHA256SUMS.sig">>) \in {"missing", "file"}
      /\ Kind(old, path) = "file"
      /\ ListedFiles(old, b, lines)
  BY IntactBundleIs
<1>2. ASSUME NEW x PROVE SameAt(old, new, b \o <<x>>)
  <2>1. <<x>> \in Seq({x})
    OBVIOUS
  <2> QED
    BY <2>1, SameInBundle
<1>3. \A i \in DOMAIN lines : lines[i].rel \in Ref
  BY <1>1, SumsTyped
<1>4. ASSUME NEW i \in Used(lines) PROVE SameAt(old, new, b \o lines[i].rel)
  <2>1. PICK rel : rel = lines[i].rel
    OBVIOUS
  <2>2. rel \in Seq(STRING)
    BY <1>3, <2>1, RefFacts DEF Used
  <2>3. SameAt(old, new, b \o rel)
    BY <2>2, SameInBundle
  <2> QED
    BY <2>1, <2>3
<1>5. b \in Ref /\ Len(b) = 3 /\ SubSeq(b, 1, 2) = EvidenceDir /\ Len(b) >= 2 /\ Len(b) > 2
  <2>1. b \in Ref /\ Len(b) = 3 /\ SubSeq(b, 1, 2) = EvidenceDir
    BY DEF IsBundle
  <2>2. Len(b) = 3
    BY <2>1
  <2> QED
    BY <2>1, <2>2
<1>6. ASSUME NEW p \in Below(new, b) PROVE p \in Below(old, b) /\ SameAt(old, new, p)
  <2>1. p \in DOMAIN new /\ Len(p) > Len(b) /\ SubSeq(p, 1, Len(b)) = b /\ p \in Ref
    BY KindFacts DEF Below
  <2>2. EvidencePath(p)
    BY <2>1, <1>5, EvidenceBelow
  <2>3. SameAt(old, new, p)
    BY <2>1, <2>2 DEF SameEvidence
  <2>4. p \in DOMAIN old
    BY <2>1, <2>3, KindFacts DEF SameAt
  <2> QED
    BY <2>1, <2>3, <2>4 DEF Below
<1>7. Kind(new, b) = "dir"
  <2>1. b \in DOMAIN old
    BY <1>1, KindFacts
  <2> QED
    BY <2>1, <1>1, <1>5 DEF SameEvidence, SameAt, EvidencePath
<1>8. new[path] = old[path] /\ Kind(new, path) = "file"
  BY <1>1, <1>2 DEF SameAt
<1> HIDE DEF lines, path
<1>9. ListedFiles(new, b, lines)
  <2>1. /\ Used(lines) # {}
        /\ \A i \in Used(lines) :
             /\ lines[i].form = "text" /\ lines[i].hex /\ ~lines[i].marked
             /\ \A n \in DOMAIN lines[i].rel : lines[i].rel[n] \notin OddPart
             /\ Kind(new, b \o lines[i].rel) = "file"
             /\ new[b \o lines[i].rel].body = lines[i].hash
    <3>1. \A i \in Used(lines) :
             /\ Kind(old, b \o lines[i].rel) = "file"
             /\ old[b \o lines[i].rel].body = lines[i].hash
      BY <1>1, Zenon DEF ListedFiles
    <3>2. ASSUME NEW i \in Used(lines)
          PROVE  /\ Kind(new, b \o lines[i].rel) = "file"
                 /\ new[b \o lines[i].rel] = old[b \o lines[i].rel]
      BY <3>1, <1>4 DEF SameAt
    <3> QED
      BY <3>1, <3>2, <1>1, Zenon DEF ListedFiles
  <2>2. \A i, j \in Used(lines) : lines[i].rel = lines[j].rel => i = j
    BY <1>1, Zenon DEF ListedFiles
  <2>3. ASSUME NEW p \in Below(new, b)
        PROVE  \/ Kind(new, p) = "dir"
               \/ Last(p) = ".DS_Store"
               \/ /\ Len(p) = Len(b) + 1
                  /\ Last(p) \in {"README.md", "SHA256SUMS", "SHA256SUMS.sig"}
               \/ /\ Kind(new, p) = "file"
                  /\ \E i \in Used(lines) : p = b \o lines[i].rel
    <3>1. p \in Below(old, b) /\ Kind(old, p) = Kind(new, p)
      BY <1>6 DEF SameAt
    <3> QED
      BY <3>1, <1>1, Zenon DEF ListedFiles
  <2> QED
    BY <2>1, <2>2, <2>3, Zenon DEF ListedFiles
<1>10. Kind(new, b \o <<"README.md">>) = "file" /\ Kind(new, b \o <<"SHA256SUMS.sig">>) \in {"missing", "file"}
  <2>1. Kind(new, b \o <<"README.md">>) = Kind(old, b \o <<"README.md">>)
    BY <1>2, Zenon DEF SameAt
  <2>2. Kind(new, b \o <<"SHA256SUMS.sig">>) = Kind(old, b \o <<"SHA256SUMS.sig">>)
    BY <1>2, Zenon DEF SameAt
  <2> QED
    BY <2>1, <2>2, <1>1, Zenon
<1>11. ListedFiles(new, b, new[path].body)
  BY <1>8, <1>9 DEF lines
<1> QED
  BY <1>1, <1>7, <1>8, <1>10, <1>11, IntactBundleIs, Zenon DEF path

(* The lines of the baseline hold an intact index.                         *)
Indexed(repo, lines) ==
  \E h, s \in TableLines(lines) :
    /\ IntactIndex(lines, h, s)
    /\ IntactRows(repo, {lines[i] : i \in TableLines(lines) \ {h, s}})

(* A tree in which everything the check looks at is as in an intact tree   *)
(* is intact.                                                              *)
LEMMA SameIntact ==
  ASSUME NEW old, NEW new, IsRepo(old), IsRepo(new), Intact(old), SameEvidence(old, new),
         SameAt(old, new, Baseline), SameAt(old, new, Manifest), Kind(new, EvidenceDir) = "dir",
         \A i \in DOMAIN old[Manifest].body :
           old[Manifest].body[i].kind = "ref" => SameAt(old, new, old[Manifest].body[i].ref)
  PROVE  Intact(new)
<1> DEFINE lines == old[Baseline].body
           body == old[Manifest].body
           T == TableLines(lines)
           rows(h, s) == {lines[i] : i \in T \ {h, s}}
<1>1. /\ Kind(old, Baseline) = "file" /\ Kind(old, Manifest) = "file" /\ Kind(old, EvidenceDir) = "dir"
      /\ \E h, s \in T : IntactIndex(lines, h, s) /\ IntactRows(old, rows(h, s))
      /\ \A b \in DOMAIN old :
           Front(b) = EvidenceDir /\ Last(b) \notin HiddenName /\ Kind(old, b) \in {"dir", "link"}
           => IntactBundle(old, b)
  BY Zenon DEF Intact
<1>2. /\ Kind(new, Baseline) = "file" /\ new[Baseline] = old[Baseline]
      /\ Kind(new, Manifest) = "file" /\ new[Manifest] = old[Manifest]
  BY <1>1 DEF SameAt
<1>3. PICK h \in T, s \in T : IntactIndex(lines, h, s) /\ IntactRows(old, rows(h, s))
  BY <1>1
<1>4. /\ DOMAIN lines \in SUBSET Nat
      /\ \A i \in DOMAIN lines : lines[i].raw \in SUBSET Ref /\ lines[i].summary \in SUBSET Ref
  BY <1>1, IndexTyped
<1>5. \A row \in rows(h, s) : row.raw \in SUBSET Ref
  <2>1. T \subseteq DOMAIN lines
    BY DEF TableLines
  <2> HIDE DEF lines, T
  <2> QED
    BY <1>4, <2>1
<1>6. PICK R : R = rows(h, s)
  OBVIOUS
<1> HIDE DEF rows, T
<1>7. /\ \A row \in R : \A ref \in row.raw \cup row.summary : Claims(ref) => Named(ref) # {}
      /\ \A row \in R : \A ref \in row.raw : GoodRaw(old, ref)
      /\ \A p \in NamedDocs(R) : Kind(old, p) \in {"file", "pipe"}
      /\ ~Padded(body)
      /\ ListsSorted(body, NamedDocs(R))
  BY <1>3, <1>6, Zenon DEF IntactRows
<1>8. \A p \in NamedDocs(R) : Kind(new, p) \in {"file", "pipe"}
  <2> SUFFICES ASSUME NEW p \in NamedDocs(R) PROVE Kind(new, p) \in {"file", "pipe"}
    OBVIOUS
  <2>1. PICK i \in DOMAIN body : body[i].kind = "ref" /\ p = body[i].ref
    BY <1>7 DEF ListsSorted
  <2>2. SameAt(old, new, p)
    BY <2>1
  <2> QED
    BY <2>2, <1>7 DEF SameAt
<1>9. ASSUME NEW row \in R, NEW ref \in row.raw PROVE GoodRaw(new, ref)
  <2>1. GoodRaw(old, ref) /\ ref \in Ref
    BY <1>5, <1>6, <1>7
  <2>2. ASSUME NEW p \in Named(ref), Len(p) >= 2, SubSeq(p, 1, 2) = EvidenceDir,
               Len(p) > 2 \/ Last(ref) = ""
        PROVE  /\ Kind(new, p) \notin {"missing", "link"}
               /\ Len(p) > 3 \/ (Len(p) = 3 /\ (Kind(new, p) = "dir" \/ Last(ref) = ""))
                    => IntactBundle(new, SubSeq(p, 1, 3))
    <3>1. /\ Kind(old, p) \notin {"missing", "link"}
          /\ Len(p) > 3 \/ (Len(p) = 3 /\ (Kind(old, p) = "dir" \/ Last(ref) = ""))
               => IntactBundle(old, SubSeq(p, 1, 3))
      BY <2>1, <2>2, Zenon DEF GoodRaw
    <3>2. p \in Ref /\ NoDots(p)
      <4>1. PICK a, b : Spans(ref, a, b, p)
        BY <2>1, NamedSpans
      <4>2. Clean(p)
        BY <4>1, <2>1, SpanFacts
      <4> QED
        BY <4>2, CleanNoDots
    <3>3. PICK n \in Nat : n = Len(p)
      BY <3>2, RefFacts
    <3>4. CASE n = 2
      <4>1. SubSeq(p, 1, Len(p)) = p
        BY <3>2, RefFacts, SubSeqFull
      <4>2. p = EvidenceDir
        BY <4>1, <3>3, <3>4, <2>2
      <4>3. ~(Len(p) > 3) /\ Len(p) # 3
        BY <3>3, <3>4
      <4>4. Kind(new, p) = "dir"
        BY <4>2
      <4> QED
        BY <4>3, <4>4
    <3>5. CASE n # 2
      <4>5. Len(p) >= 2
        BY <2>2, Zenon
      <4>1. Len(p) > 2
        BY <3>3, <3>5, <4>5
      <4>2. p \in DOMAIN old
        BY <3>1, KindFacts
      <4>3. Kind(old, p) = Kind(new, p)
        BY <4>1, <4>2, <2>2 DEF SameEvidence, SameAt, EvidencePath
      <4>4. ASSUME IntactBundle(old, SubSeq(p, 1, 3)) PROVE IntactBundle(new, SubSeq(p, 1, 3))
        <5>1. Len(p) >= 3
          BY <4>1, <3>3
        <5>2. PICK b : b = SubSeq(p, 1, 3)
          OBVIOUS
        <5>3. IsBundle(b)
          BY <5>1, <5>2, <3>2, <2>2, BundleOfPath
        <5>4. IntactBundle(new, b)
          BY <5>2, <5>3, <4>4, SameBundle
        <5> QED
          BY <5>2, <5>4
      <4> QED
        BY <4>3, <4>4, <3>1, Zenon
    <3> QED
      BY <3>4, <3>5
  <2> QED
    BY <2>2, Zenon DEF GoodRaw
<1>10. IntactRows(new, R)
  BY <1>2, <1>7, <1>8, <1>9, Zenon DEF IntactRows
<1>11. ASSUME NEW b \in DOMAIN new, Front(b) = EvidenceDir, Last(b) \notin HiddenName,
              Kind(new, b) \in {"dir", "link"}
       PROVE  IntactBundle(new, b)
  <2>1. IsBundle(b)
    BY <1>11, DiscoveredIs
  <2>2. EvidencePath(b)
    <3>1. Len(b) = 3 /\ SubSeq(b, 1, 2) = EvidenceDir
      BY <2>1 DEF IsBundle
    <3>2. Len(b) > 2
      BY <3>1
    <3> QED
      BY <3>1, <3>2 DEF EvidencePath
  <2>3. Kind(old, b) = Kind(new, b)
    BY <2>2 DEF SameEvidence, SameAt
  <2>4. b \in DOMAIN old
    BY <2>3, KindFacts
  <2>5. IntactBundle(old, b)
    BY <2>3, <2>4, <1>1, <1>11, Zenon
  <2> QED
    BY <2>1, <2>5, SameBundle
<1>12. new[Baseline].body = lines
  BY <1>2
<1>13. IntactRows(new, {lines[i] : i \in T \ {h, s}})
  BY <1>6, <1>10 DEF rows
<1> HIDE DEF lines
<1>14. Indexed(new, lines)
  BY <1>3, <1>13 DEF T, Indexed
<1>15. Indexed(new, new[Baseline].body)
  BY <1>12, <1>14
<1> QED
  BY <1>2, <1>11, <1>15, Zenon DEF Intact, Indexed

----------------------------------------------------------------------------
(* Pull requests                                                           *)

(* A path that git does not list as changed has the same file or link, or  *)
(* none, in both trees.                                                    *)
LEMMA NotChanged ==
  ASSUME NEW p, p \notin ChangedFiles
  PROVE  /\ (p \in DOMAIN main /\ Kind(main, p) # "dir") <=> (p \in DOMAIN tree /\ Kind(tree, p) # "dir")
         /\ p \in DOMAIN main /\ Kind(main, p) # "dir" => main[p] = tree[p]
<1>1. ASSUME NEW A, NEW B, NEW q, q \in DOMAIN A, Kind(A, q) # "dir",
             \A c \in Contents(A) \ Contents(B) : c[1] # q
      PROVE  q \in DOMAIN B /\ Kind(B, q) # "dir" /\ A[q] = B[q]
  <2>1. <<q, A[q]>> \in Contents(A)
    BY <1>1 DEF Contents
  <2>2. <<q, A[q]>>[1] = q
    OBVIOUS
  <2>3. <<q, A[q]>> \in Contents(B)
    BY <2>1, <2>2, <1>1
  <2> QED
    BY <2>3 DEF Contents
<1>2. /\ \A c \in Contents(main) \ Contents(tree) : c[1] # p
      /\ \A c \in Contents(tree) \ Contents(main) : c[1] # p
  BY DEF ChangedFiles
<1> QED
  BY <1>1, <1>2

(* A directory of a checkout stays one where no file below it has changed. *)
LEMMA DirStays ==
  ASSUME NEW A, NEW B, IsRepo(A), IsRepo(B), InGit(A), NEW p, Len(p) >= 2, SubSeq(p, 1, 2) = EvidenceDir,
         Kind(A, p) = "dir",
         \A q : EvidencePath(q) /\ q \in DOMAIN A /\ Kind(A, q) # "dir" => q \in DOMAIN B
  PROVE  Kind(B, p) = "dir"
<1>1. p \in DOMAIN A /\ p \in Ref
  BY KindFacts
<1>2. PICK q \in Below(A, p) : Kind(A, q) # "dir"
  BY <1>1 DEF InGit
<1>3. q \in DOMAIN A /\ q \in Ref /\ Len(q) > Len(p) /\ SubSeq(q, 1, Len(p)) = p
  BY <1>2, KindFacts DEF Below
<1>4. EvidencePath(q)
  BY <1>1, <1>3, EvidenceBelow, SMTT(60)
<1>5. q \in DOMAIN B
  BY <1>2, <1>3, <1>4, SMTT(60)
<1>6. PICK m \in Nat, n \in Nat : m = Len(p) /\ n = Len(q) /\ m >= 1 /\ n > m
  BY <1>1, <1>3, RefFacts
<1>7. m \in 1..Len(q) - 1
  BY <1>6
<1>8. Kind(B, SubSeq(q, 1, m)) = "dir"
  BY <1>5, <1>7, DirsAbove
<1> QED
  BY <1>3, <1>6, <1>8

(* A change that the classifier does not take for one of the evidence      *)
(* keeps an intact repository intact.                                      *)
LEMMA UncheckedIntact ==
  ASSUME IsRepo(main), IsRepo(tree), InGit(main), InGit(tree), Intact(main), ~evidence_changed
  PROVE  Intact(tree)
<1>1. /\ Baseline \notin ChangedFiles /\ Manifest \notin ChangedFiles
      /\ \A p \in ChangedFiles : ~EvidencePath(p) /\ ~is_summary_doc_ref(p)
  BY DEF evidence_changed, EvidencePath
<1>2. Kind(main, Baseline) = "file" /\ Kind(main, Manifest) = "file" /\ Kind(main, EvidenceDir) = "dir"
  BY DEF Intact
<1>3. ASSUME NEW p, p \notin ChangedFiles, Kind(main, p) = "file" PROVE SameAt(main, tree, p)
  <2>1. p \in DOMAIN main
    BY <1>3, KindFacts
  <2>2. main[p] = tree[p] /\ p \in DOMAIN tree
    BY <2>1, <1>3, NotChanged
  <2> QED
    BY <2>1, <2>2, <1>3 DEF SameAt, Kind
<1>4. SameAt(main, tree, Baseline) /\ SameAt(main, tree, Manifest)
  BY <1>1, <1>2, <1>3
<1>5. \A q : EvidencePath(q) =>
        /\ (q \in DOMAIN main /\ Kind(main, q) # "dir") <=> (q \in DOMAIN tree /\ Kind(tree, q) # "dir")
        /\ q \in DOMAIN main /\ Kind(main, q) # "dir" => main[q] = tree[q]
  BY <1>1, NotChanged
<1>6. Kind(tree, EvidenceDir) = "dir"
  <2>1. Len(EvidenceDir) >= 2 /\ SubSeq(EvidenceDir, 1, 2) = EvidenceDir
    <3>1. EvidenceDir \in Ref
      BY <1>2, KindFacts
    <3>2. Len(EvidenceDir) = 2
      BY FixedPaths
    <3>3. SubSeq(EvidenceDir, 1, Len(EvidenceDir)) = EvidenceDir
      BY <3>1, RefFacts, SubSeqFull
    <3> QED
      BY <3>2, <3>3
  <2> QED
    BY <2>1, <1>2, <1>5, DirStays
<1>7. ASSUME NEW p, EvidencePath(p) PROVE SameAt(main, tree, p)
  <2>1. (Len(p) >= 2 /\ SubSeq(p, 1, 2) = EvidenceDir) \/ (p \notin DOMAIN main /\ p \notin DOMAIN tree)
    <3> SUFFICES ASSUME p \in DOMAIN main \/ p \in DOMAIN tree PROVE Len(p) >= 2 /\ SubSeq(p, 1, 2) = EvidenceDir
      OBVIOUS
    <3>1. Len(p) > 2 /\ SubSeq(p, 1, 2) = EvidenceDir /\ p \in Ref
      BY <1>7, KindFacts DEF EvidencePath
    <3>2. Len(p) > 2 /\ Len(p) \in Nat
      BY <3>1, RefFacts
    <3>3. Len(p) >= 2
      BY <3>2
    <3> QED
      BY <3>1, <3>3
  <2>2. Kind(main, p) = "dir" <=> Kind(tree, p) = "dir"
    <3>1. Kind(main, p) = "dir" => Kind(tree, p) = "dir"
      BY <2>1, <1>5, KindFacts, DirStays
    <3>2. Kind(tree, p) = "dir" => Kind(main, p) = "dir"
      BY <2>1, <1>5, KindFacts, DirStays
    <3> QED
      BY <3>1, <3>2
  <2>3. CASE Kind(main, p) = "dir"
    BY <2>2, <2>3 DEF SameAt
  <2>4. CASE Kind(main, p) # "dir"
    BY <2>2, <2>4, <1>5, <1>7 DEF SameAt, Kind
  <2> QED
    BY <2>3, <2>4
<1>8. SameEvidence(main, tree)
  BY <1>7 DEF SameEvidence
<1>9. ASSUME NEW i \in DOMAIN main[Manifest].body, main[Manifest].body[i].kind = "ref"
      PROVE  SameAt(main, tree, main[Manifest].body[i].ref)
  <2>1. PICK p : p = main[Manifest].body[i].ref
    OBVIOUS
  <2>2. Kind(tree, Manifest) = "file" /\ tree[Manifest] = main[Manifest]
    BY <1>2, <1>4 DEF SameAt
  <2>3. is_summary_doc_ref(p)
    BY <2>1, <2>2, <1>9 DEF is_summary_doc_ref
  <2>4. p \notin ChangedFiles
    BY <2>3, <1>1
  <2>5. Kind(main, p) \in {"file", "pipe"}
    <3>1. \E h, s \in TableLines(main[Baseline].body) :
            IntactRows(main, {main[Baseline].body[j] : j \in TableLines(main[Baseline].body) \ {h, s}})
      BY Zenon DEF Intact
    <3>2. PICK R : IntactRows(main, R)
      BY <3>1
    <3>3. p \in NamedDocs(R)
      BY <3>2, <2>1, <1>9 DEF IntactRows, ListsSorted
    <3> QED
      BY <3>2, <3>3, Zenon DEF IntactRows
  <2>6. Kind(main, p) # "pipe"
    BY <2>5, KindFacts DEF InGit
  <2>7. SameAt(main, tree, p)
    BY <2>4, <2>5, <2>6, <1>3
  <2> QED
    BY <2>1, <2>7
<1> QED
  BY <1>4, <1>6, <1>8, <1>9, SameIntact

(***************************************************************************)
(* The inductive invariant: what is edited is always a file tree, and what *)
(* is on main is a checkout of an intact one.                              *)
(***************************************************************************)
GateInv ==
  /\ IsRepo(tree)
  /\ main # Detached => IsRepo(main) /\ InGit(main) /\ Intact(main)

(* The invariant holds of a checkout that passes the check: CheckExact     *)
(* makes it intact.                                                        *)
LEMMA GateInitInv ==
  ASSUME GateInit
  PROVE  GateInv
<1>1. tree = Intact0 /\ main \in {Detached, Intact0}
  BY DEF GateInit, Init
<1>2. IsRepo(Intact0) /\ InGit(Intact0) /\ ExitStatus(Intact0) = 0
  BY RepoAssumption, PullAssumption
<1>3. Intact(Intact0)
  BY <1>2, CheckExact
<1> QED
  BY <1>1, <1>2, <1>3 DEF GateInv

(* Every edit, push and merge keeps the invariant: a merge that was        *)
(* checked by CheckExact, one that was not by UncheckedIntact.             *)
LEMMA GateStepInv ==
  ASSUME GateInv, [GateNext]_gateVars
  PROVE  GateInv'
<1>1. ASSUME main = Detached, Next, UNCHANGED main PROVE GateInv'
  <2>1. PICK e \in Edits : Edit(e)
    BY <1>1 DEF Next
  <2>2. IsNode(e[1], e[2])
    BY RepoAssumption
  <2>3. IsRepo(tree')
    BY <2>1, <2>2, EditKeeps DEF GateInv
  <2> QED
    BY <2>3, <1>1 DEF GateInv, Detached
<1>2. CASE Push
  <2>1. PICK e \in PullEdits : Edit(e)
    BY <1>2 DEF Push
  <2>2. IsNode(e[1], e[2])
    BY PullAssumption
  <2>3. IsRepo(tree')
    BY <2>1, <2>2, EditKeeps DEF GateInv
  <2>4. IsRepo(main) /\ InGit(main) /\ Intact(main) /\ main' = main
    BY <1>2 DEF Push, GateInv
  <2> QED
    BY <2>3, <2>4 DEF GateInv
<1>3. CASE Merge
  <2>1. IsRepo(tree) /\ IsRepo(main) /\ InGit(main) /\ Intact(main) /\ InGit(tree)
    BY <1>3 DEF Merge, GateInv
  <2>2. CASE CheckRuns
    <3>1. ExitStatus(tree) = 0
      BY <1>3, <2>2 DEF Merge
    <3>2. Intact(tree)
      BY <3>1, <2>1, CheckExact
    <3> QED
      BY <3>2, <2>1, <1>3 DEF Merge, GateInv
  <2>3. CASE ~CheckRuns
    <3>1. ~evidence_changed
      BY <2>3 DEF CheckRuns
    <3>2. Intact(tree)
      BY <3>1, <2>1, UncheckedIntact
    <3> QED
      BY <3>2, <2>1, <1>3 DEF Merge, GateInv
  <2> QED
    BY <2>2, <2>3
<1>4. CASE UNCHANGED gateVars
  BY <1>4 DEF gateVars, GateInv, Detached
<1> QED
  BY <1>1, <1>2, <1>3, <1>4 DEF GateNext

(***************************************************************************)
(* The tree under edit is always a file tree, and main a checkout of an    *)
(* intact one, whatever is edited, pushed and merged, and in which order.  *)
(***************************************************************************)
THEOREM GateInvariant == GateSpec => []GateInv
  BY GateInitInv, GateStepInv, PTL DEF GateSpec

(***************************************************************************)
(* In every tree that edits can lead to, checkRepo and everything it calls *)
(* report nothing exactly if the repository is intact.                     *)
(***************************************************************************)
THEOREM CheckPassesExactlyIntact == GateSpec => []PassesExactlyIntact
<1>1. GateInv => PassesExactlyIntact
  BY CheckExact DEF GateInv, PassesExactlyIntact
<1> QED
  BY <1>1, GateInvariant, PTL

(***************************************************************************)
(* The main branch stays intact, although the Check job is skipped when    *)
(* the classifier says that no evidence has changed.                       *)
(***************************************************************************)
THEOREM MainIsIntact == GateSpec => []MainStaysIntact
<1>1. GateInv => MainStaysIntact
  BY DEF GateInv, MainStaysIntact
<1> QED
  BY <1>1, GateInvariant, PTL
=============================================================================
