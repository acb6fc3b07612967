--------------------------- MODULE EncodingProofs ---------------------------
(***************************************************************************)
(* Proofs about the two uses of the length-value encoding.                 *)
(*                                                                         *)
(* Framing, for any byte alphabet, message specs, caps and buffers that    *)
(* satisfy the assumptions of the module, among them those framing.go      *)
(* asserts at compile time: the reader accepts a buffer exactly when it is *)
(* an encoding of field values within the caps, it never slices out of     *)
(* range, and what it has consumed is the encoding of what it has          *)
(* returned.  AcceptsExactlyEncodings is not inductive. That what was      *)
(* accepted is an encoding follows from ConsumedIsEncoded, at the end of   *)
(* the buffer, with as many fields as the spec has (ReaderInv). That no    *)
(* encoding is refused needs to know, while an encoding is read, that the  *)
(* fields so far are the ones it was made from (Expected): then the next   *)
(* length prefix is there (FieldAt, from NthField of LengthValueProofs)    *)
(* and within its limits, because the caps are (CapFacts, TotalCap).       *)
(*                                                                         *)
(* HashInput, for calls with arguments of any bytes and any length a       *)
(* three-byte prefix can express: no array with a secret in it is left     *)
(* behind by append, everything that was hashed can be read back from the  *)
(* hash input, and the padding fills the first block.  None of them is     *)
(* inductive. The invariant says which pieces are in the slice (LvInv: so  *)
(* many whole arguments, or the length prefix of one more; MacInv: the     *)
(* three stages of confirmationTag) and that the capacity is the one lvCat *)
(* reserved. That it always suffices is arithmetic over all the arguments: *)
(* the sum of their lengths is the length of the string (Capacity).        *)
(***************************************************************************)
EXTENDS Framing, HashInput, LengthValueProofs

---------------------------------------------------------------------------
(* Framing                                                                 *)

(* The three bytes every message starts with.                              *)
Header(m) == <<wireFormatV1, wireSuite, messageSpecs[m].role>>

(* The header is three bytes, and encode appends the fields to it.         *)
LEMMA HeaderFacts ==
  ASSUME NEW m \in DOMAIN messageSpecs
  PROVE  /\ Header(m) \in Strings /\ Len(Header(m)) = messageHeaderSize
         /\ Header(m)[1] = wireFormatV1 /\ Header(m)[2] = wireSuite
         /\ Header(m)[3] = messageSpecs[m].role
         /\ \A fs : encode(m, fs) = appendAll(Header(m), fs)
<1>1. wireFormatV1 \in Octets /\ wireSuite \in Octets /\ messageSpecs[m].role \in Octets
  BY BytesAssumption, CapsAssumption DEF SpecsOK, Octets
<1>2. PICK a \in Octets, b \in Octets, c \in Octets :
        a = wireFormatV1 /\ b = wireSuite /\ c = messageSpecs[m].role
  BY <1>1
<1>3. <<a, b, c>> \in Strings /\ Len(<<a, b, c>>) = 3
  BY DEF Strings
<1> QED
  BY <1>2, <1>3 DEF Header, encode, messageHeaderSize

(* The caps of a message, each below what a length prefix can express.     *)
LEMMA SpecFacts ==
  ASSUME NEW m \in DOMAIN messageSpecs
  PROVE  LET fs == messageSpecs[m].fields
         IN  /\ Len(fs) \in Nat /\ DOMAIN fs = 1 .. Len(fs)
             /\ \A i \in 1 .. Len(fs) :
                  /\ fs[i].length \in Nat /\ fs[i].exact \in BOOLEAN
                  /\ fs[i].length < Power[maxLEB128BytesForField]
<1> DEFINE FieldSpecs == [length : Nat, exact : BOOLEAN]
<1>1. PICK fs : fs = messageSpecs[m].fields /\ fs \in Seq(FieldSpecs)
  BY CapsAssumption DEF SpecsOK
<1>2. Len(fs) \in Nat /\ DOMAIN fs = 1 .. Len(fs)
  <2> HIDE DEF FieldSpecs
  <2> QED
    BY <1>1, LenProperties
<1>3. ASSUME NEW i \in 1 .. Len(fs)
      PROVE  /\ fs[i].length \in Nat /\ fs[i].exact \in BOOLEAN
             /\ fs[i].length < Power[maxLEB128BytesForField]
  <2>1. fs[i] \in FieldSpecs
    <3> HIDE DEF FieldSpecs
    <3> QED
      BY <1>1, ElementOfSeq
  <2>2. fs[i].length \in Nat /\ fs[i].exact \in BOOLEAN
    BY <2>1
  <2>3. fs[i].length <= Power[maxLEB128BytesForField] - 1
    BY <1>1, <1>2, CapsAssumption
  <2>4. Power[maxLEB128BytesForField] \in Nat
    BY PowerDef, LimitsAssumption
  <2> QED
    BY <2>2, <2>3, <2>4
<1> QED
  BY <1>1, <1>2, <1>3

(* Field values for message m, within its caps.                            *)
Valid(m) ==
  LET fs == messageSpecs[m].fields
  IN  {w \in [DOMAIN fs -> UNION {FieldValues(fs[i]) : i \in DOMAIN fs}] :
         \A i \in DOMAIN fs : w[i] \in FieldValues(fs[i])}

(* The encodings of a message are those of its valid field values.         *)
LEMMA EncodingsDef ==
  ASSUME NEW m \in DOMAIN messageSpecs
  PROVE  Encodings[m] = {encode(m, v) : v \in Valid(m)}
  BY DEF Encodings, Valid

(* Field values are the strings within the cap.                            *)
LEMMA FieldValueFacts ==
  ASSUME NEW f, f.length \in Nat, NEW x
  PROVE  x \in FieldValues(f) <=> x \in Seq(Alphabet) /\ WithinCap(f, x)
<1>1. ASSUME x \in FieldValues(f) PROVE x \in Seq(Alphabet) /\ WithinCap(f, x)
  <2>1. PICK n \in Nat : x \in [1 .. n -> Alphabet] /\ IF f.exact THEN n = f.length ELSE n <= f.length
    BY <1>1 DEF FieldValues
  <2>2. x \in Seq(Alphabet) /\ Len(x) = n
    BY <2>1
  <2> QED
    BY <2>1, <2>2 DEF WithinCap
<1>2. ASSUME x \in Seq(Alphabet), WithinCap(f, x) PROVE x \in FieldValues(f)
  <2>1. PICK n \in Nat : n = Len(x) /\ x \in [1 .. n -> Alphabet]
    BY <1>2, LenProperties
  <2>2. n \in IF f.exact THEN {f.length} ELSE 0 .. f.length
    BY <1>2, <2>1 DEF WithinCap
  <2> QED
    BY <2>1, <2>2 DEF FieldValues
<1> QED
  BY <1>1, <1>2

(* Strings over the bytes in use. The name is kept folded in most proofs.  *)
Texts == Seq(Alphabet)

(* They are byte strings.                                                  *)
LEMMA AlphabetStrings == Seq(Alphabet) \subseteq Strings /\ Texts \subseteq Strings
<1>1. Alphabet \subseteq Octets
  BY BytesAssumption DEF Octets
<1> QED
  BY <1>1, SeqMonotonic DEF Strings, Texts

(* Valid field values are one string within its cap for every field.       *)
LEMMA ValidFacts ==
  ASSUME NEW m \in DOMAIN messageSpecs, NEW v \in Valid(m)
  PROVE  LET fs == messageSpecs[m].fields
         IN  /\ v \in Seq(Strings) /\ Len(v) = Len(fs)
             /\ \A i \in 1 .. Len(fs) : v[i] \in Seq(Alphabet) /\ WithinCap(fs[i], v[i])
<1> DEFINE fs == messageSpecs[m].fields
<1>1. PICK n \in Nat : n = Len(fs) /\ DOMAIN fs = 1 .. n /\ \A i \in 1 .. n : fs[i].length \in Nat
  BY SpecFacts
<1>2. DOMAIN v = 1 .. n /\ v = [i \in 1 .. n |-> v[i]] /\ \A i \in 1 .. n : v[i] \in FieldValues(fs[i])
  BY <1>1 DEF Valid
<1>3. \A i \in 1 .. n : v[i] \in Seq(Alphabet) /\ WithinCap(fs[i], v[i])
  BY <1>1, <1>2, FieldValueFacts
<1>4. \A i \in 1 .. n : v[i] \in Strings
  BY <1>3, AlphabetStrings
<1>5. v \in [1 .. n -> Strings]
  BY <1>2, <1>4
<1>6. v \in Seq(Strings) /\ Len(v) = n
  BY <1>5
<1> QED
  BY <1>1, <1>3, <1>6

(* Such strings are valid field values.                                    *)
LEMMA ValidIntro ==
  ASSUME NEW m \in DOMAIN messageSpecs, NEW v \in Seq(Texts),
         Len(v) = Len(messageSpecs[m].fields),
         \A i \in 1 .. Len(v) : WithinCap(messageSpecs[m].fields[i], v[i])
  PROVE  v \in Valid(m)
<1> DEFINE fs == messageSpecs[m].fields
<1>1. PICK n \in Nat : n = Len(fs) /\ DOMAIN fs = 1 .. n /\ \A i \in 1 .. n : fs[i].length \in Nat
  BY SpecFacts
<1>2. v \in [1 .. n -> Texts]
  BY <1>1, LenProperties
<1>3. \A i \in 1 .. n : v[i] \in FieldValues(fs[i])
  BY <1>1, <1>2, FieldValueFacts DEF Texts
<1>4. v \in [DOMAIN fs -> UNION {FieldValues(fs[i]) : i \in DOMAIN fs}]
  BY <1>1, <1>2, <1>3
<1> QED
  BY <1>1, <1>3, <1>4 DEF Valid

(* A field within its cap has a length prefix within its limit.            *)
LEMMA CapFacts ==
  ASSUME NEW m \in DOMAIN messageSpecs, NEW i \in 1 .. Len(messageSpecs[m].fields),
         NEW x \in Strings, WithinCap(messageSpecs[m].fields[i], x)
  PROVE  /\ Len(x) <= messageSpecs[m].fields[i].length
         /\ Len(appendLEB128[Len(x)]) <= maxLEB128BytesForField
<1>1. PICK c \in Nat : c = messageSpecs[m].fields[i].length /\ c < Power[maxLEB128BytesForField]
  BY SpecFacts
<1>2. PICK l \in Nat : l = Len(x)
  BY DEF Strings
<1>3. l <= c
  BY <1>1, <1>2 DEF WithinCap
<1>4. PICK p \in Nat : p = Power[maxLEB128BytesForField]
  BY PowerDef, LimitsAssumption
<1>5. maxLEB128BytesForField \in Nat /\ maxLEB128BytesForField >= 1
  BY LimitsAssumption
<1>6. l < Power[maxLEB128BytesForField]
  BY <1>1, <1>3, <1>4
<1> QED
  BY <1>1, <1>2, <1>3, <1>5, <1>6, EncodingLength

(* No encoding of valid fields is longer than maxMessageLength: the sum    *)
(* that framing.go asserts at compile time bounds the length of every      *)
(* message.                                                                *)
LEMMA TotalCap ==
  ASSUME NEW m \in DOMAIN messageSpecs, NEW v \in Valid(m)
  PROVE  encode(m, v) \in Strings /\ Len(encode(m, v)) <= maxMessageLength
<1> DEFINE fs == messageSpecs[m].fields
<1>1. PICK n \in Nat : n = Len(fs) /\ \A i \in 1 .. n : fs[i].length \in Nat
  BY SpecFacts
<1>2. v \in Seq(Strings) /\ Len(v) = n
      /\ \A i \in 1 .. n : v[i] \in Strings /\ WithinCap(fs[i], v[i])
  BY <1>1, ValidFacts, AlphabetStrings
<1>3. PICK K \in Nat : K = maxLEB128BytesForField
  BY LimitsAssumption
<1> DEFINE Room(i) == K + fs[i].length
<1>4. \A i \in 1 .. n : Room(i) \in Nat
  BY <1>1
<1> DEFINE G == [i \in Nat |-> [x \in Nat |-> IF i \in 1 .. n THEN x + Room(i) ELSE x]]
           Eq(g) == g = [i \in 0 .. Len(fs) |-> IF i = 0 THEN messageHeaderSize
                                          ELSE g[i - 1] + maxLEB128BytesForField + fs[i].length]
<1>5. PICK f : Iterates(f, Nat, 3, G)
  <2>1. G \in Steps(Nat) /\ 3 \in Nat
    <3> HIDE DEF Room
    <3> QED
      BY <1>4 DEF Steps
  <2> HIDE DEF G
  <2> QED
    BY <2>1, PrimitiveRecursion
<1>6. f \in [Nat -> Nat] /\ f[0] = 3
  BY <1>5 DEF Iterates
<1>7. ASSUME NEW i \in 1 .. n PROVE f[i] = f[i - 1] + K + fs[i].length
  <2>1. i - 1 \in Nat /\ (i - 1) + 1 = i /\ i \in Nat
    OBVIOUS
  <2>2. f[i] = G[i][f[i - 1]] /\ f[i - 1] \in Nat
    BY <1>5, <2>1, ZenonT(60) DEF Iterates
  <2>3. f[i] = f[i - 1] + Room(i)
    <3> HIDE DEF Room
    <3> QED
      BY <2>1, <2>2
  <2>4. PICK a \in Nat, l \in Nat : a = f[i - 1] /\ l = fs[i].length
    BY <1>1, <2>2
  <2>41. PICK x : x = f[i]
    OBVIOUS
  <2>5. x = a + (K + l)
    BY <2>3, <2>4, <2>41
  <2>6. x = a + K + l
    BY <2>5
  <2> HIDE DEF fs, Room, G
  <2> QED
    BY <2>4, <2>41, <2>6
<1> HIDE DEF G
<1> DEFINE h == [i \in 0 .. n |-> f[i]]
<1>8. Eq(h)
  <2>1. ASSUME NEW i \in 0 .. n
        PROVE  h[i] = IF i = 0 THEN messageHeaderSize
                      ELSE h[i - 1] + maxLEB128BytesForField + fs[i].length
    <3>1. CASE i = 0
      BY <1>6, <3>1 DEF messageHeaderSize
    <3>2. CASE i # 0
      <4>1. i \in 1 .. n /\ i - 1 \in 0 .. n
        BY <3>2
      <4> QED
        BY <1>3, <1>7, <3>2, <4>1
    <3> QED
      BY <3>1, <3>2
  <2> QED
    BY <1>1, <2>1
<1>9. PICK g : Eq(g) /\ maxValidMessageLength(m) = g[n]
  <2>1. PICK g : Eq(g) /\ g = CHOOSE x : Eq(x)
    BY <1>8
  <2>2. maxValidMessageLength(m) = g[Len(fs)]
    BY <2>1 DEF maxValidMessageLength
  <2>3. maxValidMessageLength(m) = g[n]
    BY <1>1, <2>2
  <2> HIDE DEF Eq
  <2> QED
    BY <2>1, <2>3
<1> HIDE DEF h
<1>10. /\ g[0] = 3
       /\ \A i \in 0 .. n : i # 0 => g[i] = g[i - 1] + maxLEB128BytesForField + fs[i].length
  <2>1. g = [i \in 0 .. n |-> IF i = 0 THEN messageHeaderSize
                              ELSE g[i - 1] + maxLEB128BytesForField + fs[i].length]
    BY <1>1, <1>9
  <2>2. 0 \in 0 .. n
    OBVIOUS
  <2>3. g[0] = 3
    BY <2>1, <2>2 DEF messageHeaderSize
  <2>4. ASSUME NEW i \in 0 .. n, i # 0
        PROVE  g[i] = g[i - 1] + maxLEB128BytesForField + fs[i].length
    <3> HIDE DEF fs
    <3> QED
      BY <2>1, <2>4, Zenon
  <2> QED
    BY <2>3, <2>4
<1>11. PICK out : Accumulates(out, Header(m), v) /\ encode(m, v) = out[n]
  BY <1>2, HeaderFacts, AppendAllRun
<1> DEFINE S == {i \in Nat : i <= n => g[i] \in Nat /\ Len(out[i]) <= g[i]}
<1>12. 0 \in S
  <2>1. g[0] = 3 /\ out[0] = Header(m) /\ Len(Header(m)) = 3
    BY <1>10, <1>11, HeaderFacts DEF Accumulates, messageHeaderSize
  <2>2. g[0] \in Nat /\ Len(out[0]) <= g[0]
    BY <2>1
  <2> QED
    BY <2>2
<1>13. ASSUME NEW i \in S PROVE i + 1 \in S
  <2> SUFFICES ASSUME i + 1 <= n PROVE g[i + 1] \in Nat /\ Len(out[i + 1]) <= g[i + 1]
    OBVIOUS
  <2>1. PICK j \in 1 .. n : j = i + 1 /\ j - 1 = i /\ j \in 0 .. n /\ j # 0 /\ i \in 0 .. n
    OBVIOUS
  <2>2. PICK a \in Nat : a = g[i] /\ Len(out[i]) <= a
    BY <2>1
  <2>3. PICK c \in Nat : c = fs[j].length
    BY <1>1
  <2>4. g[j] = a + K + c
    BY <1>3, <1>10, <2>1, <2>2, <2>3
  <2>5. PICK x \in Strings : x = v[j] /\ WithinCap(fs[j], x)
    BY <1>2
  <2>6. PICK y \in Strings : y = out[i]
    BY <1>2, <1>11, <2>1 DEF Accumulates
  <2>7. PICK e \in Strings : e = appendLEB128[Len(x)]
    BY <2>6, AppendType
  <2>8. out[j] = y \o (e \o x)
    <3>1. out[j] = appendLengthValue(y, x)
      BY <1>2, <1>11, <2>1, <2>5, <2>6 DEF Accumulates
    <3> QED
      BY <2>7, <3>1, AppendType
  <2>9. /\ Len(out[j]) = Len(y) + (Len(e) + Len(x))
        /\ Len(y) \in Nat /\ Len(e) \in Nat /\ Len(x) \in Nat
    BY <2>8, StringConcat
  <2>10. Len(x) <= c /\ Len(e) <= K
    BY <1>1, <1>3, <2>3, <2>5, <2>7, CapFacts
  <2>11. a + K + c \in Nat /\ Len(y) + (Len(e) + Len(x)) <= a + K + c
    <3>1. PICK p \in Nat, q \in Nat, r \in Nat : p = Len(y) /\ q = Len(e) /\ r = Len(x)
      BY <2>9
    <3>2. p <= a /\ q <= K /\ r <= c
      BY <2>2, <2>6, <2>10, <3>1
    <3>3. a + K + c \in Nat /\ p + (q + r) <= a + K + c
      BY <3>2
    <3> QED
      BY <3>1, <3>3
  <2> QED
    BY <2>1, <2>4, <2>9, <2>11
<1>14. S \in SUBSET Nat
  OBVIOUS
<1> HIDE DEF S
<1>15. S = Nat
  BY <1>12, <1>13, <1>14, Induction
<1>16. g[n] \in Nat /\ Len(out[n]) <= g[n]
  <2>1. n \in S
    BY <1>15
  <2> QED
    BY <2>1 DEF S
<1>17. g[n] < maxMessageLength /\ maxMessageLength \in Nat
  BY <1>9, CapsAssumption, LimitsAssumption
<1>18. encode(m, v) \in Strings /\ Len(encode(m, v)) \in Nat
  <2>1. encode(m, v) \in Strings
    BY <1>2, HeaderFacts, AppendAllType
  <2> QED
    BY <2>1 DEF Strings
<1>19. PICK l \in Nat, t \in Nat, x \in Nat : l = Len(encode(m, v)) /\ t = g[n] /\ x = maxMessageLength
  BY <1>16, <1>17, <1>18
<1>20. l <= t /\ t < x
  BY <1>11, <1>16, <1>17, <1>19
<1> QED
  BY <1>18, <1>19, <1>20

(* A message starts with its header.                                       *)
LEMMA StartsWithHeader ==
  ASSUME NEW m \in DOMAIN messageSpecs, NEW v \in Seq(Strings)
  PROVE  \E rest \in Strings : encode(m, v) = Header(m) \o rest
<1>1. SubSeq(v, 1, 0) = <<>> /\ 0 \in 0 .. Len(v)
  BY SubSeqEmpty
<1>2. PICK rest \in Strings : encode(m, v) = appendAll(Header(m), SubSeq(v, 1, 0)) \o rest
  <2>1. Header(m) \in Strings /\ encode(m, v) = appendAll(Header(m), v)
    BY HeaderFacts
  <2>2. PICK h \in Strings : h = Header(m)
    BY <2>1
  <2>3. PICK i \in 0 .. Len(v) : i = 0
    BY <1>1
  <2>4. \E rest \in Strings : appendAll(h, v) = appendAll(h, SubSeq(v, 1, i)) \o rest
    BY AppendAllPrefix, Zenon
  <2> QED
    BY <2>1, <2>2, <2>3, <2>4, Zenon
<1>3. appendAll(Header(m), <<>>) = Header(m)
  BY HeaderFacts, AppendAllEmpty
<1> QED
  BY <1>1, <1>2, <1>3

(* While an encoding is read, the next field is there.                     *)
LEMMA FieldAt ==
  ASSUME NEW m \in DOMAIN messageSpecs, NEW v \in Valid(m), NEW i \in Nat, i < Len(v),
         NEW b \in Strings, b = encode(m, v), NEW o \in Nat, o <= Len(b),
         SubSeq(b, 1, o) = encode(m, SubSeq(v, 1, i))
  PROVE  \E p \in Nat : ReadsField(b, o, v[i + 1], p, maxLEB128BytesForField)
<1>1. /\ v \in Seq(Strings) /\ Len(v) = Len(messageSpecs[m].fields)
      /\ i + 1 \in 1 .. Len(v)
      /\ WithinCap(messageSpecs[m].fields[i + 1], v[i + 1])
  <2>1. v \in Seq(Strings) /\ Len(v) = Len(messageSpecs[m].fields)
    BY ValidFacts
  <2>2. i + 1 \in 1 .. Len(v)
    BY <2>1
  <2> QED
    BY <2>1, <2>2, ValidFacts
<1>2. Len(appendLEB128[Len(v[i + 1])]) <= maxLEB128BytesForField
  <2>1. v[i + 1] \in Strings
    BY <1>1, PrefixStep
  <2> QED
    BY <1>1, <2>1, CapFacts
<1>3. PICK h \in Strings : h = Header(m) /\ \A fs : encode(m, fs) = appendAll(h, fs)
  BY HeaderFacts
<1>4. PICK p \in Nat :
        ReadsField(appendAll(h, v), Len(appendAll(h, SubSeq(v, 1, i))), v[i + 1], p,
                   maxLEB128BytesForField)
  <2>1. maxLEB128BytesForField \in Nat
    BY LimitsAssumption
  <2> QED
    BY <1>1, <1>2, <2>1, NthField
<1>5. Len(SubSeq(b, 1, o)) = o
  <2>1. o \in 0 .. Len(b) /\ b \in Seq(Octets)
    BY DEF Strings
  <2> QED
    BY <2>1, PrefixFacts
<1> QED
  BY <1>3, <1>4, <1>5

(* Sequences of texts are sequences of byte strings.                       *)
LEMMA TextsSeq == Seq(Texts) \subseteq Seq(Strings)
  BY AlphabetStrings

(* A slice of a text is a text.                                            *)
LEMMA TextSlice ==
  ASSUME NEW b \in Texts, NEW a \in Nat, NEW c \in Nat, a <= c, c <= Len(b)
  PROVE  SubSeq(b, a + 1, c) \in Texts
<1>1. \A i \in a + 1 .. c : b[i] \in Alphabet
  BY DEF Texts
<1> QED
  BY <1>1, SubSeqProperties DEF Texts

(* Taking the bytes between p and q as the next field of fs.               *)
Takes(m, b, fs, p, q) ==
  LET x == SubSeq(b, p + 1, q)
  IN  x \in Texts /\ Len(x) = q - p /\ SubSeq(b, 1, q) = encode(m, Append(fs, x))

(* If the length prefix before p announces q - p bytes, the encoding grows *)
(* by that field.                                                          *)
LEMMA TakenField ==
  ASSUME NEW m \in DOMAIN messageSpecs, NEW b \in Texts, NEW o \in 0 .. Len(b),
         NEW fs \in Seq(Texts), SubSeq(b, 1, o) = encode(m, fs),
         NEW p \in Nat, NEW q \in Nat, o < p, p <= q, q <= Len(b),
         SubSeq(b, o + 1, p) = appendLEB128[q - p]
  PROVE  Takes(m, b, fs, p, q)
<1>0. Len(b) \in Nat /\ o \in Nat /\ b \in Strings /\ p <= q /\ p <= Len(b) /\ o <= p
  BY AlphabetStrings DEF Texts
<1>1. PICK x : x = SubSeq(b, p + 1, q)
  OBVIOUS
<1>2. x \in Texts
  BY <1>0, <1>1, TextSlice
<1>3. Len(x) = q - p /\ x \in Strings
  BY <1>0, <1>1, Slice
<1>4. PICK u \in Strings, e \in Strings :
        u = SubSeq(b, 1, o) /\ e = SubSeq(b, o + 1, p) /\ SubSeq(b, 1, q) = u \o (e \o x)
  BY <1>0, <1>1, ThreeSlices, ZenonT(60)
<1>9. encode(m, Append(fs, x)) = u \o (e \o x)
  <2>1. PICK h \in Strings : h = Header(m) /\ \A a : encode(m, a) = appendAll(h, a)
    BY HeaderFacts
  <2>2. PICK a \in Seq(Strings) : a = fs
    BY AlphabetStrings, TextsSeq
  <2>3. appendAll(h, Append(a, x)) = appendLengthValue(appendAll(h, a), x)
    BY <1>3, AppendAllAppend, Zenon
  <2>4. appendAll(h, a) = u
    BY <1>4, <2>1, <2>2
  <2>5. appendLengthValue(u, x) = u \o (appendLEB128[Len(x)] \o x)
    BY <1>3, AppendType
  <2> QED
    BY <1>3, <1>4, <2>1, <2>2, <2>3, <2>4, <2>5
<1> QED
  BY <1>1, <1>2, <1>3, <1>4, <1>9 DEF Takes

(* What newMessageReader looks for.                                        *)
HeaderMatches(b, m) ==
  /\ Len(b) >= messageHeaderSize
  /\ b[1] = wireFormatV1 /\ b[2] = wireSuite /\ b[3] = messageSpecs[m].role

(* The bytes it found are the encoding of no fields.                       *)
LEMMA HeaderConsumed ==
  ASSUME NEW m \in DOMAIN messageSpecs, NEW b \in Strings, HeaderMatches(b, m)
  PROVE  SubSeq(b, 1, messageHeaderSize) = encode(m, <<>>)
<1>1. PICK z \in Nat, k \in Nat : z = 0 /\ k = messageHeaderSize /\ k = 3 /\ k <= Len(b) /\ z <= k
  BY DEF HeaderMatches, messageHeaderSize, Strings
<1>2. PICK s : s = SubSeq(b, z + 1, k)
  OBVIOUS
<1>3. s \in Strings /\ Len(s) = k - z /\ \A i \in 1 .. k - z : s[i] = b[z + i]
  BY <1>1, <1>2, Slice
<1>4. Len(s) = 3 /\ s[1] = b[1] /\ s[2] = b[2] /\ s[3] = b[3]
  BY <1>1, <1>3
<1>5. PICK h \in Strings : h = Header(m) /\ Len(h) = 3 /\ h[1] = b[1] /\ h[2] = b[2] /\ h[3] = b[3]
                           /\ encode(m, <<>>) = appendAll(h, <<>>)
  BY HeaderFacts DEF HeaderMatches, messageHeaderSize
<1>6. s = h
  <2>1. Len(s) = Len(h) /\ \A i \in 1 .. Len(s) : s[i] = h[i]
    BY <1>4, <1>5
  <2> QED
    BY <1>3, <2>1, SeqEqual DEF Strings
<1>7. appendAll(h, <<>>) = h
  BY AppendAllEmpty
<1>8. z + 1 = 1
  BY <1>1
<1> QED
  BY <1>1, <1>2, <1>5, <1>6, <1>7, <1>8

(* It finds them in every encoding.                                        *)
LEMMA HeaderPresent ==
  ASSUME NEW m \in DOMAIN messageSpecs, NEW v \in Valid(m)
  PROVE  HeaderMatches(encode(m, v), m) /\ Len(encode(m, v)) <= maxMessageLength
<1>1. v \in Seq(Strings)
  BY ValidFacts
<1>2. PICK rest \in Strings : encode(m, v) = Header(m) \o rest
  BY <1>1, StartsWithHeader
<1>3. PICK h \in Strings : h = Header(m) /\ Len(h) = 3 /\ h[1] = wireFormatV1 /\ h[2] = wireSuite
                           /\ h[3] = messageSpecs[m].role
  BY HeaderFacts DEF messageHeaderSize
<1>4. PICK b : b = h \o rest
  OBVIOUS
<1>5. /\ Len(b) = Len(h) + Len(rest) /\ Len(rest) \in Nat
      /\ \A i \in 1 .. Len(h) : b[i] = h[i]
  BY <1>4, StringConcat
<1>6. Len(b) >= 3 /\ b[1] = h[1] /\ b[2] = h[2] /\ b[3] = h[3]
  BY <1>3, <1>5
<1>7. b = encode(m, v)
  BY <1>2, <1>3, <1>4
<1> QED
  BY <1>3, <1>6, <1>7, TotalCap DEF HeaderMatches, messageHeaderSize

(* Types, and where the reader is before it starts and when it is done.    *)
ReaderInv ==
  /\ TypeOK
  /\ fields \in Seq(Texts)
  /\ verdict = "new" => off = 0 /\ fields = <<>>
  /\ verdict = "ok" => off = Len(buf) /\ Len(fields) = Len(messageSpecs[msg].fields)

(* While it reads an encoding, the reader has the fields it was made from, *)
(* and it never refuses one.                                               *)
Expected ==
  \A v \in Valid(msg) :
    buf = encode(msg, v) =>
      /\ verdict # "ErrMessage"
      /\ verdict = "reading" => fields = SubSeq(v, 1, Len(fields))

(* The inductive invariant.                                                *)
Inv == ReaderInv /\ ConsumedIsEncoded /\ Expected

(* The initial states satisfy it.                                          *)
LEMMA InvInit == Init => Inv
<1> SUFFICES ASSUME Init PROVE Inv
  OBVIOUS
<1>1. TypeOK
  <2>1. buf \in Seq(Alphabet) /\ msg \in DOMAIN messageSpecs
    BY BytesAssumption DEF Init
  <2>2. Len(messageSpecs[msg].fields) \in Nat
    BY <2>1, SpecFacts
  <2>3. Len(buf) \in Nat /\ off = 0 /\ Len(fields) = 0
    BY <2>1 DEF Init
  <2> QED
    BY <2>1, <2>2, <2>3 DEF Init, TypeOK
<1>2. fields \in Seq(Texts)
  BY DEF Init
<1> QED
  BY <1>1, <1>2 DEF Init, Inv, ReaderInv, ConsumedIsEncoded, Expected

(* The types behind the names used in the proofs.                          *)
LEMMA Typing ==
  ASSUME TypeOK
  PROVE  /\ buf \in Texts /\ buf \in Strings /\ Len(buf) \in Nat
         /\ msg \in DOMAIN messageSpecs /\ off \in Nat /\ off <= Len(buf)
         /\ Len(messageSpecs[msg].fields) \in Nat
<1>1. buf \in Texts /\ Len(buf) \in Nat /\ msg \in DOMAIN messageSpecs
  BY DEF TypeOK, Texts
<1>2. buf \in Strings /\ Len(messageSpecs[msg].fields) \in Nat
  BY <1>1, AlphabetStrings, SpecFacts
<1> QED
  BY <1>1, <1>2 DEF TypeOK

(* newMessageReader keeps it.                                              *)
LEMMA InvHeader == Inv /\ newMessageReader => Inv'
<1> SUFFICES ASSUME Inv, newMessageReader PROVE Inv'
  OBVIOUS
<1>1. /\ buf \in Strings /\ Len(buf) \in Nat /\ msg \in DOMAIN messageSpecs
      /\ Len(messageSpecs[msg].fields) \in Nat
  BY Typing DEF Inv, ReaderInv
<1>2. CASE ~HeaderOK /\ Reject
  <2>1. ASSUME NEW v \in Valid(msg), buf = encode(msg, v) PROVE FALSE
    <3>1. HeaderMatches(buf, msg) /\ Len(buf) <= maxMessageLength
      BY <1>1, <2>1, HeaderPresent
    <3> QED
      BY <1>2, <3>1 DEF HeaderOK, HeaderMatches
  <2>2. ReaderInv'
    BY <1>2 DEF Inv, ReaderInv, TypeOK, Reject
  <2>3. Expected'
    BY <1>2, <2>1 DEF Reject, Expected, Valid, encode
  <2> QED
    BY <1>2, <2>2, <2>3 DEF Inv, Reject, ConsumedIsEncoded
<1>3. CASE /\ HeaderOK /\ off' = messageHeaderSize /\ verdict' = "reading"
           /\ UNCHANGED <<buf, msg, fields>>
  <2>1. fields = <<>> /\ Len(fields) = 0 /\ DOMAIN fields = {}
    BY DEF newMessageReader, Inv, ReaderInv
  <2>2. HeaderMatches(buf, msg)
    BY <1>3 DEF HeaderOK, HeaderMatches
  <2>3. SubSeq(buf, 1, messageHeaderSize) = encode(msg, <<>>)
    BY <1>1, <2>2, HeaderConsumed
  <2>4. off' \in 0 .. Len(buf)
    BY <1>1, <1>3, <2>2 DEF HeaderMatches, messageHeaderSize
  <2>5. ReaderInv'
    BY <1>3, <2>1, <2>4 DEF Inv, ReaderInv, TypeOK
  <2>6. ConsumedIsEncoded'
    BY <1>3, <2>1, <2>3 DEF ConsumedIsEncoded, encode
  <2>7. \A v \in Valid(msg) : <<>> = SubSeq(v, 1, 0)
    BY <1>1, ValidFacts, SubSeqEmpty
  <2>8. Expected'
    BY <1>3, <2>1, <2>7 DEF Expected, Valid, encode
  <2> QED
    BY <2>5, <2>6, <2>8 DEF Inv
<1> QED
  BY <1>2, <1>3 DEF newMessageReader

(* done keeps it: with every field read, the reader is at the end of an    *)
(* encoding.                                                               *)
LEMMA InvDone == Inv /\ done => Inv'
<1> SUFFICES ASSUME Inv, done PROVE Inv'
  OBVIOUS
<1>1. /\ buf \in Strings /\ Len(buf) \in Nat /\ msg \in DOMAIN messageSpecs
      /\ Len(messageSpecs[msg].fields) \in Nat
  BY Typing DEF Inv, ReaderInv
<1>2. CASE ~AtEnd /\ Reject
  <2>1. ASSUME NEW v \in Valid(msg), buf = encode(msg, v) PROVE FALSE
    <3>1. fields = SubSeq(v, 1, Len(fields)) /\ SubSeq(buf, 1, off) = encode(msg, fields)
      BY <2>1 DEF done, Inv, Expected, ConsumedIsEncoded
    <3>2. v \in Seq(Strings) /\ Len(v) = Len(fields)
      BY <1>1, ValidFacts DEF done
    <3>3. fields = v
      BY <3>1, <3>2, SubSeqFull
    <3>4. SubSeq(buf, 1, off) = buf
      BY <2>1, <3>1, <3>3
    <3>5. off \in Nat /\ off <= Len(buf)
      BY Typing DEF Inv, ReaderInv
    <3>6. Len(SubSeq(buf, 1, off)) = off
      <4>1. off \in 0 .. Len(buf) /\ buf \in Seq(Octets)
        BY <1>1, <3>5 DEF Strings
      <4> QED
        BY <4>1, PrefixFacts
    <3> QED
      BY <1>2, <3>4, <3>6 DEF AtEnd
  <2>2. ReaderInv'
    BY <1>2 DEF Inv, ReaderInv, TypeOK, Reject
  <2>3. Expected'
    BY <1>2, <2>1 DEF Reject, Expected, Valid, encode
  <2> QED
    BY <1>2, <2>2, <2>3 DEF Inv, Reject, ConsumedIsEncoded
<1>3. CASE AtEnd /\ verdict' = "ok" /\ UNCHANGED <<buf, msg, off, fields>>
  <2>1. ReaderInv'
    BY <1>3 DEF done, Inv, ReaderInv, TypeOK, AtEnd
  <2>2. ConsumedIsEncoded'
    BY <1>3 DEF done, Inv, ConsumedIsEncoded, encode
  <2>3. Expected'
    BY <1>3 DEF Expected, Valid, encode
  <2> QED
    BY <2>1, <2>2, <2>3 DEF Inv
<1> QED
  BY <1>2, <1>3 DEF done

(* readField keeps it.                                                     *)
LEMMA InvField == Inv /\ readField => Inv'
<1> SUFFICES ASSUME Inv, readField PROVE Inv'
  OBVIOUS
<1>1. /\ buf \in Texts /\ buf \in Strings /\ Len(buf) \in Nat /\ msg \in DOMAIN messageSpecs
      /\ off \in Nat /\ off <= Len(buf) /\ Len(messageSpecs[msg].fields) \in Nat
  BY Typing DEF Inv, ReaderInv
<1>2. /\ verdict = "reading" /\ fields \in Seq(Texts)
      /\ Len(fields) \in Nat /\ Len(fields) < Len(messageSpecs[msg].fields)
      /\ SubSeq(buf, 1, off) = encode(msg, fields)
  BY DEF readField, Inv, ReaderInv, ConsumedIsEncoded
<1>3. PICK k \in Nat : k = Len(fields) /\ k + 1 \in 1 .. Len(messageSpecs[msg].fields)
  BY <1>1, <1>2
<1>4. PICK spec : spec = NextField /\ spec = messageSpecs[msg].fields[k + 1]
  BY <1>3 DEF NextField
<1>5. spec.length \in Nat /\ spec.exact \in BOOLEAN
  BY <1>1, <1>3, <1>4, SpecFacts
<1>6. PICK l : l = readLEB128(buf, off, maxLEB128BytesForField)
  OBVIOUS
<1>7. PICK ok : ok = (l.ok /\ validateMessageLength(spec, l.n) /\ Fits(l.next, l.n))
  OBVIOUS
<1>8. \/ ~ok /\ Reject
      \/ ok /\ TakeField(l.next, l.n) /\ UNCHANGED <<buf, msg>>
  BY <1>4, <1>6, <1>7 DEF readField
<1>9. ASSUME NEW v \in Valid(msg), buf = encode(msg, v)
      PROVE  /\ ok
             /\ SubSeq(buf, l.next + 1, l.next + l.n) = v[k + 1]
             /\ SubSeq(v, 1, k + 1) = Append(fields, v[k + 1])
  <2>1. fields = SubSeq(v, 1, k)
    BY <1>2, <1>3, <1>9 DEF Inv, Expected
  <2>2. /\ v \in Seq(Strings) /\ Len(v) = Len(messageSpecs[msg].fields) /\ k < Len(v)
        /\ WithinCap(spec, v[k + 1])
    BY <1>1, <1>3, <1>4, ValidFacts
  <2>3. SubSeq(v, 1, k + 1) = Append(fields, v[k + 1]) /\ v[k + 1] \in Strings
    BY <2>1, <2>2, PrefixStep
  <2>4. PICK f \in Strings : f = v[k + 1] /\ Len(f) \in Nat
    BY <2>3 DEF Strings
  <2>5. PICK p \in Nat : ReadsField(buf, off, f, p, maxLEB128BytesForField)
    <3>1. SubSeq(buf, 1, off) = encode(msg, SubSeq(v, 1, k))
      BY <1>2, <2>1
    <3>2. \E p \in Nat : ReadsField(buf, off, v[k + 1], p, maxLEB128BytesForField)
      BY <1>1, <1>9, <2>2, <3>1, FieldAt
    <3> QED
      BY <2>4, <3>2
  <2>6. l = [n |-> Len(f), next |-> p, ok |-> TRUE] /\ p + Len(f) <= Len(buf)
        /\ SubSeq(buf, p + 1, p + Len(f)) = f
    BY <1>6, <2>5 DEF ReadsField
  <2>7. l.n = Len(f) /\ l.next = p /\ l.ok
    BY <2>6
  <2>8. validateMessageLength(spec, Len(f)) /\ Fits(p, Len(f))
    BY <1>1, <2>2, <2>4, <2>6 DEF validateMessageLength, WithinCap, Fits
  <2> QED
    BY <1>7, <2>3, <2>4, <2>6, <2>7, <2>8
<1>10. CASE ~ok /\ Reject
  <2>1. ReaderInv'
    BY <1>10 DEF Inv, ReaderInv, TypeOK, Reject
  <2>2. Expected'
    BY <1>9, <1>10 DEF Reject, Expected, Valid, encode
  <2> QED
    BY <1>10, <2>1, <2>2 DEF Inv, Reject, ConsumedIsEncoded
<1>11. CASE ok /\ TakeField(l.next, l.n) /\ UNCHANGED <<buf, msg>>
  <2>1. l.ok /\ validateMessageLength(spec, l.n) /\ Fits(l.next, l.n)
    BY <1>7, <1>11
  <2>2. PICK n \in Nat, p \in Nat :
          /\ n = l.n /\ p = l.next /\ off < p /\ p <= Len(buf)
          /\ SubSeq(buf, off + 1, p) = appendLEB128[n]
    <3>1. off \in 0 .. Len(buf) /\ maxLEB128BytesForField \in Nat
      BY <1>1, LimitsAssumption
    <3>2. readLEB128(buf, off, maxLEB128BytesForField).ok
      BY <1>6, <2>1
    <3> QED
      BY <1>1, <1>6, <3>1, <3>2, ReadSound, ZenonT(60)
  <2>3. PICK q \in Nat : q = p + n /\ q <= Len(buf) /\ p <= q /\ q - p = n
    <3>1. Len(buf) - p >= n
      BY <2>1, <2>2 DEF Fits
    <3>2. p + n \in Nat /\ p + n <= Len(buf) /\ p <= p + n /\ (p + n) - p = n
      BY <1>1, <3>1
    <3> QED
      BY <3>2
  <2>4. PICK x : x = SubSeq(buf, p + 1, q)
    OBVIOUS
  <2>5. x \in Texts /\ Len(x) = n /\ SubSeq(buf, 1, q) = encode(msg, Append(fields, x))
    <3>1. off \in 0 .. Len(buf)
      BY <1>1
    <3>2. SubSeq(buf, off + 1, p) = appendLEB128[q - p]
      BY <2>2, <2>3
    <3>3. Takes(msg, buf, fields, p, q)
      <4>1. off < p /\ p <= q /\ q <= Len(buf)
        BY <2>2, <2>3
      <4>2. SubSeq(buf, 1, off) = encode(msg, fields) /\ fields \in Seq(Texts)
        BY <1>2
      <4> QED
        BY <1>1, <3>1, <3>2, <4>1, <4>2, TakenField
    <3> QED
      BY <2>3, <2>4, <3>3 DEF Takes
  <2>6. fields' = Append(fields, x) /\ off' = q /\ verdict' = "reading" /\ buf' = buf /\ msg' = msg
    <3>1. TakeField(p, n) /\ ~(p + n > Len(buf)) /\ buf' = buf /\ msg' = msg
      BY <1>1, <1>11, <2>2, <2>3
    <3>2. /\ fields' = Append(fields, SubSeq(buf, p + 1, p + n)) /\ off' = p + n
          /\ verdict' = verdict
      BY <3>1, Zenon DEF TakeField
    <3> QED
      BY <1>2, <2>3, <2>4, <3>1, <3>2
  <2>7. /\ fields' \in Seq(Texts) /\ Len(fields') = k + 1
        /\ fields'[k + 1] = x /\ \A i \in 1 .. k : fields'[i] = fields[i]
    BY <1>2, <1>3, <2>5, <2>6, AppendProperties
  <2>8. ReaderInv'
    <3>1. off' \in 0 .. Len(buf)
      BY <2>3, <2>6
    <3> QED
      BY <1>1, <1>3, <2>6, <2>7, <3>1 DEF Inv, ReaderInv, TypeOK
  <2>9. ConsumedIsEncoded'
    <3>1. ASSUME NEW i \in 1 .. k + 1
          PROVE  WithinCap(messageSpecs[msg].fields[i], fields'[i])
      <4>1. CASE i = k + 1
        BY <1>4, <2>1, <2>2, <2>5, <2>7, <4>1 DEF validateMessageLength, WithinCap
      <4>2. CASE i # k + 1
        <5>1. i \in 1 .. k
          BY <4>2
        <5>2. WithinCap(messageSpecs[msg].fields[i], fields[i])
          BY <1>2, <1>3, <5>1 DEF Inv, ConsumedIsEncoded
        <5> QED
          BY <2>7, <5>1, <5>2
      <4> QED
        BY <4>1, <4>2
    <3>2. DOMAIN fields' = 1 .. k + 1
      BY <2>7
    <3>3. SubSeq(buf, 1, q) = encode(msg, fields')
      BY <2>5, <2>6
    <3> QED
      BY <2>6, <3>1, <3>2, <3>3 DEF ConsumedIsEncoded, encode, WithinCap
  <2>10. Expected'
    <3>1. ASSUME NEW v \in Valid(msg), buf = encode(msg, v)
          PROVE  fields' = SubSeq(v, 1, Len(fields'))
      BY <1>9, <2>2, <2>3, <2>4, <2>6, <2>7, <3>1
    <3> QED
      BY <2>6, <3>1, SMTT(60) DEF Expected, Valid, encode
  <2> QED
    BY <2>8, <2>9, <2>10 DEF Inv
<1> QED
  BY <1>8, <1>10, <1>11

(* Every step keeps it.                                                    *)
LEMMA InvNext == Inv /\ [Next]_vars => Inv'
<1> SUFFICES ASSUME Inv, [Next]_vars PROVE Inv'
  OBVIOUS
<1>1. CASE UNCHANGED vars
  <2>1. ReaderInv'
    BY <1>1 DEF vars, Inv, ReaderInv, TypeOK
  <2>2. ConsumedIsEncoded'
    BY <1>1 DEF vars, Inv, ConsumedIsEncoded, encode
  <2>3. Expected'
    BY <1>1 DEF vars, Inv, Expected, encode, Valid
  <2> QED
    BY <2>1, <2>2, <2>3 DEF Inv
<1> QED
  BY <1>1, InvHeader, InvField, InvDone DEF Next

(* So it always holds.                                                     *)
LEMMA Invariance == Spec => []Inv
  BY InvInit, InvNext, PTL DEF Spec

(* The reader state is well typed: its offset stays within the buffer and  *)
(* readField never slices out of range, whatever the peer sent             *)
(* (framing.go:206).                                                       *)
THEOREM TypeCorrect == Spec => []TypeOK
<1>1. Inv => TypeOK
  BY DEF Inv, ReaderInv
<1> QED
  BY <1>1, Invariance, PTL

(* ConsumedIsEncoded: what the reader has consumed is, byte for byte, the  *)
(* encoding of the fields it has returned, each within its cap.            *)
THEOREM ReadsWhatWasWritten == Spec => []ConsumedIsEncoded
<1>1. Inv => ConsumedIsEncoded
  BY DEF Inv
<1> QED
  BY <1>1, Invariance, PTL

(* AcceptsExactlyEncodings: the reader accepts exactly the encodings of    *)
(* field values within the caps and refuses everything else with           *)
(* ErrMessage.                                                             *)
THEOREM ReaderExact == Spec => []AcceptsExactlyEncodings
<1>1. Inv => AcceptsExactlyEncodings
  <2> SUFFICES ASSUME Inv PROVE AcceptsExactlyEncodings
    OBVIOUS
  <2>1. /\ buf \in Strings /\ msg \in DOMAIN messageSpecs /\ verdict \in {"new", "reading", "ok", "ErrMessage"}
    BY Typing DEF Inv, ReaderInv, TypeOK
  <2>2. Encodings[msg] = {encode(msg, v) : v \in Valid(msg)}
    BY <2>1, EncodingsDef
  <2>3. verdict = "ok" => buf \in Encodings[msg]
    <3> SUFFICES ASSUME verdict = "ok" PROVE buf \in Encodings[msg]
      OBVIOUS
    <3>1. SubSeq(buf, 1, off) = encode(msg, fields) /\ off = Len(buf) /\ fields \in Seq(Texts)
          /\ Len(fields) = Len(messageSpecs[msg].fields)
      BY DEF Inv, ConsumedIsEncoded, ReaderInv
    <3>2. buf = encode(msg, fields)
      BY <2>1, <3>1, WholeSlice
    <3>3. \A i \in 1 .. Len(fields) : WithinCap(messageSpecs[msg].fields[i], fields[i])
      BY <3>1 DEF Inv, ConsumedIsEncoded
    <3>4. fields \in Valid(msg)
      BY <2>1, <3>1, <3>3, ValidIntro
    <3> QED
      BY <2>2, <3>2, <3>4
  <2>4. verdict = "ErrMessage" => buf \notin Encodings[msg]
    BY <2>2 DEF Inv, Expected
  <2> QED
    BY <2>1, <2>3, <2>4 DEF AcceptsExactlyEncodings
<1> QED
  BY <1>1, Invariance, PTL

---------------------------------------------------------------------------
(* Hash inputs                                                             *)

(* One field more.                                                         *)
Advance(b, acc) ==
  LET r == readLEB128(b, acc.next, maxLengthBytes)
  IN  [next |-> r.next + r.n, fields |-> Append(acc.fields, SubSeq(b, r.next + 1, r.next + r.n))]

(* What the first i fields leave behind when they are read.                *)
ReadRun(read, b, n) ==
  read = [i \in 0 .. n |->
            IF i = 0 THEN [next |-> 0, fields |-> <<>>]
            ELSE Advance(b, read[i - 1])]

(* ReadFields returns the fields of the last value of its loop.            *)
LEMMA ReadRunDef ==
  ASSUME NEW b, NEW n, NEW read, ReadRun(read, b, n)
  PROVE  \E run : ReadRun(run, b, n) /\ ReadFields(b, n) = run[n].fields
<1>1. PICK g : ReadRun(g, b, n) /\ g = CHOOSE x : ReadRun(x, b, n)
  OBVIOUS
<1>2. ReadFields(b, n) = g[n].fields
  BY <1>1, ZenonT(60) DEF ReadFields, ReadRun, Advance
<1> QED
  BY <1>1, <1>2

(* The state of that loop.                                                 *)
State(at, fs) == [next |-> at, fields |-> fs]

(* A field that is there is read.                                          *)
LEMMA ReadStep ==
  ASSUME NEW b, NEW at \in Nat, NEW fs, NEW f, NEW p \in Nat, NEW acc, acc = State(at, fs),
         ReadsField(b, at, f, p, maxLengthBytes)
  PROVE  Advance(b, acc) = State(p + Len(f), Append(fs, f))
<1>1. acc.next = at /\ acc.fields = fs
  BY DEF State
<1>2. PICK r : r = readLEB128(b, at, maxLengthBytes)
  OBVIOUS
<1>3. r.next = p /\ r.n = Len(f) /\ SubSeq(b, p + 1, p + Len(f)) = f
  BY <1>2 DEF ReadsField
<1> QED
  BY <1>1, <1>2, <1>3 DEF State, Advance

(* The empty string is a byte string.                                      *)
LEMMA EmptyString == <<>> \in Strings /\ Len(<<>>) = 0
<1>1. <<>> \in Seq(Octets)
  OBVIOUS
<1> QED
  BY <1>1 DEF Strings

(* Strings whose length takes a prefix of at most three bytes.             *)
IsFields(args) == args \in Seq(Strings) /\ \A i \in 1 .. Len(args) : Len(args[i]) < Power[maxLengthBytes]

(* What n length-value fields were written, n fields read.                 *)
LEMMA ReadAll ==
  ASSUME NEW args, IsFields(args)
  PROVE  ReadFields(lvCat(args), Len(args)) = args
<1>0. args \in Seq(Strings) /\ \A i \in 1 .. Len(args) : Len(args[i]) < Power[maxLengthBytes]
  BY DEF IsFields
<1>1. PICK n \in Nat : n = Len(args)
  BY <1>0
<1>2. PICK dst \in Strings : dst = <<>>
  BY EmptyString
<1>3. PICK b : b = lvCat(args) /\ b = appendAll(dst, args)
  BY <1>2 DEF lvCat
<1> DEFINE At(i) == Len(appendAll(dst, SubSeq(args, 1, i)))
           Good(i) == State(At(i), SubSeq(args, 1, i))
<1>4. \A i \in 0 .. n : At(i) \in Nat
  <2>1. ASSUME NEW i \in 0 .. n PROVE At(i) \in Nat
    <3>1. PICK a \in Seq(Strings) : a = SubSeq(args, 1, i)
      BY <1>0, <1>1, PrefixFacts
    <3>2. appendAll(dst, a) \in Strings
      BY AppendAllType, Zenon
    <3> QED
      BY <3>1, <3>2 DEF Strings
  <2> QED
    BY <2>1
<1>5. Good(0) = [next |-> 0, fields |-> <<>>]
  <2>1. SubSeq(args, 1, 0) = <<>>
    BY <1>0, SubSeqEmpty
  <2>2. appendAll(dst, <<>>) = dst /\ Len(dst) = 0
    BY <1>2, AppendAllEmpty
  <2> QED
    BY <2>1, <2>2 DEF State
<1>6. ASSUME NEW i \in Nat, i < n
      PROVE  Advance(b, Good(i)) = Good(i + 1)
  <2>1. /\ i < Len(args) /\ i \in 0 .. n
        /\ SubSeq(args, 1, i + 1) = Append(SubSeq(args, 1, i), args[i + 1]) /\ args[i + 1] \in Strings
        /\ Len(args[i + 1]) < Power[maxLengthBytes]
    BY <1>0, <1>1, <1>6, PrefixStep
  <2>2. Len(appendLEB128[Len(args[i + 1])]) <= maxLengthBytes
    <3>1. PICK k \in Nat : k = Len(args[i + 1]) /\ k < Power[maxLengthBytes]
      BY <2>1 DEF Strings
    <3>2. maxLengthBytes \in Nat /\ maxLengthBytes >= 1
      BY DEF maxLengthBytes
    <3> QED
      BY <3>1, <3>2, EncodingLength
  <2>3. PICK p \in Nat :
          /\ ReadsField(appendAll(dst, args), At(i), args[i + 1], p, maxLengthBytes)
          /\ p + Len(args[i + 1]) = At(i + 1)
    <3>1. maxLengthBytes \in Nat
      BY DEF maxLengthBytes
    <3> QED
      BY <1>0, <2>1, <2>2, <3>1, NthField, ZenonT(60)
  <2>8. PICK at \in Nat : at = At(i)
    BY <1>4, <2>1
  <2>4. PICK fs, f, acc :
          at = At(i) /\ fs = SubSeq(args, 1, i) /\ f = args[i + 1] /\ acc = Good(i)
    BY <2>8
  <2>5. acc = State(at, fs) /\ ReadsField(b, at, f, p, maxLengthBytes)
    BY <1>3, <2>3, <2>4
  <2>6. Good(i + 1) = State(p + Len(f), Append(fs, f))
    BY <2>1, <2>3, <2>4
  <2>7. Advance(b, acc) = State(p + Len(f), Append(fs, f))
    <3> HIDE DEF Good, At
    <3> QED
      BY <2>5, ReadStep
  <2> HIDE DEF Good
  <2> QED
    BY <2>4, <2>6, <2>7
<1> HIDE DEF Good
<1> DEFINE w == [i \in 0 .. n |-> Good(i)]
<1>7. ReadRun(w, b, n)
  <2>1. ASSUME NEW i \in 0 .. n
        PROVE  w[i] = IF i = 0 THEN [next |-> 0, fields |-> <<>>]
                      ELSE Advance(b, w[i - 1])
    <3>1. CASE i = 0
      BY <1>5, <3>1
    <3>2. CASE i # 0
      <4>1. PICK j \in Nat : j < n /\ i = j + 1 /\ i - 1 = j /\ j \in 0 .. n
        <5>1. i - 1 \in Nat /\ i - 1 < n /\ i = (i - 1) + 1 /\ i - 1 \in 0 .. n
          BY <3>2
        <5> QED
          BY <5>1
      <4>2. w[i - 1] = Good(j) /\ w[i] = Good(j + 1)
        BY <4>1
      <4> HIDE DEF w
      <4> QED
        BY <1>6, <3>2, <4>1, <4>2
    <3> QED
      BY <3>1, <3>2
  <2> HIDE DEF Good
  <2> QED
    BY <2>1 DEF ReadRun
<1>8. PICK run : ReadRun(run, b, n) /\ ReadFields(b, n) = run[n].fields
  <2> HIDE DEF w
  <2> QED
    BY <1>7, ReadRunDef
<1> HIDE DEF w
<1> DEFINE S == {i \in Nat : i <= n => run[i] = Good(i)}
<1>9. 0 \in S
  <2>1. 0 \in 0 .. n
    OBVIOUS
  <2> QED
    BY <1>5, <1>8, <2>1 DEF ReadRun
<1>10. ASSUME NEW i \in S PROVE i + 1 \in S
  <2> SUFFICES ASSUME i + 1 <= n PROVE run[i + 1] = Good(i + 1)
    OBVIOUS
  <2>1. i \in Nat /\ i < n /\ i + 1 \in 0 .. n /\ i + 1 # 0 /\ (i + 1) - 1 = i
    OBVIOUS
  <2>2. run[i] = Good(i)
    BY <2>1
  <2>3. PICK k \in 0 .. n : k = i + 1 /\ k # 0 /\ k - 1 = i
    BY <2>1
  <2>4. run[k] = Advance(b, run[k - 1])
    BY <1>8, <2>3 DEF ReadRun
  <2> QED
    BY <1>6, <2>1, <2>2, <2>3, <2>4
<1>11. run[n] = Good(n)
  <2>1. S \in SUBSET Nat /\ 0 \in S /\ \A i \in S : i + 1 \in S
    BY <1>9, <1>10
  <2> HIDE DEF S
  <2>2. S = Nat
    BY <2>1, Induction
  <2> USE DEF S
  <2> QED
    BY <2>2
<1>12. SubSeq(args, 1, n) = args
  BY <1>0, <1>1, SubSeqFull
<1> QED
  BY <1>1, <1>3, <1>8, <1>11, <1>12 DEF Good, State

(* Strings shorter than 128 bytes are.                                     *)
LEMMA ShortField ==
  ASSUME NEW b \in Strings, Len(b) < 128
  PROVE  IsField(b)
<1>1. Power[1] = Base /\ Power[1] <= Power[3] /\ Power[3] \in Nat
  <2>1. Power[0] = 1 /\ Power[0 + 1] = Base * Power[0] /\ Power[3] \in Nat
    BY PowerDef
  <2>2. Power[1] <= Power[3]
    BY PowerMonotone
  <2> QED
    BY <2>1, <2>2, BaseAssumption
<1>2. Len(b) < Power[3]
  <2>1. Len(b) \in Nat
    BY DEF Strings
  <2> QED
    BY <1>1, <2>1, BaseAssumption, BlockAssumption DEF sha512BlockSize
<1> QED
  BY <1>2 DEF IsField, Strings, Octets, maxLengthBytes

(* The arguments of a call are.                                            *)
LEMMA FieldFacts ==
  ASSUME NEW b, IsField(b)
  PROVE  b \in Strings /\ Len(b) \in Nat /\ Len(b) < Power[maxLengthBytes]
  BY DEF IsField, Strings, Octets

(* ASCII characters are bytes.                                             *)
LEMMA ByteIsOctet == 0 .. 127 \subseteq Octets
  BY BaseAssumption, BlockAssumption DEF Octets, sha512BlockSize

(* One byte n times.                                                       *)
Repeat(n, x) == [i \in 1 .. n |-> x]

(* The same for padding and labels.                                        *)
LEMMA Repeated ==
  ASSUME NEW n \in 0 .. 127, NEW x \in 0 .. 127
  PROVE  IsField(Repeat(n, x)) /\ Len(Repeat(n, x)) = n
<1>1. PICK b : b = Repeat(n, x)
  OBVIOUS
<1>2. x \in Octets
  BY ByteIsOctet
<1>3. b \in Seq(Octets) /\ Len(b) = n
  BY <1>1, <1>2 DEF Repeat
<1>4. IsField(b)
  BY <1>3, ShortField DEF Strings
<1> QED
  BY <1>1, <1>3, <1>4

(* The domain separation labels, and how long they are.                    *)
LEMMA LabelFields ==
  /\ IsField(dsiX25519) /\ Len(dsiX25519) = 8
  /\ IsField(dsiISK) /\ Len(dsiISK) = 12
  /\ IsField(MacLabel) /\ Len(MacLabel) = 8
<1>1. dsiX25519 \in Seq(0 .. 127) /\ Len(dsiX25519) = 8
  BY DEF dsiX25519
<1>2. MacLabel \in Seq(0 .. 127) /\ Len(MacLabel) = 8
  BY DEF MacLabel
<1>3. PICK t \in Seq(0 .. 127) : t = <<95, 73, 83, 75>> /\ Len(t) = 4
  <2>1. <<95, 73, 83, 75>> \in Seq(0 .. 127) /\ Len(<<95, 73, 83, 75>>) = 4
    OBVIOUS
  <2> QED
    BY <2>1
<1>4. dsiX25519 \in Strings /\ MacLabel \in Strings /\ t \in Strings
  BY <1>1, <1>2, <1>3, ByteIsOctet, SeqMonotonic, ZenonT(60) DEF Strings
<1>5. dsiX25519 \o t \in Strings /\ Len(dsiX25519 \o t) = Len(dsiX25519) + Len(t)
  BY <1>4, StringConcat
<1>6. dsiISK \in Strings /\ Len(dsiISK) = 12
  BY <1>1, <1>3, <1>5 DEF dsiISK
<1>7. \A b \in Strings : Len(b) < 128 => IsField(b)
  BY ShortField
<1>8. IsField(dsiX25519) /\ IsField(dsiISK) /\ IsField(MacLabel)
  <2>1. Len(dsiX25519) < 128 /\ Len(dsiISK) < 128 /\ Len(MacLabel) < 128
    BY <1>1, <1>2, <1>6
  <2> QED
    BY <1>4, <1>6, <1>7, <2>1, Zenon
<1> QED
  BY <1>1, <1>2, <1>6, <1>8

(* The larger of a number and 0.                                           *)
LEMMA MaxOf ==
  ASSUME NEW a \in Int
  PROVE  Max({a, 0}) = IF a >= 0 THEN a ELSE 0
<1>1. PICK x : x = IF a >= 0 THEN a ELSE 0
  OBVIOUS
<1>2. x \in {a, 0} /\ \A y \in {a, 0} : x >= y
  BY <1>1
<1>3. \A z \in {a, 0} : (\A y \in {a, 0} : z >= y) => z = x
  BY <1>1
<1> QED
  BY <1>1, <1>2, <1>3 DEF Max

(* Length prefixes have at least one byte, and one below 128.              *)
LEMMA LengthFacts ==
  /\ \A n \in Nat : leb128LenInt[n] \in Nat /\ leb128LenInt[n] >= 1 /\ lengthValueLen(n) \in Nat
                    /\ lengthValueLen(n) = leb128LenInt[n] + n
  /\ \A n \in 0 .. 127 : leb128LenInt[n] = 1
<1>1. ASSUME NEW n \in Nat PROVE Len(appendLEB128[n]) \in Nat /\ Len(appendLEB128[n]) >= 1
  <2>1. IsCode(appendLEB128[n], n)
    BY EncodingIsCode
  <2> QED
    BY <2>1 DEF IsCode, Terminated, Strings
<1>2. ASSUME NEW n \in 0 .. 127 PROVE Len(appendLEB128[n]) = 1
  <2>1. n \in Nat /\ n < Base
    BY BaseAssumption, BlockAssumption DEF sha512BlockSize
  <2>2. appendLEB128[n] = <<n>>
    BY <2>1, LEBDef
  <2> QED
    BY <2>2
<1>3. ASSUME NEW n \in Nat PROVE leb128LenInt[n] = Len(appendLEB128[n])
  BY LenDef
<1>4. ASSUME NEW n \in 0 .. 127 PROVE leb128LenInt[n] = 1
  <2>1. n \in Nat
    OBVIOUS
  <2> QED
    BY <1>2, <1>3, <2>1
<1>5. ASSUME NEW n \in Nat
      PROVE  /\ leb128LenInt[n] \in Nat /\ leb128LenInt[n] >= 1
             /\ lengthValueLen(n) \in Nat /\ lengthValueLen(n) = leb128LenInt[n] + n
  <2>1. PICK k \in Nat : k = leb128LenInt[n] /\ k >= 1
    BY <1>1, <1>3
  <2> QED
    BY <2>1 DEF lengthValueLen
<1> QED
  BY <1>4, <1>5

(* The padding fills the first block exactly, or the password did.         *)
LEMMA Padding ==
  ASSUME NEW prs \in Strings
  PROVE  LET z    == zpadLen(prs)
             upTo == lengthValueLen(8) + lengthValueLen(Len(prs)) + lengthValueLen(z)
         IN  /\ z \in 0 .. 127
             /\ upTo >= sha512BlockSize
             /\ z > 0 => upTo = sha512BlockSize
             /\ leb128LenInt[z] = 1
<1>1. PICK q \in Nat : q = lengthValueLen(Len(prs))
  <2>1. Len(prs) \in Nat
    BY DEF Strings
  <2> QED
    BY <2>1, LengthFacts
<1>2. lengthValueLen(8) = 9
  <2>1. 8 \in 0 .. 127 /\ 8 \in Nat
    OBVIOUS
  <2> QED
    BY <2>1, LengthFacts
<1>3. zpadLen(prs) = Max({128 - q - 9 - 1, 0})
  BY <1>1, <1>2, LabelFields, ZenonT(60) DEF zpadLen, sha512BlockSize
<1>4. PICK z : z = zpadLen(prs) /\ z = IF 128 - q - 9 - 1 >= 0 THEN 128 - q - 9 - 1 ELSE 0
  <2>1. 128 - q - 9 - 1 \in Int
    OBVIOUS
  <2> QED
    BY <1>3, <2>1, MaxOf
<1>5. z \in 0 .. 127 /\ z \in Nat
  BY <1>4
<1>6. leb128LenInt[z] = 1 /\ lengthValueLen(z) = 1 + z
  BY <1>5, LengthFacts
<1> QED
  BY <1>1, <1>2, <1>4, <1>5, <1>6, SMTT(60) DEF sha512BlockSize

---------------------------------------------------------------------------
(* What append is given.                                                   *)
Pieces == [bytes : Strings, secret : BOOLEAN]

(* The calls that go through lvCat.                                        *)
LvKinds == {"generator", "isk", "ci"}

(* The bytes of the arguments.                                             *)
Bytes(args) == [i \in 1 .. Len(args) |-> args[i].bytes]

(* Arguments lvCat can be given.                                           *)
IsArgs(args) == args \in Seq(Pieces) /\ \A i \in 1 .. Len(args) : IsField(args[i].bytes)

(* Plain and Sensitive keep the bytes.                                     *)
LEMMA PieceFacts ==
  \A b : IsField(b) => /\ Plain(b) \in Pieces /\ Plain(b).bytes = b /\ Plain(b).secret = FALSE
                       /\ Sensitive(b) \in Pieces /\ Sensitive(b).bytes = b
<1>1. ASSUME NEW b, IsField(b)
      PROVE /\ Plain(b) \in Pieces /\ Plain(b).bytes = b /\ Plain(b).secret = FALSE
            /\ Sensitive(b) \in Pieces /\ Sensitive(b).bytes = b
  <2>1. b \in Strings
    BY <1>1, FieldFacts
  <2> QED
    BY <2>1 DEF Plain, Sensitive, Pieces
<1> QED
  BY <1>1

(* The arguments of generatorString.                                       *)
LEMMA GeneratorArgs ==
  ASSUME NEW c, c.kind = "generator", IsField(c.prs), IsField(c.ci), IsField(c.sid)
  PROVE  LET args == lvArgs(c)
         IN  /\ IsArgs(args) /\ Len(args) = 5
             /\ args[1].bytes = dsiX25519 /\ args[2].bytes = c.prs
             /\ args[3].bytes = Zeros(zpadLen(c.prs))
             /\ args[4].bytes = c.ci /\ args[5].bytes = c.sid
<1>1. IsField(Zeros(zpadLen(c.prs)))
  <2>1. zpadLen(c.prs) \in 0 .. 127
    BY FieldFacts, Padding, SMTT(60)
  <2>2. IsField(Repeat(zpadLen(c.prs), 0))
    <3>1. PICK x \in 0 .. 127, n \in 0 .. 127 : x = 0 /\ n = zpadLen(c.prs)
      BY <2>1
    <3> QED
      BY <3>1, Repeated, ZenonT(60)
  <2> QED
    BY <2>2 DEF Zeros, Repeat
<1>2. PICK p1 \in Pieces, p2 \in Pieces, p3 \in Pieces, p4 \in Pieces, p5 \in Pieces :
        /\ p1 = Plain(dsiX25519) /\ p2 = Sensitive(c.prs) /\ p3 = Plain(Zeros(zpadLen(c.prs)))
        /\ p4 = Plain(c.ci) /\ p5 = Plain(c.sid)
  BY <1>1, LabelFields, PieceFacts
<1>3. /\ p1.bytes = dsiX25519 /\ p2.bytes = c.prs /\ p3.bytes = Zeros(zpadLen(c.prs))
      /\ p4.bytes = c.ci /\ p5.bytes = c.sid
  BY <1>1, <1>2, LabelFields, PieceFacts
<1>4. /\ IsField(p1.bytes) /\ IsField(p2.bytes) /\ IsField(p3.bytes) /\ IsField(p4.bytes)
      /\ IsField(p5.bytes)
  BY <1>1, <1>3, LabelFields
<1>5. PICK args : args = <<p1, p2, p3, p4, p5>>
  OBVIOUS
<1>6. /\ args \in Seq(Pieces) /\ Len(args) = 5
      /\ args[1] = p1 /\ args[2] = p2 /\ args[3] = p3 /\ args[4] = p4 /\ args[5] = p5
  BY <1>5
<1>7. IsArgs(args)
  <2>1. \A i \in 1 .. 5 : i = 1 \/ i = 2 \/ i = 3 \/ i = 4 \/ i = 5
    OBVIOUS
  <2>2. \A i \in 1 .. 5 : IsField(args[i].bytes)
    BY <1>4, <1>6, <2>1
  <2> QED
    BY <1>6, <2>2 DEF IsArgs
<1>8. lvArgs(c) = args
  BY <1>2, <1>5 DEF lvArgs, generatorString
<1> QED
  BY <1>3, <1>6, <1>7, <1>8

(* The arguments of the prefix in deriveISK.                               *)
LEMMA IskArgs ==
  ASSUME NEW c, c.kind = "isk", IsField(c.sid), IsField(c.k)
  PROVE  LET args == lvArgs(c)
         IN  /\ IsArgs(args) /\ Len(args) = 3
             /\ args[1].bytes = dsiISK /\ args[2].bytes = c.sid /\ args[3].bytes = c.k
<1>2. PICK p1 \in Pieces, p2 \in Pieces, p3 \in Pieces :
        p1 = Plain(dsiISK) /\ p2 = Plain(c.sid) /\ p3 = Sensitive(c.k)
  BY LabelFields, PieceFacts
<1>3. p1.bytes = dsiISK /\ p2.bytes = c.sid /\ p3.bytes = c.k
  BY <1>2, LabelFields, PieceFacts
<1>4. IsField(p1.bytes) /\ IsField(p2.bytes) /\ IsField(p3.bytes)
  BY <1>3, LabelFields
<1>5. PICK args : args = <<p1, p2, p3>>
  OBVIOUS
<1>6. args \in Seq(Pieces) /\ Len(args) = 3 /\ args[1] = p1 /\ args[2] = p2 /\ args[3] = p3
  BY <1>5
<1>7. IsArgs(args)
  <2>1. \A i \in 1 .. 3 : i = 1 \/ i = 2 \/ i = 3
    OBVIOUS
  <2>2. \A i \in 1 .. 3 : IsField(args[i].bytes)
    BY <1>4, <1>6, <2>1
  <2> QED
    BY <1>6, <2>2 DEF IsArgs
<1>8. lvArgs(c) = args
  BY <1>2, <1>5 DEF lvArgs, iskPrefix
<1> QED
  BY <1>3, <1>6, <1>7, <1>8

(* The arguments of buildCI.                                               *)
LEMMA CiArgs ==
  ASSUME NEW c, c.kind = "ci", IsField(c.initiatorID), IsField(c.responderID), IsField(c.context)
  PROVE  LET args == lvArgs(c)
         IN  /\ IsArgs(args) /\ Len(args) = 9
             /\ args[5].bytes = c.initiatorID /\ args[7].bytes = c.responderID
             /\ args[9].bytes = c.context
<1>1. \A n \in 0 .. 127 : Label(n) \in Pieces /\ IsField(Label(n).bytes)
  <2>1. ASSUME NEW n \in 0 .. 127 PROVE Label(n) \in Pieces /\ IsField(Label(n).bytes)
    <3>1. PICK b : b = Repeat(n, 67) /\ IsField(b)
      <4>1. PICK x \in 0 .. 127 : x = 67
        OBVIOUS
      <4> QED
        BY <4>1, Repeated, ZenonT(60)
    <3>2. Label(n) = Plain(b)
      BY <3>1 DEF Label, Repeat
    <3> QED
      BY <3>1, <3>2, PieceFacts
  <2> QED
    BY <2>1, SMTT(60)
<1>2. PICK p1 \in Pieces, p2 \in Pieces, p3 \in Pieces, p4 \in Pieces, p5 \in Pieces,
           p6 \in Pieces, p7 \in Pieces, p8 \in Pieces, p9 \in Pieces :
        /\ p1 = Label(11) /\ p2 = Label(24) /\ p3 = Label(19) /\ p4 = Label(9)
        /\ p5 = Plain(c.initiatorID) /\ p6 = Label(9) /\ p7 = Plain(c.responderID)
        /\ p8 = Label(7) /\ p9 = Plain(c.context)
  BY <1>1, PieceFacts, SMTT(60)
<1>3. p5.bytes = c.initiatorID /\ p7.bytes = c.responderID /\ p9.bytes = c.context
  BY <1>2, PieceFacts
<1>4. /\ IsField(p1.bytes) /\ IsField(p2.bytes) /\ IsField(p3.bytes) /\ IsField(p4.bytes)
      /\ IsField(p5.bytes) /\ IsField(p6.bytes) /\ IsField(p7.bytes) /\ IsField(p8.bytes)
      /\ IsField(p9.bytes)
  BY <1>1, <1>2, <1>3
<1>5. PICK args : args = <<p1, p2, p3, p4, p5, p6, p7, p8, p9>>
  OBVIOUS
<1>6. /\ args \in Seq(Pieces) /\ Len(args) = 9
      /\ args[1] = p1 /\ args[2] = p2 /\ args[3] = p3 /\ args[4] = p4 /\ args[5] = p5
      /\ args[6] = p6 /\ args[7] = p7 /\ args[8] = p8 /\ args[9] = p9
  BY <1>5
<1>7. IsArgs(args)
  <2>1. \A i \in 1 .. 9 : \/ i = 1 \/ i = 2 \/ i = 3 \/ i = 4 \/ i = 5
                          \/ i = 6 \/ i = 7 \/ i = 8 \/ i = 9
    OBVIOUS
  <2>2. \A i \in 1 .. 9 : IsField(args[i].bytes)
    BY <1>4, <1>6, <2>1
  <2> QED
    BY <1>6, <2>2 DEF IsArgs
<1>8. lvArgs(c) = args
  BY <1>2, <1>5 DEF lvArgs, buildCI
<1> QED
  BY <1>3, <1>6, <1>7, <1>8

(* The arguments of each kind of call, from CallsAssumption.               *)
LEMMA CallFields ==
  ASSUME NEW c \in Calls
  PROVE  /\ c.kind \in LvKinds \cup {"mac"}
         /\ c.kind = "generator" => IsField(c.prs) /\ IsField(c.ci) /\ IsField(c.sid)
         /\ c.kind = "isk" => /\ IsField(c.sid) /\ IsField(c.k) /\ IsField(c.ya)
                              /\ IsField(c.ada) /\ IsField(c.yb) /\ IsField(c.adb)
         /\ c.kind = "ci" => IsField(c.initiatorID) /\ IsField(c.responderID) /\ IsField(c.context)
         /\ c.kind = "mac" => IsField(c.sid) /\ IsField(c.isk) /\ Len(c.isk) = iskSize
  BY CallsAssumption DEF LvKinds

(* Every call through lvCat has arguments it can be given.                 *)
LEMMA LvArgs ==
  ASSUME NEW c \in Calls, c.kind \in LvKinds
  PROVE  IsArgs(lvArgs(c))
<1>1. c.kind = "generator" \/ c.kind = "isk" \/ c.kind = "ci"
  BY DEF LvKinds
<1> QED
  BY <1>1, CallFields, GeneratorArgs, IskArgs, CiArgs

(* Their bytes are fields, in the same order.                              *)
LEMMA BytesFacts ==
  ASSUME NEW args, IsArgs(args)
  PROVE  /\ Bytes(args) \in Seq(Strings) /\ Len(Bytes(args)) = Len(args) /\ Len(args) \in Nat
         /\ \A i \in 1 .. Len(args) : Bytes(args)[i] = args[i].bytes
         /\ IsFields(Bytes(args))
<1>1. args \in Seq(Pieces) /\ Len(args) \in Nat
  BY DEF IsArgs
<1>2. \A i \in 1 .. Len(args) : /\ args[i].bytes \in Strings
                                /\ Len(args[i].bytes) < Power[maxLengthBytes]
  BY FieldFacts DEF IsArgs
<1>6. PICK n \in Nat : n = Len(args)
  BY <1>1
<1>3. PICK s : n = Len(args) /\ s = Bytes(args)
  BY <1>6
<1>4. s = [i \in 1 .. n |-> args[i].bytes]
  BY <1>3 DEF Bytes
<1>5. s \in Seq(Strings) /\ Len(s) = n /\ \A i \in 1 .. n : s[i] = args[i].bytes
  BY <1>2, <1>3, <1>4
<1> QED
  BY <1>1, <1>2, <1>3, <1>5 DEF IsFields

(* The capacity lvCat reserves is the length of what it writes.            *)
LEMMA Capacity ==
  ASSUME NEW args, IsArgs(args)
  PROVE  lvCapacity(args) = Len(lvCat(Bytes(args)))
<1>1. PICK k \in Nat, A \in Seq(Strings) :
        /\ k = Len(args) /\ A = Bytes(args) /\ Len(A) = k
        /\ \A i \in 1 .. k : A[i] = args[i].bytes
  BY BytesFacts
<1>2. PICK dst \in Strings : dst = <<>> /\ Len(dst) = 0
  BY EmptyString
<1>3. PICK out : Accumulates(out, dst, A) /\ appendAll(dst, A) = out[Len(A)]
  BY AppendAllRun, Zenon
<1>4. /\ \A i \in 0 .. k : out[i] \in Strings
      /\ out[0] = dst
      /\ \A i \in 1 .. k : out[i] = appendLengthValue(out[i - 1], A[i])
  BY <1>1, <1>3 DEF Accumulates
<1> DEFINE Size(i) == lengthValueLen(Len(args[i].bytes))
<1>5. ASSUME NEW i \in 1 .. k
      PROVE  Len(out[i]) = Len(out[i - 1]) + Size(i) /\ Len(out[i - 1]) \in Nat /\ Size(i) \in Nat
  <2>1. PICK d \in Strings, a \in Strings : d = out[i - 1] /\ a = A[i] /\ a = args[i].bytes
    <3>1. i - 1 \in 0 .. k
      OBVIOUS
    <3>2. A[i] \in Strings
      BY <1>1, ElementOfSeq
    <3> QED
      BY <1>1, <1>4, <3>1, <3>2
  <2>2. PICK e \in Strings : e = appendLEB128[Len(a)] /\ appendLengthValue(d, a) = d \o (e \o a)
    BY AppendType
  <2>3. PICK x : x = e \o a
    OBVIOUS
  <2>4. x \in Strings /\ Len(x) = Len(e) + Len(a) /\ Len(e) \in Nat /\ Len(a) \in Nat
    BY <2>3, StringConcat
  <2>5. Len(d \o x) = Len(d) + Len(x) /\ Len(d) \in Nat
    BY <2>4, StringConcat
  <2>6. leb128LenInt[Len(a)] = Len(e)
    BY <2>2, <2>4, LenDef
  <2>7. Size(i) = Len(e) + Len(a)
    BY <2>1, <2>6 DEF lengthValueLen
  <2>8. out[i] = d \o x
    BY <1>4, <2>1, <2>2, <2>3
  <2>9. PICK y : y = d \o x /\ Len(y) = Len(d) + Len(x)
    BY <2>5
  <2> HIDE DEF Size
  <2>10. out[i] = y /\ out[i - 1] = d
    BY <2>1, <2>8, <2>9
  <2>11. Len(y) = Len(d) + Size(i) /\ Len(d) \in Nat /\ Size(i) \in Nat
    BY <2>4, <2>5, <2>7, <2>9
  <2> QED
    BY <2>10, <2>11, Zenon
<1> HIDE DEF Size
<1> DEFINE Eq(g) == g = [i \in 0 .. k |-> IF i = 0 THEN 0 ELSE g[i - 1] + Size(i)]
           w == [i \in 0 .. k |-> Len(out[i])]
<1>6. Eq(w)
  <2>1. ASSUME NEW i \in 0 .. k PROVE w[i] = IF i = 0 THEN 0 ELSE w[i - 1] + Size(i)
    <3>1. CASE i = 0
      BY <1>2, <1>4, <3>1
    <3>2. CASE i # 0
      <4>1. i \in 1 .. k /\ i - 1 \in 0 .. k
        BY <3>2
      <4> QED
        BY <1>5, <3>2, <4>1
    <3> QED
      BY <3>1, <3>2
  <2> QED
    BY <2>1
<1> HIDE DEF w
<1>7. PICK g : Eq(g) /\ lvCapacity(args) = g[k]
  <2>1. PICK g : Eq(g) /\ g = CHOOSE x : Eq(x)
    BY <1>6
  <2>2. lvCapacity(args) = g[k]
    BY <1>1, <2>1, ZenonT(60) DEF lvCapacity, Size
  <2> HIDE DEF Eq
  <2> QED
    BY <2>1, <2>2
<1>8. /\ g[0] = 0
      /\ \A i \in 0 .. k : i # 0 => g[i] = g[i - 1] + Size(i)
  <2>1. 0 \in 0 .. k
    OBVIOUS
  <2>2. g[0] = 0
    BY <1>7, <2>1
  <2>3. ASSUME NEW i \in 0 .. k, i # 0 PROVE g[i] = g[i - 1] + Size(i)
    BY <1>7, <2>3, Zenon
  <2> QED
    BY <2>2, <2>3
<1> HIDE DEF Eq
<1> DEFINE S == {i \in Nat : i <= k => g[i] = Len(out[i])}
<1>9. 0 \in S
  BY <1>2, <1>4, <1>8
<1>10. ASSUME NEW i \in S PROVE i + 1 \in S
  <2> SUFFICES ASSUME i + 1 <= k PROVE g[i + 1] = Len(out[i + 1])
    OBVIOUS
  <2>1. PICK j \in 1 .. k : j = i + 1 /\ j # 0 /\ j \in 0 .. k /\ j - 1 = i
    OBVIOUS
  <2>2. g[i] = Len(out[i])
    BY <2>1
  <2>3. g[j] = g[j - 1] + Size(j) /\ Len(out[j]) = Len(out[j - 1]) + Size(j)
    BY <1>5, <1>8, <2>1
  <2> QED
    BY <2>1, <2>2, <2>3
<1>11. g[k] = Len(out[k])
  <2>1. S \in SUBSET Nat /\ 0 \in S /\ \A i \in S : i + 1 \in S
    BY <1>9, <1>10
  <2> HIDE DEF S
  <2>2. S = Nat
    BY <2>1, Induction
  <2> USE DEF S
  <2> QED
    BY <2>2
<1> QED
  BY <1>1, <1>2, <1>3, <1>7, <1>11 DEF lvCat

(* All the pieces of a call, and the string they make.                     *)
AllPieces(c) ==
  lvPieces(lvArgs(c)) \o (IF c.kind = "isk" THEN <<Plain(irTranscript(c))>> ELSE <<>>)

(* The number of arguments.                                                *)
Arity(c) == Len(lvArgs(c))

(* The raw transcript is a byte string.                                    *)
LEMMA TranscriptType ==
  ASSUME NEW c \in Calls, c.kind = "isk"
  PROVE  irTranscript(c) \in Strings
<1>1. PICK a \in Strings, b \in Strings, d \in Strings, e \in Strings :
        a = c.ya /\ b = c.ada /\ d = c.yb /\ e = c.adb
  BY CallFields, FieldFacts
<1>2. <<a, b>> \in Seq(Strings) /\ <<d, e>> \in Seq(Strings)
  OBVIOUS
<1>3. lvCat(<<a, b>>) \in Strings /\ lvCat(<<d, e>>) \in Strings
  BY <1>2, EmptyString, AppendAllType, Zenon DEF lvCat
<1> QED
  BY <1>1, <1>3, StringConcat DEF irTranscript

(* Prefixes and arguments alternate; in deriveISK the transcript follows.  *)
LEMMA AllPiecesFacts ==
  ASSUME NEW c \in Calls, c.kind \in LvKinds
  PROVE  LET ps   == AllPieces(c)
             args == lvArgs(c)
             n    == Arity(c)
         IN  /\ ps \in Seq(Pieces) /\ n \in Nat
             /\ Len(ps) = IF c.kind = "isk" THEN 2 * n + 1 ELSE 2 * n
             /\ \A i \in 1 .. n : /\ ps[2 * i - 1].bytes = appendLEB128[Len(args[i].bytes)]
                                  /\ ps[2 * i].bytes = args[i].bytes
             /\ c.kind = "isk" => ps[2 * n + 1].bytes = irTranscript(c)
<1>1. PICK args : args = lvArgs(c) /\ IsArgs(args)
  BY LvArgs
<1>2. PICK n \in Nat : n = Arity(c) /\ n = Len(args)
  BY <1>1, BytesFacts DEF Arity
<1>3. \A i \in 1 .. n : args[i] \in Pieces /\ args[i].bytes \in Strings
  <2>1. args \in Seq(Pieces)
    BY <1>1 DEF IsArgs
  <2> QED
    <3>1. \A i \in 1 .. n : args[i] \in Pieces
      BY <1>2, <2>1
    <3>2. \A x \in Pieces : x.bytes \in Strings
      BY DEF Pieces
    <3> QED
      BY <3>1, <3>2
<1>4. \A i \in 1 .. n : /\ Plain(appendLEB128[Len(args[i].bytes)]) \in Pieces
                        /\ Plain(appendLEB128[Len(args[i].bytes)]).bytes = appendLEB128[Len(args[i].bytes)]
  <2>1. ASSUME NEW i \in 1 .. n
        PROVE  Plain(appendLEB128[Len(args[i].bytes)]) \in Pieces
    <3>1. appendLEB128[Len(args[i].bytes)] \in Strings
      BY <1>3, AppendType
    <3> QED
      BY <3>1 DEF Plain, Pieces
  <2> QED
    BY <2>1 DEF Plain
<1>5. PICK p : p = lvPieces(args)
  OBVIOUS
<1>6. p = [j \in 1 .. 2 * n |-> IF j % 2 = 1 THEN Plain(appendLEB128[Len(args[(j + 1) \div 2].bytes)])
                               ELSE args[j \div 2]]
  BY <1>2, <1>5 DEF lvPieces
<1>7. ASSUME NEW i \in 1 .. n
      PROVE  p[2 * i - 1] = Plain(appendLEB128[Len(args[i].bytes)]) /\ p[2 * i] = args[i]
  <2>1. /\ 2 * i - 1 \in 1 .. 2 * n /\ 2 * i \in 1 .. 2 * n
        /\ (2 * i - 1) % 2 = 1 /\ (2 * i) % 2 # 1
        /\ ((2 * i - 1) + 1) \div 2 = i /\ (2 * i) \div 2 = i
    OBVIOUS
  <2> QED
    BY <1>6, <2>1
<1>8. \A j \in 1 .. 2 * n : p[j] \in Pieces
  <2>1. ASSUME NEW j \in 1 .. 2 * n PROVE p[j] \in Pieces
    <3>1. CASE j % 2 = 1
      <4>1. (j + 1) \div 2 \in 1 .. n
        BY <3>1
      <4> QED
        BY <1>4, <1>6, <3>1, <4>1
    <3>2. CASE j % 2 # 1
      <4>1. j \div 2 \in 1 .. n
        BY <3>2
      <4> QED
        BY <1>3, <1>6, <3>2, <4>1
    <3> QED
      BY <3>1, <3>2
  <2> QED
    BY <2>1
<1>9. PICK m \in Nat : m = 2 * n
  OBVIOUS
<1>10. p \in Seq(Pieces) /\ Len(p) = m
  BY <1>6, <1>8, <1>9
<1>11. CASE c.kind # "isk"
  <2>1. AllPieces(c) = p \o <<>>
    BY <1>1, <1>5, <1>11 DEF AllPieces
  <2>2. AllPieces(c) = p
    BY <1>10, <2>1
  <2> QED
    BY <1>1, <1>2, <1>4, <1>7, <1>9, <1>10, <1>11, <2>2, ZenonT(60)
<1>12. CASE c.kind = "isk"
  <2>1. PICK t \in Pieces : t = Plain(irTranscript(c)) /\ t.bytes = irTranscript(c)
    <3>1. PICK x \in Strings : x = irTranscript(c)
      BY <1>12, TranscriptType
    <3>2. Plain(x) \in Pieces /\ Plain(x).bytes = x
      BY DEF Plain, Pieces
    <3> QED
      BY <3>1, <3>2
  <2>2. PICK q : q = p \o <<t>> /\ q = AllPieces(c)
    BY <1>1, <1>5, <1>12, <2>1 DEF AllPieces
  <2>3. q \in Seq(Pieces) /\ Len(q) = m + 1 /\ q[m + 1] = t /\ \A j \in 1 .. m : q[j] = p[j]
    BY <1>10, <2>2, SMTT(60)
  <2>4. ASSUME NEW i \in 1 .. n
        PROVE q[2 * i - 1] = Plain(appendLEB128[Len(args[i].bytes)]) /\ q[2 * i] = args[i]
    <3>1. 2 * i - 1 \in 1 .. m /\ 2 * i \in 1 .. m
      BY <1>9
    <3> QED
      BY <1>7, <2>3, <3>1
  <2>5. \A i \in 1 .. n : /\ q[2 * i - 1].bytes = appendLEB128[Len(args[i].bytes)]
                           /\ q[2 * i].bytes = args[i].bytes
    BY <1>4, <2>4
  <2>6. q[2 * n + 1].bytes = irTranscript(c) /\ Len(q) = 2 * n + 1
    BY <1>9, <2>1, <2>3
  <2> QED
    BY <1>1, <1>2, <1>12, <2>2, <2>3, <2>5, <2>6, ZenonT(60)
<1> QED
  BY <1>11, <1>12

---------------------------------------------------------------------------
(* What lvCat returns.                                                     *)
Whole(c) == lvCat(Bytes(lvArgs(c)))

(* What it has after i arguments.                                          *)
Pre(c, i) == appendAll(<<>>, SubSeq(Bytes(lvArgs(c)), 1, i))

(* The length prefix of the next argument.                                 *)
Prefix(c, i) == appendLEB128[Len(lvArgs(c)[i + 1].bytes)]

(* It starts with nothing, ends with everything, and reserves that much.   *)
LEMMA Progress ==
  ASSUME NEW c \in Calls, c.kind \in LvKinds
  PROVE  /\ Whole(c) \in Strings /\ Pre(c, 0) = <<>> /\ Pre(c, Arity(c)) = Whole(c)
         /\ lvCapacity(lvArgs(c)) = Len(Whole(c))
         /\ Arity(c) \in Nat
<1>1. PICK args : args = lvArgs(c) /\ IsArgs(args)
  BY LvArgs
<1>2. PICK A \in Seq(Strings) : A = Bytes(args) /\ Len(A) = Arity(c) /\ Arity(c) \in Nat
  BY <1>1, BytesFacts DEF Arity
<1>3. PICK dst \in Strings : dst = <<>>
  BY EmptyString
<1>4. appendAll(dst, A) \in Strings /\ appendAll(dst, <<>>) = dst
  BY AppendAllType, AppendAllEmpty, Zenon
<1>5. SubSeq(A, 1, 0) = <<>> /\ SubSeq(A, 1, Arity(c)) = A
  BY <1>2, SubSeqEmpty, SubSeqFull
<1>6. lvCapacity(args) = Len(lvCat(Bytes(args)))
  BY <1>1, Capacity
<1> QED
  BY <1>1, <1>2, <1>3, <1>4, <1>5, <1>6 DEF Whole, Pre, lvCat

(* Prefix and argument fit, and give what there is after one argument      *)
(* more.                                                                   *)
LEMMA ProgressStep ==
  ASSUME NEW c \in Calls, c.kind \in LvKinds, NEW i \in Nat, i < Arity(c)
  PROVE  LET u == Pre(c, i)
             e == Prefix(c, i)
             f == lvArgs(c)[i + 1].bytes
         IN  /\ u \in Strings /\ e \in Strings /\ f \in Strings
             /\ (u \o e) \o f = Pre(c, i + 1)
             /\ Len(u) + Len(e) <= Len(Whole(c)) /\ Len(u \o e) = Len(u) + Len(e)
             /\ Len(u \o e) + Len(f) <= Len(Whole(c))
<1>1. PICK args : args = lvArgs(c) /\ IsArgs(args)
  BY LvArgs
<1>2. PICK A \in Seq(Strings) : /\ A = Bytes(args) /\ Len(A) = Arity(c) /\ Arity(c) \in Nat
                                /\ \A j \in 1 .. Arity(c) : A[j] = args[j].bytes
  BY <1>1, BytesFacts DEF Arity
<1>3. PICK dst \in Strings : dst = <<>>
  BY EmptyString
<1>4. /\ i < Len(A) /\ i + 1 \in 0 .. Len(A) /\ i + 1 \in 1 .. Arity(c)
  BY <1>2
<1>5. PICK f \in Strings, a \in Seq(Strings) :
        /\ f = A[i + 1] /\ a = SubSeq(A, 1, i) /\ SubSeq(A, 1, i + 1) = Append(a, f)
  BY <1>4, PrefixStep
<1>6. PICK u \in Strings : u = appendAll(dst, a) /\ u = Pre(c, i)
  <2>1. appendAll(dst, a) \in Strings
    BY AppendAllType, Zenon
  <2> QED
    BY <1>1, <1>2, <1>3, <1>5, <2>1 DEF Pre
<1>7. f = lvArgs(c)[i + 1].bytes
  BY <1>1, <1>2, <1>4, <1>5
<1>8. PICK e \in Strings : e = Prefix(c, i) /\ e = appendLEB128[Len(f)]
  <2>1. appendLEB128[Len(f)] \in Strings
    BY AppendType
  <2> QED
    BY <1>7, <2>1 DEF Prefix
<1>9. appendAll(dst, SubSeq(A, 1, i + 1)) = u \o (e \o f)
  <2>1. appendAll(dst, Append(a, f)) = appendLengthValue(appendAll(dst, a), f)
    BY AppendAllAppend, Zenon
  <2>2. appendLengthValue(u, f) = u \o (appendLEB128[Len(f)] \o f)
    BY AppendType
  <2> QED
    BY <1>5, <1>6, <1>8, <2>1, <2>2, Zenon
<1>10. (u \o e) \o f = u \o (e \o f)
  BY StringAssoc, ZenonT(60)
<1>11. Pre(c, i + 1) = u \o (e \o f)
  BY <1>1, <1>2, <1>3, <1>9 DEF Pre
<1>12. PICK rest \in Strings : Whole(c) = Frame(u, e, f, rest)
  <2>1. \E rest \in Strings : appendAll(dst, A) = appendAll(dst, SubSeq(A, 1, i + 1)) \o rest
    BY <1>4, AppendAllPrefix, Zenon
  <2>2. Whole(c) = appendAll(dst, A)
    BY <1>1, <1>2, <1>3 DEF Whole, lvCat
  <2> QED
    BY <1>9, <2>1, <2>2, Zenon DEF Frame
<1>13. PICK w : w = Whole(c) /\ w = Frame(u, e, f, rest)
  BY <1>12
<1>14. LaidOut(w, u, e, f, rest)
  BY <1>13, Layout
<1>15. Len(w) = Len(u) + Len(e) + Len(f) + Len(rest)
  BY <1>14 DEF LaidOut
<1>16. Len(u) \in Nat /\ Len(e) \in Nat /\ Len(f) \in Nat /\ Len(rest) \in Nat
  BY DEF Strings
<1>17. Len(u \o e) = Len(u) + Len(e)
  BY StringConcat
<1>18. /\ Len(u) + Len(e) <= Len(w) /\ Len(u \o e) + Len(f) <= Len(w)
  BY <1>15, <1>16, <1>17
<1> QED
  BY <1>6, <1>7, <1>8, <1>10, <1>11, <1>13, <1>17, <1>18, Zenon

(* What is left of the pieces once j of them are in the slice.             *)
Left(t, ps, j) ==
  /\ t \in Seq(Pieces)
  /\ Len(t) = Len(ps) - j
  /\ \A k \in 1 .. Len(ps) - j : t[k] = ps[j + k]

(* j pieces of the current call are in the slice.                          *)
Rest(j) == Left(todo, AllPieces(call), j)

(* i whole arguments are in the slice,                                     *)
AtArg(i) == Rest(2 * i) /\ slice = Pre(call, i)

(* or i arguments and the length prefix of another,                        *)
InArg(i) == Rest(2 * i + 1) /\ slice = Pre(call, i) \o Prefix(call, i)

(* or the prefix of deriveISK has been joined with the transcript.         *)
Joined == call.kind = "isk" /\ todo = <<>> /\ slice = Whole(call) \o irTranscript(call)

(* Until then the array is the one lvCat made.                             *)
LvInv ==
  call.kind \in LvKinds =>
    \/ /\ cap = Len(Whole(call))
       /\ \/ \E i \in 0 .. Arity(call) : AtArg(i)
          \/ \E i \in 0 .. Arity(call) - 1 : InArg(i)
    \/ Joined

(* confirmationTag: the label; with the session id; with the ISK. No       *)
(* secret is in the array until the last.                                  *)
MacInv ==
  call.kind = "mac" =>
    \/ todo = macPieces(call) /\ slice = MacLabel /\ held = FALSE
    \/ todo = <<Sensitive(call.isk)>> /\ slice = MacLabel \o call.sid /\ held = FALSE
    \/ todo = <<>> /\ slice = (MacLabel \o call.sid) \o call.isk

(* The inductive invariant.                                                *)
HashInv ==
  /\ call \in Calls
  /\ spilled = FALSE
  /\ LvInv
  /\ MacInv

(* Taking the first piece off.                                             *)
LEMMA TailLeft ==
  ASSUME NEW ps \in Seq(Pieces), NEW j \in Nat, NEW t, Left(t, ps, j), t # <<>>
  PROVE  j < Len(ps) /\ Head(t) = ps[j + 1] /\ Left(Tail(t), ps, j + 1)
<1>1. /\ t \in Seq(Pieces) /\ Len(t) = Len(ps) - j /\ Len(ps) \in Nat /\ Len(t) \in Nat
      /\ \A k \in 1 .. Len(ps) - j : t[k] = ps[j + k]
  BY DEF Left
<1>2. Len(t) # 0 /\ Len(t) >= 1
  BY <1>1
<1>3. j < Len(ps) /\ 1 \in 1 .. Len(ps) - j
  BY <1>1, <1>2
<1>4. Head(t) = ps[j + 1]
  BY <1>1, <1>3
<1>5. PICK r : r = Tail(t)
  OBVIOUS
<1>6. r \in Seq(Pieces) /\ Len(r) = Len(t) - 1 /\ \A k \in 1 .. Len(t) - 1 : r[k] = t[k + 1]
  BY <1>1, <1>2, <1>5, HeadTailProperties
<1>7. Len(r) = Len(ps) - (j + 1)
  BY <1>1, <1>6
<1>8. ASSUME NEW k \in 1 .. Len(ps) - (j + 1) PROVE r[k] = ps[(j + 1) + k]
  <2>1. k \in 1 .. Len(t) - 1 /\ k + 1 \in 1 .. Len(ps) - j /\ j + (k + 1) = (j + 1) + k
    BY <1>1
  <2> QED
    BY <1>1, <1>6, <2>1, SMTT(60)
<1> QED
  BY <1>3, <1>4, <1>5, <1>6, <1>7, <1>8 DEF Left

(* The initial states satisfy it.                                          *)
LEMMA HashInvInit == HashInit => HashInv
<1> SUFFICES ASSUME HashInit PROVE HashInv
  OBVIOUS
<1>1. call \in Calls /\ spilled = FALSE /\ held = FALSE
  BY DEF HashInit
<1>2. LvInv
  <2> SUFFICES ASSUME call.kind \in LvKinds PROVE LvInv
    BY DEF LvInv
  <2>1. call.kind # "mac"
    BY DEF LvKinds
  <2>2. todo = AllPieces(call) /\ slice = <<>> /\ cap = lvCapacity(lvArgs(call))
    BY <2>1 DEF HashInit, AllPieces
  <2>3. AllPieces(call) \in Seq(Pieces)
    BY <1>1, AllPiecesFacts
  <2>4. Left(todo, AllPieces(call), 0)
    BY <2>2, <2>3 DEF Left
  <2>5. AtArg(0)
    BY <1>1, <2>2, <2>4, Progress DEF AtArg, Rest
  <2>6. 0 \in 0 .. Arity(call) /\ cap = Len(Whole(call))
    BY <1>1, <2>2, Progress
  <2> QED
    BY <2>5, <2>6 DEF LvInv
<1>3. MacInv
  BY <1>1 DEF HashInit, MacInv
<1> QED
  BY <1>1, <1>2, <1>3 DEF HashInv

(* append within lvCat keeps it: the piece fits.                           *)
LEMMA LvPiece ==
  ASSUME HashInv, AppendPiece, call.kind \in LvKinds
  PROVE  spilled' = FALSE /\ LvInv'
<1>1. call \in Calls /\ spilled = FALSE /\ call' = call /\ todo # <<>> /\ todo' = Tail(todo)
  BY DEF HashInv, AppendPiece
<1>2. PICK n \in Nat : n = Arity(call)
  BY <1>1, Progress
<1>3. PICK ps \in Seq(Pieces) : /\ ps = AllPieces(call)
                                /\ Len(ps) = IF call.kind = "isk" THEN 2 * n + 1 ELSE 2 * n
  BY <1>1, <1>2, AllPiecesFacts
<1>4. \A i \in 1 .. n : /\ ps[2 * i - 1].bytes = appendLEB128[Len(lvArgs(call)[i].bytes)]
                        /\ ps[2 * i].bytes = lvArgs(call)[i].bytes
  BY <1>1, <1>2, <1>3, AllPiecesFacts
<1>5. ASSUME Len(slice) + Len(Head(todo).bytes) <= cap
      PROVE  cap' = cap /\ spilled' = FALSE /\ slice' = slice \o Head(todo).bytes
  BY <1>1, <1>5 DEF AppendPiece
<1>6. cap = Len(Whole(call))
  BY <1>1 DEF HashInv, LvInv, Joined
<1>7. ASSUME NEW i \in 0 .. n, AtArg(i) PROVE spilled' = FALSE /\ LvInv'
  <2>1. 2 * i \in Nat /\ Left(todo, ps, 2 * i) /\ slice = Pre(call, i)
    BY <1>3, <1>7 DEF AtArg, Rest
  <2>2. 2 * i < Len(ps) /\ Head(todo) = ps[2 * i + 1] /\ Left(todo', ps, 2 * i + 1)
    BY <1>1, <2>1, TailLeft
  <2>3. i # n
    <3> SUFFICES ASSUME i = n PROVE FALSE
      OBVIOUS
    <3>1. call.kind = "isk" /\ Len(ps) = 2 * n + 1
      BY <1>3, <2>2
    <3>2. Len(todo) = 1
      BY <2>1, <3>1, SMTT(60) DEF Left
    <3> QED
      BY <3>1, <3>2 DEF AppendPiece, TranscriptNext
  <2>4. i \in Nat /\ i < n /\ i + 1 \in 1 .. n /\ 2 * (i + 1) - 1 = 2 * i + 1 /\ i \in 0 .. n - 1
    BY <2>3
  <2>5. Head(todo).bytes = Prefix(call, i)
    BY <1>4, <2>2, <2>4 DEF Prefix
  <2>6. Len(Pre(call, i)) + Len(Prefix(call, i)) <= Len(Whole(call))
    BY <1>1, <1>2, <2>4, ProgressStep
  <2>7. cap' = cap /\ spilled' = FALSE /\ slice' = Pre(call, i) \o Prefix(call, i)
    BY <1>5, <1>6, <2>1, <2>5, <2>6
  <2>8. InArg(i)'
    BY <1>1, <1>3, <2>2, <2>7 DEF InArg, Rest, Pre, Prefix
  <2> QED
    BY <1>1, <1>2, <1>6, <2>4, <2>7, <2>8 DEF LvInv
<1>8. ASSUME NEW i \in 0 .. n - 1, InArg(i) PROVE spilled' = FALSE /\ LvInv'
  <2>1. 2 * i + 1 \in Nat /\ Left(todo, ps, 2 * i + 1) /\ slice = Pre(call, i) \o Prefix(call, i)
    BY <1>3, <1>8 DEF InArg, Rest
  <2>2. Head(todo) = ps[(2 * i + 1) + 1] /\ Left(todo', ps, (2 * i + 1) + 1)
    BY <1>1, <2>1, TailLeft
  <2>3. i \in Nat /\ i < n /\ i + 1 \in 1 .. n /\ (2 * i + 1) + 1 = 2 * (i + 1) /\ i + 1 \in 0 .. n
    OBVIOUS
  <2>4. Head(todo).bytes = lvArgs(call)[i + 1].bytes
    BY <1>4, <2>2, <2>3
  <2>5. /\ Len(Pre(call, i) \o Prefix(call, i)) + Len(lvArgs(call)[i + 1].bytes) <= Len(Whole(call))
        /\ (Pre(call, i) \o Prefix(call, i)) \o lvArgs(call)[i + 1].bytes = Pre(call, i + 1)
    BY <1>1, <1>2, <2>3, ProgressStep
  <2>6. cap' = cap /\ spilled' = FALSE /\ slice' = Pre(call, i + 1)
    BY <1>5, <1>6, <2>1, <2>4, <2>5
  <2>7. AtArg(i + 1)'
    BY <1>1, <1>3, <2>2, <2>3, <2>6, SMTT(60) DEF AtArg, Rest, Pre
  <2> QED
    BY <1>1, <1>2, <1>6, <2>3, <2>6, <2>7 DEF LvInv
<1> QED
  BY <1>1, <1>2, <1>7, <1>8 DEF HashInv, LvInv, Joined

(* append within confirmationTag keeps it: the array may be left, but it   *)
(* holds no secret yet.                                                    *)
LEMMA MacPiece ==
  ASSUME HashInv, AppendPiece, call.kind = "mac"
  PROVE  spilled' = FALSE /\ MacInv'
<1>1. /\ call \in Calls /\ spilled = FALSE /\ call' = call /\ todo # <<>> /\ todo' = Tail(todo)
      /\ slice' = slice \o Head(todo).bytes /\ held' = (held \/ Head(todo).secret)
      /\ spilled' = spilled \/ spilled' = (spilled \/ held)
  BY DEF HashInv, AppendPiece
<1>2. PICK p, q : p = Plain(call.sid) /\ q = Sensitive(call.isk)
  OBVIOUS
<1>3. p.bytes = call.sid /\ p.secret = FALSE /\ q.bytes = call.isk
  BY <1>2 DEF Plain, Sensitive
<1>4. CASE todo = macPieces(call) /\ slice = MacLabel /\ held = FALSE
  <2>1. todo = <<p, q>>
    BY <1>2, <1>4 DEF macPieces
  <2>2. Head(todo) = p /\ Tail(todo) = <<q>>
    BY <2>1
  <2>3. slice' = MacLabel \o call.sid /\ held' = FALSE /\ spilled' = FALSE
    BY <1>1, <1>3, <1>4, <2>2
  <2> QED
    BY <1>1, <1>2, <2>2, <2>3 DEF MacInv
<1>5. CASE todo = <<Sensitive(call.isk)>> /\ slice = MacLabel \o call.sid /\ held = FALSE
  <2>1. Head(todo) = q /\ Tail(todo) = <<>>
    BY <1>2, <1>5
  <2>2. slice' = (MacLabel \o call.sid) \o call.isk /\ spilled' = FALSE
    BY <1>1, <1>3, <1>5, <2>1
  <2> QED
    BY <1>1, <2>1, <2>2 DEF MacInv
<1> QED
  BY <1>1, <1>4, <1>5 DEF HashInv, MacInv

(* The join in deriveISK keeps it.                                         *)
LEMMA Transcribed ==
  ASSUME HashInv, AppendTranscript
  PROVE  Joined' /\ spilled' = FALSE
<1>1. /\ call \in Calls /\ spilled' = FALSE /\ call' = call /\ call.kind = "isk" /\ Len(todo) = 1
      /\ todo' = <<>> /\ slice' = slice \o Head(todo).bytes /\ call.kind \in LvKinds
  BY DEF HashInv, AppendTranscript, TranscriptNext, LvKinds
<1>2. PICK n \in Nat : n = Arity(call)
  BY <1>1, Progress
<1>3. PICK ps \in Seq(Pieces) : /\ ps = AllPieces(call) /\ Len(ps) = 2 * n + 1
                                /\ ps[2 * n + 1].bytes = irTranscript(call)
  BY <1>1, <1>2, AllPiecesFacts
<1>11. PICK lt \in Nat : lt = Len(todo) /\ lt = 1
  BY <1>1
<1>12. PICK lp \in Nat : lp = Len(ps) /\ lp = 2 * n + 1
  BY <1>3
<1>4. todo # <<>>
  <2>1. Len(<<>>) # 1
    OBVIOUS
  <2> QED
    BY <1>11, <2>1, Zenon
<1>5. ASSUME NEW i \in 0 .. n - 1, InArg(i) PROVE FALSE
  <2>1. Len(todo) = Len(ps) - (2 * i + 1)
    BY <1>3, <1>5 DEF InArg, Rest, Left
  <2>2. lt = lp - (2 * i + 1)
    BY <1>11, <1>12, <2>1
  <2> QED
    BY <1>11, <1>12, <2>2
<1>6. PICK i \in 0 .. n : AtArg(i)
  BY <1>1, <1>2, <1>4, <1>5 DEF HashInv, LvInv, Joined
<1>7. 2 * i \in Nat /\ Left(todo, ps, 2 * i) /\ slice = Pre(call, i)
  BY <1>3, <1>6 DEF AtArg, Rest
<1>8. i = n
  <2>1. Len(todo) = Len(ps) - 2 * i
    BY <1>7 DEF Left
  <2>2. lt = lp - 2 * i
    BY <1>11, <1>12, <2>1
  <2> QED
    BY <1>11, <1>12, <2>2
<1>9. Head(todo) = ps[2 * i + 1]
  BY <1>4, <1>7, TailLeft
<1>10. slice' = Whole(call) \o irTranscript(call)
  BY <1>1, <1>2, <1>3, <1>7, <1>8, <1>9, Progress
<1> QED
  BY <1>1, <1>10 DEF Joined, Whole, irTranscript

(* Every step keeps it.                                                    *)
LEMMA HashInvNext == HashInv /\ [HashNext]_hashVars => HashInv'
<1> SUFFICES ASSUME HashInv, [HashNext]_hashVars PROVE HashInv'
  OBVIOUS
<1>1. CASE UNCHANGED hashVars
  <2>1. LvInv'
    BY <1>1 DEF HashInv, hashVars, LvInv, AtArg, InArg, Joined, Rest
  <2>2. MacInv'
    BY <1>1 DEF HashInv, hashVars, MacInv
  <2> QED
    BY <1>1, <2>1, <2>2 DEF HashInv, hashVars
<1>2. CASE AppendPiece
  <2>1. call \in Calls /\ call' = call /\ (call.kind \in LvKinds \/ call.kind = "mac")
    BY <1>2, CallFields DEF HashInv, AppendPiece
  <2>2. CASE call.kind \in LvKinds
    <3>1. call'.kind # "mac"
      BY <2>1, <2>2 DEF LvKinds
    <3> QED
      BY <1>2, <2>1, <2>2, <3>1, LvPiece DEF HashInv, MacInv
  <2>3. CASE call.kind = "mac"
    <3>1. call'.kind \notin LvKinds
      BY <2>1, <2>3 DEF LvKinds
    <3> QED
      BY <1>2, <2>1, <2>3, <3>1, MacPiece DEF HashInv, LvInv
  <2> QED
    BY <2>1, <2>2, <2>3
<1>3. CASE AppendTranscript
  <2>1. Joined' /\ spilled' = FALSE
    BY <1>3, Transcribed
  <2>2. call \in Calls /\ call' = call /\ call.kind = "isk"
    BY <1>3 DEF HashInv, AppendTranscript, TranscriptNext
  <2> QED
    BY <2>1, <2>2 DEF HashInv, LvInv, MacInv
<1> QED
  BY <1>1, <1>2, <1>3 DEF HashNext

(* So it always holds.                                                     *)
LEMMA HashInvariance == HashSpec => []HashInv
  BY HashInvInit, HashInvNext, PTL DEF HashSpec

(* NothingSpilled: append never moves lvCat, deriveISK or confirmationTag  *)
(* to a new array after a password, shared secret or ISK has been written, *)
(* so the clearBytes of the caller reaches every copy.                     *)
THEOREM OneArray == HashSpec => []NothingSpilled
<1>1. HashInv => NothingSpilled
  BY DEF HashInv, NothingSpilled
<1> QED
  BY <1>1, HashInvariance, PTL

---------------------------------------------------------------------------
(* What is in the slice when nothing is left to append.                    *)
LEMMA Finished ==
  ASSUME HashInv, todo = <<>>, call.kind \in LvKinds
  PROVE  IF call.kind = "isk" THEN Joined ELSE slice = Whole(call)
<1>1. call \in Calls
  BY DEF HashInv
<1>2. PICK n \in Nat : n = Arity(call)
  BY <1>1, Progress
<1>7. PICK ps : ps = AllPieces(call)
  OBVIOUS
<1>3. PICK lp \in Nat : ps = AllPieces(call) /\ lp = Len(ps)
                           /\ lp = IF call.kind = "isk" THEN 2 * n + 1 ELSE 2 * n
  BY <1>1, <1>2, <1>7, AllPiecesFacts
<1>4. PICK lt \in Nat : lt = Len(todo) /\ lt = 0
  OBVIOUS
<1>5. ASSUME NEW i \in 0 .. n - 1, InArg(i) PROVE FALSE
  <2>1. Len(todo) = Len(ps) - (2 * i + 1)
    BY <1>3, <1>5 DEF InArg, Rest, Left
  <2>2. lt = lp - (2 * i + 1)
    BY <1>3, <1>4, <2>1
  <2> QED
    BY <1>3, <1>4, <2>2
<1>6. ASSUME NEW i \in 0 .. n, AtArg(i) PROVE call.kind # "isk" /\ slice = Whole(call)
  <2>1. Len(todo) = Len(ps) - 2 * i
    BY <1>3, <1>6 DEF AtArg, Rest, Left
  <2>2. lt = lp - 2 * i
    BY <1>3, <1>4, <2>1
  <2>3. call.kind # "isk" /\ i = n
    BY <1>3, <1>4, <2>2
  <2> QED
    BY <1>1, <1>2, <1>6, <2>3, Progress DEF AtArg
<1> QED
  BY <1>2, <1>5, <1>6 DEF HashInv, LvInv, Joined

(* What lvCat wrote is read back.                                          *)
LEMMA WholeReads ==
  ASSUME NEW c \in Calls, c.kind \in LvKinds
  PROVE  /\ ReadFields(Whole(c), Arity(c)) = Bytes(lvArgs(c))
         /\ \A i \in 1 .. Arity(c) : Bytes(lvArgs(c))[i] = lvArgs(c)[i].bytes
<1>1. PICK args : args = lvArgs(c) /\ IsArgs(args)
  BY LvArgs
<1>2. IsFields(Bytes(args)) /\ Len(Bytes(args)) = Arity(c)
      /\ \A i \in 1 .. Arity(c) : Bytes(args)[i] = args[i].bytes
  BY <1>1, BytesFacts DEF Arity
<1>3. ReadFields(lvCat(Bytes(args)), Len(Bytes(args))) = Bytes(args)
  BY <1>2, ReadAll
<1> QED
  BY <1>1, <1>2, <1>3 DEF Whole

(* An instance of associativity.                                           *)
Reassociates(u, v, w) == (u \o v) \o w = u \o (v \o w)

(* All of them.                                                            *)
LEMMA Associative == \A u, v, w \in Strings : Reassociates(u, v, w)
  BY StringAssoc DEF Reassociates

(* t is s with a and b after it.                                           *)
Longer(t, s, n, a, b) ==
  /\ Len(s) = n /\ Len(t) = n + 2
  /\ \A i \in 1 .. n : t[i] = s[i]
  /\ t[n + 1] = a /\ t[n + 2] = b

(* Appending them one after the other.                                     *)
LEMMA AppendTwo ==
  ASSUME NEW s \in Seq(Strings), NEW t \in Seq(Strings), NEW a \in Strings, NEW b \in Strings,
         NEW n \in Nat, Longer(t, s, n, a, b)
  PROVE  Append(Append(s, a), b) = t
<1>0. /\ Len(s) = n /\ Len(t) = n + 2
      /\ \A i \in 1 .. n : t[i] = s[i]
      /\ t[n + 1] = a /\ t[n + 2] = b
  BY DEF Longer
<1>1. PICK p : p = Append(s, a)
  OBVIOUS
<1>2. p \in Seq(Strings) /\ Len(p) = n + 1 /\ p[n + 1] = a /\ \A i \in 1 .. n : p[i] = s[i]
  BY <1>0, <1>1, AppendProperties
<1>3. PICK q : q = Append(p, b)
  OBVIOUS
<1>4. /\ q \in Seq(Strings) /\ Len(q) = Len(p) + 1 /\ q[Len(p) + 1] = b
      /\ \A i \in 1 .. Len(p) : q[i] = p[i]
  BY <1>2, <1>3, AppendProperties
<1>5. Len(q) = n + 2 /\ q[n + 2] = b /\ \A i \in 1 .. n + 1 : q[i] = p[i]
  BY <1>2, <1>4
<1>6. ASSUME NEW i \in 1 .. n + 2 PROVE q[i] = t[i]
  <2>1. i \in 1 .. n \/ i = n + 1 \/ i = n + 2
    OBVIOUS
  <2>2. CASE i \in 1 .. n
    <3>1. i \in 1 .. n + 1
      BY <2>2
    <3> QED
      BY <1>0, <1>2, <1>5, <2>2, <3>1
  <2>3. CASE i = n + 1
    <3>1. n + 1 \in 1 .. n + 1
      OBVIOUS
    <3> QED
      BY <1>0, <1>2, <1>5, <2>3, <3>1
  <2>4. CASE i = n + 2
    BY <1>0, <1>5, <2>4
  <2> QED
    BY <2>1, <2>2, <2>3, <2>4
<1>7. Len(q) = Len(t) /\ \A i \in 1 .. Len(q) : q[i] = t[i]
  BY <1>0, <1>5, <1>6
<1>8. q = t
  BY <1>4, <1>7, SeqEqual
<1> QED
  BY <1>1, <1>3, <1>8

(* lvCat of two arguments, behind other fields, is two more fields.        *)
LEMMA TwoFields ==
  ASSUME NEW a \in Strings, NEW b \in Strings, NEW d \in Strings, NEW args \in Seq(Strings)
  PROVE  /\ lvCat(<<a, b>>) \in Strings
         /\ appendAll(d, args) \o lvCat(<<a, b>>) = appendAll(d, Append(Append(args, a), b))
<1>1. PICK z \in Strings : z = <<>>
  BY EmptyString
<1>2. PICK n0 \in Seq(Strings) : n0 = <<>> /\ Len(n0) = 0
  <2>1. <<>> \in Seq(Strings) /\ Len(<<>>) = 0
    OBVIOUS
  <2> QED
    BY <2>1
<1>3. PICK n1 \in Seq(Strings) : n1 = Append(n0, a)
  BY AppendProperties
<1>4. Append(n1, b) = <<a, b>>
  <2>1. PICK t \in Seq(Strings) : t = <<a, b>> /\ Len(t) = 2 /\ t[1] = a /\ t[2] = b
    <3>1. <<a, b>> \in Seq(Strings) /\ Len(<<a, b>>) = 2 /\ <<a, b>>[1] = a /\ <<a, b>>[2] = b
      OBVIOUS
    <3> QED
      BY <3>1
  <2>2. PICK k \in Nat : k = 0 /\ Longer(t, n0, k, a, b)
    BY <1>2, <2>1 DEF Longer
  <2>3. Append(Append(n0, a), b) = t
    BY <2>2, AppendTwo, SMTT(60)
  <2> QED
    BY <1>3, <2>1, <2>3
<1>5. PICK a1 \in Seq(Strings) : a1 = Append(args, a)
  BY AppendProperties
<1>6. PICK u \in Strings : u = appendAll(d, args)
  BY AppendAllType, Zenon
<1>7. PICK fa \in Strings, fb \in Strings :
        /\ fa = appendLEB128[Len(a)] \o a /\ fb = appendLEB128[Len(b)] \o b
        /\ \A x \in Strings : appendLengthValue(x, a) = x \o fa
        /\ \A x \in Strings : appendLengthValue(x, b) = x \o fb
  <2>1. \A x \in Strings : appendLengthValue(x, a) = x \o (appendLEB128[Len(a)] \o a)
    BY AppendType
  <2>2. \A x \in Strings : appendLengthValue(x, b) = x \o (appendLEB128[Len(b)] \o b)
    BY AppendType
  <2>3. PICK ea \in Strings, eb \in Strings : ea = appendLEB128[Len(a)] /\ eb = appendLEB128[Len(b)]
    BY AppendType
  <2>4. ea \o a \in Strings /\ eb \o b \in Strings
    BY StringConcat
  <2> QED
    BY <2>1, <2>2, <2>3, <2>4, Zenon
<1>8. /\ appendAll(z, n0) = z /\ appendAll(z, n1) = appendLengthValue(appendAll(z, n0), a)
      /\ appendAll(z, Append(n1, b)) = appendLengthValue(appendAll(z, n1), b)
  BY <1>2, <1>3, AppendAllEmpty, AppendAllAppend, ZenonT(60)
<1>9. PICK w \in Strings : w = fa \o fb
  BY StringConcat
<1>10. z \o fa = fa
  BY <1>1 DEF Strings
<1>11. lvCat(<<a, b>>) = w
  BY <1>1, <1>4, <1>7, <1>8, <1>9, <1>10, ZenonT(60) DEF lvCat
<1>12. /\ appendAll(d, a1) = appendLengthValue(appendAll(d, args), a)
       /\ appendAll(d, Append(a1, b)) = appendLengthValue(appendAll(d, a1), b)
  <2>1. appendAll(d, Append(args, a)) = appendLengthValue(appendAll(d, args), a)
    BY AppendAllAppend, ZenonT(60)
  <2>2. appendAll(d, Append(a1, b)) = appendLengthValue(appendAll(d, a1), b)
    BY AppendAllAppend, ZenonT(60)
  <2> QED
    BY <1>5, <2>1, <2>2, Zenon
<1>13. u \o fa \in Strings /\ (u \o fa) \o fb = u \o (fa \o fb)
  <2>1. u \o fa \in Strings
    BY StringConcat, Zenon
  <2>2. (u \o fa) \o fb = u \o (fa \o fb)
    <3>1. Reassociates(u, fa, fb)
      BY Associative
    <3> QED
      BY <3>1 DEF Reassociates
  <2> QED
    BY <2>1, <2>2
<1>14. appendAll(d, Append(a1, b)) = u \o w
  BY <1>6, <1>7, <1>9, <1>12, <1>13, ZenonT(60)
<1> QED
  BY <1>5, <1>6, <1>11, <1>14, Zenon

(* The hash input of deriveISK is seven fields, although its second half   *)
(* is concatenated raw.                                                    *)
LEMMA IskReads ==
  ASSUME NEW c \in Calls, c.kind = "isk"
  PROVE  ReadFields(Whole(c) \o irTranscript(c), 7)
           = <<dsiISK, c.sid, c.k, c.ya, c.ada, c.yb, c.adb>>
<1>1. PICK x1 \in Strings, x2 \in Strings, x3 \in Strings, x4 \in Strings, x5 \in Strings,
           x6 \in Strings, x7 \in Strings :
        x1 = dsiISK /\ x2 = c.sid /\ x3 = c.k /\ x4 = c.ya /\ x5 = c.ada /\ x6 = c.yb /\ x7 = c.adb
  BY CallFields, FieldFacts, LabelFields
<1>2. /\ Len(x1) < Power[maxLengthBytes] /\ Len(x2) < Power[maxLengthBytes]
      /\ Len(x3) < Power[maxLengthBytes] /\ Len(x4) < Power[maxLengthBytes]
      /\ Len(x5) < Power[maxLengthBytes] /\ Len(x6) < Power[maxLengthBytes]
      /\ Len(x7) < Power[maxLengthBytes]
  BY <1>1, CallFields, FieldFacts, LabelFields
<1>3. Bytes(lvArgs(c)) = <<x1, x2, x3>>
  <2>1. PICK args : /\ args = lvArgs(c) /\ IsArgs(args) /\ Len(args) = 3
                    /\ args[1].bytes = x1 /\ args[2].bytes = x2 /\ args[3].bytes = x3
    BY <1>1, CallFields, IskArgs
  <2>2. PICK s : s = Bytes(args)
    OBVIOUS
  <2>3. s = [i \in 1 .. 3 |-> args[i].bytes]
    BY <2>1, <2>2 DEF Bytes
  <2>4. s = <<x1, x2, x3>>
    BY <2>1, <2>3
  <2> QED
    BY <2>1, <2>2, <2>4
<1>20. PICK t3 : t3 = <<x1, x2, x3>>
  OBVIOUS
<1>21. PICK t5 : t5 = <<x1, x2, x3, x4, x5>>
  OBVIOUS
<1>22. PICK t7 : t7 = <<x1, x2, x3, x4, x5, x6, x7>>
  OBVIOUS
<1>23. t3 \in Seq(Strings) /\ Len(t3) = 3 /\ t3[1] = x1 /\ t3[2] = x2 /\ t3[3] = x3
  BY <1>20
<1>24. /\ t5 \in Seq(Strings) /\ Len(t5) = 5 /\ t5[1] = x1 /\ t5[2] = x2 /\ t5[3] = x3
       /\ t5[4] = x4 /\ t5[5] = x5
  BY <1>21
<1>25. /\ t7 \in Seq(Strings) /\ Len(t7) = 7 /\ t7[1] = x1 /\ t7[2] = x2 /\ t7[3] = x3
       /\ t7[4] = x4 /\ t7[5] = x5 /\ t7[6] = x6 /\ t7[7] = x7
  BY <1>22
<1>5. Append(Append(t3, x4), x5) = t5 /\ Append(Append(t5, x6), x7) = t7
  <2>1. Longer(t5, t3, 3, x4, x5)
    <3>1. \A i \in 1 .. 3 : i = 1 \/ i = 2 \/ i = 3
      OBVIOUS
    <3>2. \A i \in 1 .. 3 : t5[i] = t3[i]
      BY <1>23, <1>24, <3>1
    <3> QED
      BY <1>23, <1>24, <3>2 DEF Longer
  <2>2. Append(Append(t3, x4), x5) = t5
    <3>1. 3 \in Nat /\ t3 \in Seq(Strings) /\ t5 \in Seq(Strings)
      BY <1>23, <1>24
    <3> QED
      BY <2>1, <3>1, AppendTwo
  <2>3. Longer(t7, t5, 5, x6, x7)
    <3>1. \A i \in 1 .. 5 : i = 1 \/ i = 2 \/ i = 3 \/ i = 4 \/ i = 5
      OBVIOUS
    <3>2. \A i \in 1 .. 5 : t7[i] = t5[i]
      BY <1>24, <1>25, <3>1
    <3> QED
      BY <1>24, <1>25, <3>2 DEF Longer
  <2>4. Append(Append(t5, x6), x7) = t7
    <3>1. 5 \in Nat /\ t5 \in Seq(Strings) /\ t7 \in Seq(Strings)
      BY <1>24, <1>25
    <3> QED
      BY <2>3, <3>1, AppendTwo
  <2> QED
    BY <2>2, <2>4
<1>6. PICK d \in Strings : d = <<>>
  BY EmptyString
<1>7. PICK v \in Strings, w \in Strings : v = lvCat(<<x4, x5>>) /\ w = lvCat(<<x6, x7>>)
  <2>1. lvCat(<<x4, x5>>) \in Strings
    BY <1>6, <1>23, TwoFields
  <2>2. lvCat(<<x6, x7>>) \in Strings
    BY <1>6, <1>23, TwoFields
  <2> QED
    BY <2>1, <2>2
<1>8. appendAll(d, t3) \o v = appendAll(d, t5)
  <2>1. t3 \in Seq(Strings)
    BY <1>23
  <2>2. appendAll(d, t3) \o lvCat(<<x4, x5>>) = appendAll(d, Append(Append(t3, x4), x5))
    BY <2>1, TwoFields, ZenonT(60)
  <2> QED
    BY <1>5, <1>7, <2>2, Zenon
<1>9. appendAll(d, t5) \o w = appendAll(d, t7)
  <2>1. t5 \in Seq(Strings)
    BY <1>24
  <2>2. appendAll(d, t5) \o lvCat(<<x6, x7>>) = appendAll(d, Append(Append(t5, x6), x7))
    BY <2>1, TwoFields, ZenonT(60)
  <2> QED
    BY <1>5, <1>7, <2>2, Zenon
<1>10. PICK u \in Strings : u = appendAll(d, t3)
  BY <1>23, AppendAllType, Zenon
<1>11. (u \o v) \o w = u \o (v \o w)
  <2>1. Reassociates(u, v, w)
    BY Associative
  <2> QED
    BY <2>1 DEF Reassociates
<1>12. Whole(c) = u /\ irTranscript(c) = v \o w
  BY <1>1, <1>3, <1>20, <1>6, <1>7, <1>10, Zenon DEF Whole, lvCat, irTranscript
<1>13. Whole(c) \o irTranscript(c) = lvCat(t7)
  BY <1>6, <1>8, <1>9, <1>10, <1>11, <1>12, Zenon DEF lvCat
<1>14. Len(t7) = 7 /\ IsFields(t7)
  <2>1. \A i \in 1 .. 7 : \/ i = 1 \/ i = 2 \/ i = 3 \/ i = 4 \/ i = 5 \/ i = 6 \/ i = 7
    OBVIOUS
  <2>2. \A i \in 1 .. 7 : Len(t7[i]) < Power[maxLengthBytes]
    BY <1>2, <1>25, <2>1
  <2> QED
    BY <1>25, <2>2 DEF IsFields
<1>15. ReadFields(lvCat(t7), Len(t7)) = t7
  BY <1>14, ReadAll
<1> QED
  BY <1>1, <1>22, <1>13, <1>14, <1>15

(* b ends in k, and has s between l and k.                                 *)
SplitsAt(b, l, s, k, n) ==
  /\ n = Len(b) - Len(k)
  /\ SubSeq(b, n + 1, Len(b)) = k
  /\ SubSeq(b, Len(l) + 1, n) = s

(* The MAC key input comes apart because the ISK has a fixed size.         *)
LEMMA MacReads ==
  ASSUME NEW l \in Strings, NEW s \in Strings, NEW k \in Strings
  PROVE  \E n \in Nat : SplitsAt((l \o s) \o k, l, s, k, n)
<1>1. PICK ll \in Nat, ls \in Nat, lk \in Nat : ll = Len(l) /\ ls = Len(s) /\ lk = Len(k)
  BY DEF Strings
<1>2. PICK x : x = l \o s
  OBVIOUS
<1>3. /\ x \in Strings /\ Len(x) = ll + ls /\ \A j \in 1 .. ls : x[ll + j] = s[j]
  BY <1>1, <1>2, StringConcat
<1>4. PICK lx \in Nat : lx = Len(x) /\ lx = ll + ls
  BY <1>3
<1>5. PICK y : y = x \o k
  OBVIOUS
<1>6. /\ y \in Strings /\ Len(y) = lx + lk
      /\ \A j \in 1 .. lx : y[j] = x[j]
      /\ \A j \in 1 .. lk : y[lx + j] = k[j]
  <2>1. x \in Strings
    BY <1>3
  <2>2. /\ y \in Strings /\ Len(y) = Len(x) + Len(k)
        /\ \A j \in 1 .. Len(x) : y[j] = x[j]
        /\ \A j \in 1 .. Len(k) : y[Len(x) + j] = k[j]
    BY <1>5, <2>1, StringConcat
  <2> QED
    BY <1>1, <1>4, <2>2
<1>7. SubSeq(y, lx + 1, lx + Len(k)) = k
  <2>1. y \in Strings /\ lx + Len(k) <= Len(y) /\ \A j \in 1 .. Len(k) : y[lx + j] = k[j]
    BY <1>1, <1>6
  <2> QED
    BY <2>1, LayoutSlice
<1>8. SubSeq(y, ll + 1, ll + Len(s)) = s
  <2>1. ASSUME NEW j \in 1 .. ls PROVE y[ll + j] = s[j]
    <3>1. ll + j \in 1 .. lx
      BY <1>4
    <3> QED
      BY <1>3, <1>6, <3>1
  <2>2. y \in Strings /\ ll + Len(s) <= Len(y) /\ \A j \in 1 .. Len(s) : y[ll + j] = s[j]
    BY <1>1, <1>4, <1>6, <2>1
  <2> QED
    BY <2>2, LayoutSlice
<1>9. (l \o s) \o k = y
  BY <1>2, <1>5
<1>10. lx = Len(y) - Len(k) /\ Len(y) = lx + Len(k) /\ lx = ll + Len(s)
  BY <1>1, <1>4, <1>6
<1>11. SplitsAt(y, l, s, k, lx)
  BY <1>1, <1>7, <1>8, <1>10 DEF SplitsAt
<1> QED
  BY <1>9, <1>11

(* ReadsBack: two hash inputs of the same kind (crypto.go, transcript.go,  *)
(* input.go) are equal only if everything that went into them is.          *)
THEOREM InputsReadBack == HashSpec => []ReadsBack
<1>1. HashInv => ReadsBack
  <2> SUFFICES ASSUME HashInv, Complete PROVE ReadsBack
    BY DEF ReadsBack
  <2>1. call \in Calls /\ todo = <<>>
    BY DEF HashInv, Complete
  <2>2. call.kind = "generator" \/ call.kind = "isk" \/ call.kind = "ci" \/ call.kind = "mac"
    BY <2>1, CallFields DEF LvKinds
  <2>3. CASE call.kind = "generator"
    <3>1. call.kind \in LvKinds /\ call.kind # "isk"
      BY <2>3 DEF LvKinds
    <3>2. slice = Whole(call)
      BY <2>1, <3>1, Finished
    <3>3. /\ Len(lvArgs(call)) = 5 /\ lvArgs(call)[1].bytes = dsiX25519
          /\ lvArgs(call)[2].bytes = call.prs
          /\ lvArgs(call)[4].bytes = call.ci /\ lvArgs(call)[5].bytes = call.sid
      BY <2>1, <2>3, CallFields, GeneratorArgs
    <3>4. PICK f : f = ReadFields(slice, 5) /\ f = Bytes(lvArgs(call))
      BY <2>1, <3>1, <3>2, <3>3, WholeReads DEF Arity
    <3>5. \A i \in 1 .. 5 : f[i] = lvArgs(call)[i].bytes
      BY <2>1, <3>1, <3>3, <3>4, WholeReads DEF Arity
    <3>6. f[1] = dsiX25519 /\ f[2] = call.prs /\ f[4] = call.ci /\ f[5] = call.sid
      BY <3>3, <3>5
    <3> QED
      BY <2>3, <3>4, <3>6 DEF ReadsBack
  <2>4. CASE call.kind = "isk"
    <3>1. Joined
      BY <2>1, <2>4, Finished DEF LvKinds
    <3>2. ReadFields(slice, 7)
            = <<dsiISK, call.sid, call.k, call.ya, call.ada, call.yb, call.adb>>
      BY <2>1, <2>4, <3>1, IskReads DEF Joined
    <3> QED
      BY <2>4, <3>2 DEF ReadsBack
  <2>5. CASE call.kind = "ci"
    <3>1. call.kind \in LvKinds /\ call.kind # "isk"
      BY <2>5 DEF LvKinds
    <3>2. slice = Whole(call)
      BY <2>1, <3>1, Finished
    <3>3. /\ Len(lvArgs(call)) = 9 /\ lvArgs(call)[5].bytes = call.initiatorID
          /\ lvArgs(call)[7].bytes = call.responderID /\ lvArgs(call)[9].bytes = call.context
      BY <2>1, <2>5, CallFields, CiArgs
    <3>4. PICK f : f = ReadFields(slice, 9) /\ f = Bytes(lvArgs(call))
      BY <2>1, <3>1, <3>2, <3>3, WholeReads DEF Arity
    <3>5. \A i \in 1 .. 9 : f[i] = lvArgs(call)[i].bytes
      BY <2>1, <3>1, <3>3, <3>4, WholeReads DEF Arity
    <3>6. f[5] = call.initiatorID /\ f[7] = call.responderID /\ f[9] = call.context
      BY <3>3, <3>5
    <3> QED
      BY <2>5, <3>4, <3>6 DEF ReadsBack
  <2>6. CASE call.kind = "mac"
    <3>1. PICK l \in Strings, s \in Strings, k \in Strings :
            l = MacLabel /\ s = call.sid /\ k = call.isk /\ Len(k) = iskSize
      BY <2>1, <2>6, CallFields, FieldFacts, LabelFields
    <3>2. slice = (l \o s) \o k
      <4>1. macPieces(call) # <<>> /\ <<Sensitive(call.isk)>> # <<>>
        BY DEF macPieces
      <4> QED
        BY <2>1, <2>6, <3>1, <4>1 DEF HashInv, MacInv
    <3>3. PICK n \in Nat : SplitsAt(slice, l, s, k, n)
      BY <3>2, MacReads
    <3>4. /\ n = Len(slice) - iskSize
          /\ SubSeq(slice, n + 1, Len(slice)) = k /\ SubSeq(slice, Len(l) + 1, n) = s
      BY <3>1, <3>3 DEF SplitsAt
    <3> QED
      BY <2>6, <3>1, <3>4 DEF ReadsBack
  <2> QED
    BY <2>2, <2>3, <2>4, <2>5, <2>6
<1> QED
  BY <1>1, HashInvariance, PTL

(* BlockFilled: what generatorString puts before the channel identifier    *)
(* fills the first hash block, exactly so if there is padding.             *)
THEOREM FirstBlockFilled == HashSpec => []BlockFilled
<1>1. HashInv => BlockFilled
  <2> SUFFICES ASSUME HashInv, Complete, call.kind = "generator" PROVE BlockFilled
    BY DEF BlockFilled
  <2>1. call \in Calls /\ todo = <<>> /\ call.kind \in LvKinds /\ call.kind # "isk"
    BY DEF HashInv, Complete, LvKinds
  <2>2. slice = Whole(call)
    BY <2>1, Finished
  <2>3. /\ Len(lvArgs(call)) = 5 /\ lvArgs(call)[1].bytes = dsiX25519
        /\ lvArgs(call)[2].bytes = call.prs
        /\ lvArgs(call)[3].bytes = Zeros(zpadLen(call.prs)) /\ call.prs \in Strings
    BY <2>1, CallFields, FieldFacts, GeneratorArgs
  <2>4. PICK f : f = ReadFields(slice, 5) /\ f = Bytes(lvArgs(call))
    BY <2>1, <2>2, <2>3, WholeReads DEF Arity
  <2>5. \A i \in 1 .. 5 : f[i] = lvArgs(call)[i].bytes
    BY <2>1, <2>3, <2>4, WholeReads DEF Arity
  <2>6. PICK z \in 0 .. 127 : z = zpadLen(call.prs)
    BY <2>3, Padding
  <2>7. Len(f[1]) = 8 /\ Len(f[2]) = Len(call.prs) /\ Len(f[3]) = z
    <3>1. f[1] = dsiX25519 /\ f[2] = call.prs /\ f[3] = Zeros(z)
      BY <2>3, <2>5, <2>6
    <3>2. Len(Zeros(z)) = z
      BY DEF Zeros
    <3> QED
      BY <3>1, <3>2, LabelFields
  <2>8. LET upTo == lengthValueLen(8) + lengthValueLen(Len(call.prs)) + lengthValueLen(z)
        IN  /\ upTo >= sha512BlockSize
            /\ z > 0 => upTo = sha512BlockSize
            /\ leb128LenInt[z] = 1
    BY <2>3, <2>6, Padding
  <2> QED
    BY <2>4, <2>7, <2>8 DEF BlockFilled
<1> QED
  BY <1>1, HashInvariance, PTL
=============================================================================
