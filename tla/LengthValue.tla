---------------------------- MODULE LengthValue ----------------------------
(***************************************************************************)
(* Length-value encoding (length_value.go): a field is its length in       *)
(* LEB128, low digit first, followed by its bytes.  Base is 0x80 in the    *)
(* code: a digit byte is below it, a digit with more to come above it.     *)
(* Buffers are sequences, and offsets count from 0 as they do in Go.       *)
(***************************************************************************)
EXTENDS Integers, SequencesExt

CONSTANT Base

ASSUME BaseAssumption == Base \in Nat /\ Base > 1

Byte(buf, off) == buf[off + 1]

appendLEB128 ==
  LET enc[n \in Nat] == IF n < Base THEN <<n>> ELSE <<Base + (n % Base)>> \o enc[n \div Base]
  IN  enc

leb128LenInt == LET len[n \in Nat] == IF n < Base THEN 1 ELSE 1 + len[n \div Base] IN len

lengthValueLen(n) == leb128LenInt[n] + n

appendLengthValue(dst, data) == dst \o appendLEB128[Len(data)] \o data

(* The loop of lvCat: dst after every argument has been appended to it.    *)
appendAll(dst, args) ==
  LET out[i \in 0 .. Len(args)] ==
        IF i = 0 THEN dst ELSE appendLengthValue(out[i - 1], args[i])
  IN  out[Len(args)]

lvCat(args) == appendAll(<<>>, args)

(* 1 << (7 * k).                                                           *)
Power == LET pow[k \in Nat] == IF k = 0 THEN 1 ELSE Base * pow[k - 1] IN pow

(* The loop of readLEB128: n after every byte of a run.                    *)
LEBValue(bytes) ==
  LET n[i \in 0 .. Len(bytes)] ==
        IF i = 0 THEN 0 ELSE n[i - 1] + (bytes[i] % Base) * Power[i - 1]
  IN  n[Len(bytes)]

Failed == [n |-> 0, next |-> 0, ok |-> FALSE]

(* The first of the maxBytes positions from off on that is past the end or *)
(* holds a last digit decides: end of buffer, non-canonical, or the value. *)
CanonicalMutant(n, k) == TRUE
Canonical(n, k) == k = 0 \/ n >= Power[k]

readLEB128(buf, off, maxBytes) ==
  LET Stops == {k \in 0 .. maxBytes - 1 : off + k >= Len(buf) \/ Byte(buf, off + k) < Base}
      k     == Min(Stops)
      n     == LEBValue(SubSeq(buf, off + 1, off + k + 1))
  IN  IF Stops = {} \/ off + k >= Len(buf) \/ ~Canonical(n, k)
      THEN Failed
      ELSE [n |-> n, next |-> off + k + 1, ok |-> TRUE]
=============================================================================
