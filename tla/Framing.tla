------------------------------ MODULE Framing ------------------------------
(***************************************************************************)
(* Message framing (framing.go): messages A, B and C as bytes, and the     *)
(* reader that takes an arbitrary buffer apart field by field.  A field is *)
(* read, checked against its cap and copied in one step, as readField does *)
(* it; every failure is ErrMessage.                                        *)
(***************************************************************************)
EXTENDS LengthValue

CONSTANTS wireFormatV1, wireSuite,  \* the first two header bytes
          messageSpecs,             \* messageSpecs[m]: role byte and field caps
          maxMessageLength,         \* cap on the whole message
          maxLEB128BytesForField,   \* cap on a length prefix
          Alphabet,                 \* the byte values in use
          Buffers                   \* what the peer may send

messageHeaderSize == 3

(* A message spec is a role byte and the caps of its fields, in order.     *)
SpecsOK(specs) ==
  \A m \in DOMAIN specs :
    /\ specs[m].role \in Alphabet
    /\ specs[m].fields \in Seq([length : Nat, exact : BOOLEAN])

(* A byte is a digit and a bit that says whether another one follows.      *)
ASSUME BytesAssumption ==
  /\ Alphabet \subseteq 0 .. 2 * Base - 1
  /\ {wireFormatV1, wireSuite} \subseteq Alphabet
  /\ Buffers \subseteq Seq(Alphabet)

ASSUME LimitsAssumption == maxMessageLength \in Nat /\ maxLEB128BytesForField \in Nat \ {0}

maxValidMessageLength(m) ==
  LET fs == messageSpecs[m].fields
      upTo[i \in 0 .. Len(fs)] ==
        IF i = 0 THEN messageHeaderSize
        ELSE upTo[i - 1] + maxLEB128BytesForField + fs[i].length
  IN  upTo[Len(fs)]

(* What framing.go asserts at compile time: a length prefix of the allowed *)
(* size can express every cap, and no valid message reaches the total cap. *)
ASSUME CapsAssumption ==
  /\ SpecsOK(messageSpecs)
  /\ \A m \in DOMAIN messageSpecs :
       /\ \A i \in DOMAIN messageSpecs[m].fields :
            messageSpecs[m].fields[i].length <= Power[maxLEB128BytesForField] - 1
       /\ maxValidMessageLength(m) < maxMessageLength

ASSUME RolesAssumption ==
  \A m, k \in DOMAIN messageSpecs : messageSpecs[m].role = messageSpecs[k].role => m = k

VARIABLES buf,     \* messageReader.buf
          msg,     \* the message expected: "A", "B" or "C"
          off,     \* messageReader.off
          fields,  \* the fields read so far
          verdict  \* "new", "reading", "ok" or "ErrMessage"

vars == <<buf, msg, off, fields, verdict>>

encode(m, fs) ==
  appendAll(<<wireFormatV1, wireSuite, messageSpecs[m].role>>, fs)

validateMessageLength(f, n) == IF f.exact THEN n = f.length ELSE n <= f.length

Init ==
  /\ buf \in Buffers
  /\ msg \in DOMAIN messageSpecs
  /\ off = 0
  /\ fields = <<>>
  /\ verdict = "new"

Reject ==
  /\ verdict' = "ErrMessage"
  /\ UNCHANGED <<buf, msg, off, fields>>

HeaderOK ==
  /\ Len(buf) >= messageHeaderSize
  /\ buf[1] = wireFormatV1 /\ buf[2] = wireSuite /\ buf[3] = messageSpecs[msg].role
  /\ Len(buf) <= maxMessageLength

newMessageReader ==
  /\ verdict = "new"
  /\ \/ ~HeaderOK /\ Reject
     \/ HeaderOK /\ off' = messageHeaderSize /\ verdict' = "reading" /\ UNCHANGED <<buf, msg, fields>>

NextField == messageSpecs[msg].fields[Len(fields) + 1]

Fits(next, n) == Len(buf) - next >= n

(* The slice expression buf[next : next + n], which panics out of range.   *)
TakeField(next, n) ==
  IF next + n > Len(buf)
  THEN verdict' = "panic" /\ UNCHANGED <<off, fields>>
  ELSE /\ fields' = Append(fields, SubSeq(buf, next + 1, next + n))
       /\ off' = next + n
       /\ UNCHANGED verdict

readField ==
  /\ verdict = "reading" /\ Len(fields) < Len(messageSpecs[msg].fields)
  /\ LET l  == readLEB128(buf, off, maxLEB128BytesForField)
         ok == l.ok /\ validateMessageLength(NextField, l.n) /\ Fits(l.next, l.n)
     IN  \/ ~ok /\ Reject
         \/ ok /\ TakeField(l.next, l.n) /\ UNCHANGED <<buf, msg>>

AtEndMutant == TRUE
AtEnd == off = Len(buf)

done ==
  /\ verdict = "reading" /\ Len(fields) = Len(messageSpecs[msg].fields)
  /\ \/ ~AtEnd /\ Reject
     \/ AtEnd /\ verdict' = "ok" /\ UNCHANGED <<buf, msg, off, fields>>

Next == newMessageReader \/ readField \/ done

Spec == Init /\ [][Next]_vars

---------------------------------------------------------------------------
(* The type also says that the reader never slices past the end of what    *)
(* the peer sent (framing.go:206): the verdict is never a panic.           *)
TypeOK ==
  /\ buf \in Seq(Alphabet)
  /\ msg \in DOMAIN messageSpecs
  /\ off \in 0 .. Len(buf)
  /\ Len(fields) <= Len(messageSpecs[msg].fields)
  /\ verdict \in {"new", "reading", "ok", "ErrMessage"}

WithinCap(f, field) == IF f.exact THEN Len(field) = f.length ELSE Len(field) <= f.length

(* What has been consumed so far is, byte for byte, the encoding of the    *)
(* fields read from it, and each of them obeys its cap: the reader never   *)
(* skips, rereads or overreads a byte and never copies an oversized field. *)
ConsumedIsEncoded ==
  verdict \in {"reading", "ok"} =>
    /\ SubSeq(buf, 1, off) = encode(msg, fields)
    /\ \A i \in DOMAIN fields : WithinCap(messageSpecs[msg].fields[i], fields[i])

(* Every field value a cap allows, and every message made of such fields.  *)
FieldValues(f) ==
  UNION {[1 .. n -> Alphabet] : n \in IF f.exact THEN {f.length} ELSE 0 .. f.length}

Encodings ==
  [m \in DOMAIN messageSpecs |->
     LET fs == messageSpecs[m].fields
     IN  {encode(m, v) : v \in {w \in [DOMAIN fs -> UNION {FieldValues(fs[i]) : i \in DOMAIN fs}] :
                                  \A i \in DOMAIN fs : w[i] \in FieldValues(fs[i])}}]

(* The reader accepts exactly the encodings: what one side sends within    *)
(* the caps the other side reads, and no second byte string (a padded      *)
(* length, trailing bytes, another role) is taken for the same message.    *)
(* Whatever else the peer sent is ErrMessage, never a panic of the slice   *)
(* expression (framing.go:206).                                            *)
AcceptsExactlyEncodings ==
  verdict \notin {"new", "reading"} =>
    verdict = IF buf \in Encodings[msg] THEN "ok" ELSE "ErrMessage"
=============================================================================
