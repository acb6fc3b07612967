----------------------------- MODULE MCFraming -----------------------------
(***************************************************************************)
(* Framing with every number scaled down: digits are bits, so a length of  *)
(* 2 already needs a second prefix byte, and a prefix has at most two.     *)
(***************************************************************************)
EXTENDS Framing

Bytes4 == 0 .. 3

Capped(n) == [length |-> n, exact |-> FALSE]
Exactly(n) == [length |-> n, exact |-> TRUE]

(* A: session id, point, associated data.  B: point, associated data, tag. *)
(* C: tag.                                                                 *)
SmallSpecs ==
  [A |-> [role |-> 1, fields |-> <<Capped(1), Exactly(1), Capped(2)>>],
   B |-> [role |-> 2, fields |-> <<Exactly(1), Capped(2), Exactly(1)>>],
   C |-> [role |-> 3, fields |-> <<Exactly(2)>>]]

Headers == {<<wireFormatV1, wireSuite, r>> : r \in 1 .. 3}

(* Arbitrary bodies of up to five bytes.                                   *)
ShortBuffers == {h \o b : h \in Headers, b \in UNION {[1 .. n -> Bytes4] : n \in 0 .. 5}}

(* Valid messages and what becomes of them when one byte is changed, the   *)
(* end is cut off, or something follows.                                   *)
Valid == UNION {Encodings[m] : m \in DOMAIN messageSpecs}

Damaged(s) ==
  {s} \cup {SubSeq(s, 1, n) : n \in 0 .. Len(s) - 1}
      \cup {[s EXCEPT ![i] = b] : i \in DOMAIN s, b \in Bytes4}
      \cup {Append(s, b) : b \in {0, 3}}
      \cup {s \o <<0, 0, 0, 0, 0, 0>>}

SmallBuffers == ShortBuffers \cup UNION {Damaged(s) : s \in Valid}
=============================================================================
