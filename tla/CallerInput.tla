---------------------------- MODULE CallerInput ----------------------------
(***************************************************************************)
(* How Start and Respond take the caller's Input in (input.go, caps.go):   *)
(* which inputs are refused, in which order the checks are made, and how   *)
(* the role decides what the accepted fields mean.                         *)
(*                                                                         *)
(* A byte string is a record [len, id]: its length, which the checks look  *)
(* at, and a name for its contents, which everything else compares.  nil   *)
(* and the empty slice are the same string, as they are to the code.       *)
(***************************************************************************)
EXTENDS Integers

Bytes(n, x) == [len |-> n, id |-> x]

maxPasswordLength       == 4 * 1024
maxIDLength             == 4 * 1024
maxContextLength        == 1024
maxSessionIDLength      == 1024
maxAssociatedDataLength == 64 * 1024

FieldNames == {"Password", "SelfID", "PeerID", "Context", "SessionID", "LocalAssociatedData"}

Required == {"Password", "SelfID", "PeerID"}

Cap ==
  [Password |-> maxPasswordLength, SelfID |-> maxIDLength, PeerID |-> maxIDLength,
   Context |-> maxContextLength, SessionID |-> maxSessionIDLength,
   LocalAssociatedData |-> maxAssociatedDataLength]

validateRequired(in) == \A f \in Required : in[f].len # 0
validateCaps(in)     == \A f \in FieldNames : in[f].len <= Cap[f]

(* The three checks, in the order that decides which error is reported.    *)
acceptInput(in) ==
  IF ~validateRequired(in) THEN "ErrInvalidInput"
  ELSE IF in.SessionID.len = 0 /\ ~in.AllowEmptySessionID THEN "ErrEmptySessionID"
  ELSE IF ~validateCaps(in) THEN "ErrInvalidInput"
  ELSE "ok"

mapTranscriptIDsMutant(role, in) ==
  [initiatorID |-> in.SelfID, responderID |-> in.PeerID]

mapTranscriptIDs(role, in) ==
  IF role = "initiator" THEN [initiatorID |-> in.SelfID, responderID |-> in.PeerID]
                        ELSE [initiatorID |-> in.PeerID, responderID |-> in.SelfID]

(* lvCat of labelled fields: equal channel identifiers have equal fields.  *)
buildCIMutant(ids, context) == <<ids.initiatorID, ids.responderID>>
buildCI(ids, context) == <<ids.initiatorID, ids.responderID, context>>

normalizeInput(in, role) ==
  LET ids == mapTranscriptIDs(role, in)
  IN  [password    |-> in.Password,
       initiatorID |-> ids.initiatorID,
       responderID |-> ids.responderID,
       ci          |-> buildCI(ids, in.Context),
       sid         |-> in.SessionID,
       ad          |-> in.LocalAssociatedData]
=============================================================================
