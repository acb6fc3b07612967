----------------------------- MODULE CPaceCore -----------------------------
(***************************************************************************)
(* The CPace computations as terms (crypto.go, peer_share.go,              *)
(* transcript.go): a hash, a MAC or a group element is the structure of    *)
(* what went into it, so two of them are equal exactly when they were      *)
(* computed from equal things.  This is the usual perfect-cryptography     *)
(* abstraction, with one law kept: s.(t.G) = t.(s.G).                      *)
(***************************************************************************)
EXTENDS Integers

CONSTANT Nil  \* no core, no session, no key: a Go nil

(* A point is a generator multiplied by a bag of at most two scalars; with *)
(* deg the number of factors, the set of scalars determines the bag.       *)
Point(g, n, ss) == [gen |-> g, deg |-> n, scalars |-> ss]

(* Every low-order encoding, and the neutral element they all lead to.     *)
LowOrder == Point(Nil, 0, {})
Identity == LowOrder

calculateGeneratorMutant(prs, ci, sid) == Point(<<ci, sid>>, 0, {})
calculateGenerator(prs, ci, sid) == Point(<<prs, ci, sid>>, 0, {})

scalarMult(s, p) ==
  IF p.gen = Nil THEN Identity ELSE Point(p.gen, p.deg + 1, p.scalars \cup {s})

(* The fixed scalar that Respond validates shares with before it samples.  *)
peerShareValidationScalar == "validation scalar"

(* nil stands for ErrAbort wrapping ErrPeerShareIdentity.                  *)
scalarMultVFY(s, p) == LET k == scalarMult(s, p) IN IF k = Identity THEN Nil ELSE k

validatePublicShareMutant(p) == TRUE
validatePublicShare(p) == scalarMultVFY(peerShareValidationScalar, p) # Nil

newIRTranscript(ya, ada, yb, adb) == [ya |-> ya, ada |-> ada, yb |-> yb, adb |-> adb]

transcriptID(tr) == <<"CPaceSidOutput", tr>>

deriveISK(sid, k, tr) == <<"CPace255_ISK", sid, k, tr>>

confirmationTag(isk, sid, y, ad) == <<"CPaceMac", isk, sid, y, ad>>

initiatorConfirmationTag(tr, isk, sid) == confirmationTag(isk, sid, tr.ya, tr.ada)

responderConfirmationTagMutant(tr, isk, sid) == confirmationTag(isk, sid, tr.ya, tr.ada)
responderConfirmationTag(tr, isk, sid) == confirmationTag(isk, sid, tr.yb, tr.adb)
=============================================================================
