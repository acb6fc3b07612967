------------------------------ MODULE Exchange ------------------------------
(***************************************************************************)
(* The initiator-responder exchange (api.go, core.go) between runs of the  *)
(* two roles over an unreliable network.  A run is one call of Start or    *)
(* Respond and the value it returns; its scalar is its own name, which is  *)
(* what fresh randomness means here.                                       *)
(*                                                                         *)
(* Every public operation is one step: SingleUseState checks that Finish   *)
(* and Close on copies of a value behave as if each were atomic.           *)
(***************************************************************************)
EXTENDS CallerInput, CPaceCore

CONSTANTS Inits, Resps,      \* initiator and responder runs
          InitInputs,        \* Inputs that Start is called with
          RespInputs,        \* Inputs that Respond is called with
          Faults             \* what may go wrong around the package

ASSUME RunsAssumption == Inits \cap Resps = {} /\ Nil \notin Inits \cup Resps

(* "close": callers abandon runs.  "randomness": crypto/rand fails.        *)
(* "misdeliver": any message sent may reach any run as any message.        *)
(* "splice": so may any recombination of the fields of messages sent, a    *)
(* low-order share, a tag nobody computed, or bytes that do not decode.    *)
ASSUME FaultsAssumption == Faults \subseteq {"close", "randomness", "misdeliver", "splice"}

VARIABLES input,    \* input[x]: the Input of run x, Nil before its call
          stage,    \* "fresh", "refused" (constructor failed), "ready", "spent"
          core,     \* core[x]: *initiatorCore or *responderCore; Nil once cleared
          session,  \* session[x]: the *Session its Finish returned, or Nil
          result,   \* result[x]: what the last call on x reported
          net,      \* every message sent; delivery never removes one
          drawn,    \* history: the runs that have sampled their scalar
          derived   \* history, derived[r]: the ISK responder run r derived

vars == <<input, stage, core, session, result, net, drawn, derived>>

Runs == Inits \cup Resps

Init ==
  /\ input = [x \in Runs |-> Nil]
  /\ stage = [x \in Runs |-> "fresh"]
  /\ core = [x \in Runs |-> Nil]
  /\ session = [x \in Runs |-> Nil]
  /\ result = [x \in Runs |-> "none"]
  /\ net = {}
  /\ drawn = {}
  /\ derived = [r \in Resps |-> Nil]

Set(f, x, v) == [f EXCEPT ![x] = v]

---------------------------------------------------------------------------
(* Wire messages, already split into fields; decoding fails on the wrong   *)
(* role byte and on bytes that are no message at all.                      *)
MessageA(sid, ya, ada) == [role |-> "A", sid |-> sid, ya |-> ya, ada |-> ada]
MessageB(yb, adb, tag) == [role |-> "B", yb |-> yb, adb |-> adb, tag |-> tag]
MessageC(tag)          == [role |-> "C", tag |-> tag]
Malformed              == [role |-> "none"]

Sent(role) == {m \in net : m.role = role}

SeenShares == {m.ya : m \in Sent("A")} \cup {m.yb : m \in Sent("B")} \cup {LowOrder}
SeenADs    == {m.ada : m \in Sent("A")} \cup {m.adb : m \in Sent("B")}
SeenTags   == {m.tag : m \in Sent("B") \cup Sent("C")} \cup {Nil}
SeenSids   == {m.sid : m \in Sent("A")}

Spliced(role) ==
  {Malformed} \cup
  CASE role = "A" -> {MessageA(s, y, ad) : s \in SeenSids, y \in SeenShares, ad \in SeenADs}
    [] role = "B" -> {MessageB(y, ad, t) : y \in SeenShares, ad \in SeenADs, t \in SeenTags}
    [] role = "C" -> {MessageC(t) : t \in SeenTags}

(* What the network may hand to an operation that expects a message of     *)
(* this role.                                                              *)
Deliverable(role) ==
  (IF "misdeliver" \in Faults THEN net ELSE Sent(role)) \cup
  (IF "splice" \in Faults THEN Spliced(role) ELSE {})

---------------------------------------------------------------------------
(* A constructor fails: no state, no message.                              *)
Refuse(x, in, err) ==
  /\ input' = Set(input, x, in)
  /\ stage' = Set(stage, x, "refused")
  /\ result' = Set(result, x, err)
  /\ UNCHANGED <<core, session, net, derived>>

RandomnessFails(x, in) ==
  /\ "randomness" \in Faults
  /\ Refuse(x, in, "ErrRandomness")
  /\ UNCHANGED drawn

newInitiatorCoreMutant(i, nc) ==
  [scalar |-> Nil,
   sid    |-> nc.sid,
   ya     |-> scalarMult(Nil, calculateGenerator(nc.password, nc.ci, nc.sid)),
   ada    |-> nc.ad,
   peerID |-> nc.responderID]

newInitiatorCore(i, nc) ==
  [scalar |-> i,
   sid    |-> nc.sid,
   ya     |-> scalarMult(i, calculateGenerator(nc.password, nc.ci, nc.sid)),
   ada    |-> nc.ad,
   peerID |-> nc.responderID]

Start(i, in) ==
  /\ stage[i] = "fresh"
  /\ \/ acceptInput(in) # "ok" /\ Refuse(i, in, acceptInput(in)) /\ UNCHANGED drawn
     \/ acceptInput(in) = "ok" /\ RandomnessFails(i, in)
     \/ /\ acceptInput(in) = "ok"
        /\ LET c == newInitiatorCore(i, normalizeInput(in, "initiator"))
           IN  /\ core' = Set(core, i, c)
               /\ net' = net \cup {MessageA(c.sid, c.ya, c.ada)}
        /\ drawn' = drawn \cup {i}
        /\ input' = Set(input, i, in)
        /\ stage' = Set(stage, i, "ready")
        /\ result' = Set(result, i, "ok")
        /\ UNCHANGED <<session, derived>>

(* newResponderCore once Ya has been validated and the scalar sampled: the *)
(* core it keeps and the message B it sends.                               *)
newResponderCore(r, nc, ya, ada) ==
  LET yb  == scalarMult(r, calculateGenerator(nc.password, nc.ci, nc.sid))
      tr  == newIRTranscript(ya, ada, yb, nc.ad)
      isk == deriveISK(nc.sid, scalarMultVFY(r, ya), tr)
  IN  [core |-> [isk |-> isk, transcript |-> tr, sid |-> nc.sid, peerID |-> nc.initiatorID],
       msg  |-> MessageB(yb, nc.ad, responderConfirmationTag(tr, isk, nc.sid))]

(* The share is validated before any randomness is drawn, and its secret   *)
(* computed, and checked again, after.                                     *)
RespondToShare(r, in, m) ==
  LET nc == normalizeInput(in, "responder")
      c  == newResponderCore(r, nc, m.ya, m.ada)
  IN  \/ ~validatePublicShare(m.ya) /\ Refuse(r, in, "ErrAbort") /\ UNCHANGED drawn
      \/ validatePublicShare(m.ya) /\ RandomnessFails(r, in)
      \/ /\ validatePublicShare(m.ya)
         /\ drawn' = drawn \cup {r}
         /\ IF scalarMultVFY(r, m.ya) = Nil
            THEN Refuse(r, in, "ErrAbort")
            ELSE /\ core' = Set(core, r, c.core)
                 /\ derived' = Set(derived, r, c.core.isk)
                 /\ net' = net \cup {c.msg}
                 /\ input' = Set(input, r, in)
                 /\ stage' = Set(stage, r, "ready")
                 /\ result' = Set(result, r, "ok")
                 /\ UNCHANGED session

SidOKMutant(in, m) == TRUE
SidOK(in, m) == m.sid = in.SessionID

Respond(r, in, m) ==
  /\ stage[r] = "fresh"
  /\ \/ acceptInput(in) # "ok" /\ Refuse(r, in, acceptInput(in)) /\ UNCHANGED drawn
     \/ /\ acceptInput(in) = "ok"
        /\ m.role = "A" => ~SidOK(in, m)
        /\ Refuse(r, in, "ErrMessage")
        /\ UNCHANGED drawn
     \/ /\ acceptInput(in) = "ok"
        /\ m.role = "A" /\ SidOK(in, m)
        /\ RespondToShare(r, in, m)

---------------------------------------------------------------------------
(* Finish and Close on a run that has been spent already.                  *)
AlreadySpent(x, err) ==
  /\ stage[x] = "spent"
  /\ result' = Set(result, x, err)
  /\ UNCHANGED <<input, stage, core, session, net, drawn, derived>>

(* A terminal operation that won: the core is cleared on every way out.    *)
ConsumeMutant(x) ==
  IF result'[x] = "ErrMessage" THEN UNCHANGED <<stage, core>>
  ELSE stage' = Set(stage, x, "spent") /\ core' = Set(core, x, Nil)

Consume(x) == stage' = Set(stage, x, "spent") /\ core' = Set(core, x, Nil)

Spend(x, outcome) ==
  /\ stage[x] = "ready"
  /\ result' = Set(result, x, outcome)
  /\ Consume(x)
  /\ UNCHANGED <<input, drawn, derived>>

Fail(x, err) == Spend(x, err) /\ UNCHANGED <<session, net>>

newSession(isk, tid, peerAD, peerID) ==
  [isk |-> isk, transcriptID |-> tid, peerAD |-> peerAD, peerID |-> peerID]

InitiatorConfirm(i, m) ==
  LET c   == core[i]
      k   == scalarMultVFY(c.scalar, m.yb)
      tr  == newIRTranscript(c.ya, c.ada, m.yb, m.adb)
      isk == deriveISK(c.sid, k, tr)
      ok  == m.tag = responderConfirmationTag(tr, isk, c.sid)
  IN  \/ k = Nil /\ Fail(i, "ErrAbort")
      \/ k # Nil /\ ~ok /\ Fail(i, "ErrConfirmationFailed")
      \/ /\ k # Nil /\ ok
         /\ Spend(i, "ok")
         /\ session' = Set(session, i, newSession(isk, transcriptID(tr), m.adb, c.peerID))
         /\ net' = net \cup {MessageC(initiatorConfirmationTag(tr, isk, c.sid))}

InitiatorFinish(i, m) ==
  \/ AlreadySpent(i, "ErrStateUsed")
  \/ m.role # "B" /\ Fail(i, "ErrMessage")
  \/ stage[i] = "ready" /\ m.role = "B" /\ InitiatorConfirm(i, m)

TagCMatches(c, m) == m.tag = initiatorConfirmationTag(c.transcript, c.isk, c.sid)

ResponderConfirm(r, m) ==
  LET c == core[r]
      s == newSession(c.isk, transcriptID(c.transcript), c.transcript.ada, c.peerID)
  IN  \/ ~TagCMatches(c, m) /\ Fail(r, "ErrConfirmationFailed")
      \/ /\ TagCMatches(c, m)
         /\ Spend(r, "ok")
         /\ session' = Set(session, r, s)
         /\ UNCHANGED net

ResponderFinish(r, m) ==
  \/ AlreadySpent(r, "ErrStateUsed")
  \/ m.role # "C" /\ Fail(r, "ErrMessage")
  \/ stage[r] = "ready" /\ m.role = "C" /\ ResponderConfirm(r, m)

Close(x) ==
  /\ "close" \in Faults
  /\ AlreadySpent(x, "nil") \/ Fail(x, "nil")

---------------------------------------------------------------------------
StartSome(i)   == \E in \in InitInputs : Start(i, in)
RespondSome(r) == \E in \in RespInputs, m \in Deliverable("A") : Respond(r, in, m)
FinishI(i)     == \E m \in Deliverable("B") : InitiatorFinish(i, m)
FinishR(r)     == \E m \in Deliverable("C") : ResponderFinish(r, m)

Next ==
  \/ \E i \in Inits : StartSome(i) \/ FinishI(i) \/ Close(i)
  \/ \E r \in Resps : RespondSome(r) \/ FinishR(r) \/ Close(r)

Spec == Init /\ [][Next]_vars

(* Both applications drive the exchange forward, and messages arrive.      *)
FairSpec ==
  /\ Spec
  /\ \A i \in Inits : WF_vars(StartSome(i)) /\ WF_vars(FinishI(i))
  /\ \A r \in Resps : WF_vars(RespondSome(r)) /\ WF_vars(FinishR(r))

---------------------------------------------------------------------------
Stages  == {"fresh", "refused", "ready", "spent"}
Results == {"none", "ok", "nil", "ErrInvalidInput", "ErrEmptySessionID", "ErrRandomness",
            "ErrMessage", "ErrAbort", "ErrConfirmationFailed", "ErrStateUsed"}

(* The values that the inputs bring in, and the terms built from them.     *)
Inputs      == InitInputs \cup RespInputs
Values      == {in[f] : in \in Inputs, f \in FieldNames}
Generators  == Values \X (Values \X Values \X Values) \X Values
Points      == [gen : Generators \cup {Nil}, deg : Nat,
                scalars : SUBSET (Runs \cup {peerShareValidationScalar})]
Transcripts == [ya : Points, ada : Values, yb : Points, adb : Values]
ISKs        == {"CPace255_ISK"} \X Values \X Points \X Transcripts
Tags        == {"CPaceMac"} \X ISKs \X Values \X Points \X Values
Messages    == [role : {"A"}, sid : Values, ya : Points, ada : Values]
                 \cup [role : {"B"}, yb : Points, adb : Values, tag : Tags]
                 \cup [role : {"C"}, tag : Tags]
Cores       == [scalar : Inits, sid : Values, ya : Points, ada : Values, peerID : Values]
                 \cup [isk : ISKs, transcript : Transcripts, sid : Values, peerID : Values]
Sessions    == [isk : ISKs, transcriptID : {"CPaceSidOutput"} \X Transcripts,
                peerAD : Values, peerID : Values]

(* A Go nil is no generator, group element, key, tag, core or session.     *)
ASSUME NilAssumption ==
  /\ Nil \notin Generators /\ Nil \notin Points /\ Nil \notin ISKs /\ Nil \notin Tags
  /\ Nil \notin Cores /\ Nil \notin Sessions

(* The shape of the state: a run holds a core exactly while it is ready,   *)
(* and a session only if it got that far.                                  *)
TypeOK ==
  /\ input \in [Runs -> Inputs \cup {Nil}]
  /\ stage \in [Runs -> Stages]
  /\ core \in [Runs -> Cores \cup {Nil}]
  /\ session \in [Runs -> Sessions \cup {Nil}]
  /\ result \in [Runs -> Results]
  /\ net \subseteq Messages
  /\ drawn \subseteq Runs
  /\ derived \in [Resps -> ISKs \cup {Nil}]
  /\ \A x \in Runs : core[x] # Nil <=> stage[x] = "ready"
  /\ \A x \in Runs : session[x] # Nil => stage[x] = "spent"

Completed(x) == session[x] # Nil

(* What the two sides must supply identically, with identities crossed.    *)
Compatible(a, b) ==
  /\ a.Password = b.Password /\ a.Context = b.Context /\ a.SessionID = b.SessionID
  /\ a.SelfID = b.PeerID /\ a.PeerID = b.SelfID

(* Session x of run a reports run b's identity and associated data.        *)
Describes(a, b) ==
  /\ session[a].peerID = input[b].SelfID
  /\ session[a].peerAD = input[b].LocalAssociatedData

(* An initiator gets a session only if some responder run with compatible  *)
(* inputs derived the very same ISK, and the session names that run's      *)
(* identity and associated data: nothing the network reorders, replays,    *)
(* misroutes or recombines makes Initiator.Finish accept anything else.    *)
InitiatorAgreement ==
  \A i \in Inits : Completed(i) =>
    \E r \in Resps : /\ derived[r] = session[i].isk
                     /\ Compatible(input[i], input[r])
                     /\ Describes(i, r)

(* A responder gets a session only if some initiator run already holds a   *)
(* session with the same ISK and the same transcript id, and each session  *)
(* describes the other side.                                               *)
ResponderAgreement ==
  \A r \in Resps : Completed(r) =>
    \E i \in Inits : /\ Completed(i)
                     /\ session[i].isk = session[r].isk
                     /\ session[i].transcriptID = session[r].transcriptID
                     /\ Compatible(input[i], input[r])
                     /\ Describes(i, r) /\ Describes(r, i)

(* The agreement of both roles.                                            *)
Agreement == InitiatorAgreement /\ ResponderAgreement

(* An ISK is shared by at most one initiator session and one responder     *)
(* session: replayed messages never confirm a second run.                  *)
SessionsPairUp ==
  \A x, y \in Runs :
    /\ x # y /\ Completed(x) /\ Completed(y) /\ session[x].isk = session[y].isk
    => (x \in Inits <=> y \in Resps)

(* A scalar that has been sampled is used: Respond rejects a bad share     *)
(* before it draws randomness, and nothing after that can fail.            *)
NoScalarWasted == \A x \in drawn : stage[x] \in {"ready", "spent"}

(* A run is decided once: after a Finish that failed, with whatever error, *)
(* after a Close and after success, no delivery brings a session about or  *)
(* changes the one there is, and no secret comes back.                     *)
Decided(x) == Completed(x) \/ result[x] \notin {"none", "ok"}

DecidedOnce ==
  [][\A x \in Runs : Decided(x) =>
        Decided(x)' /\ session'[x] = session[x] /\ core'[x] = Nil]_vars

(* Without interference, an exchange between one initiator and one         *)
(* responder fails only for cause: Respond rejects message A only if the   *)
(* session ids differ, and confirmation fails only if some other shared    *)
(* input does (docs/integration-guidance.md:22).                           *)
FailsOnlyForCause ==
  \A i \in Inits, r \in Resps :
    /\ result[r] = "ErrMessage" => input[i].SessionID # input[r].SessionID
    /\ result[i] = "ErrConfirmationFailed" \/ result[r] = "ErrConfirmationFailed" =>
         /\ ~Compatible(input[i], input[r])
         /\ input[i].SessionID = input[r].SessionID

(* Driven to the end without faults, two runs that accepted compatible     *)
(* inputs both get a session with one ISK.                                 *)
EventuallyConfirmed ==
  \A i \in Inits, r \in Resps :
    (/\ stage[i] = "ready" /\ input[r] # Nil /\ acceptInput(input[r]) = "ok"
     /\ Compatible(input[i], input[r]))
    ~> (Completed(i) /\ Completed(r) /\ session[i].isk = session[r].isk)

(* doc.go:8: "A session is returned only after both sides have confirmed   *)
(* possession of the same intermediate session key."  An initiator's       *)
(* session would then imply that the responder has confirmed it too.       *)
SessionOnlyAfterBothConfirmed ==
  \A i \in Inits : Completed(i) =>
    \E r \in Resps : Completed(r) /\ session[r].isk = session[i].isk
=============================================================================
