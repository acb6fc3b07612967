--------------------------- MODULE ExchangeProofs ---------------------------
(***************************************************************************)
(* Proofs about Exchange for any number of runs, any inputs and any        *)
(* faults.  Agreement is not inductive: why an accepted tag came from the  *)
(* right run depends on what every message sent, every ISK derived and     *)
(* every session granted so far was computed from, which is what Inv says. *)
(***************************************************************************)
EXTENDS Exchange, TLAPS

(* The generator, the share and the Diffie-Hellman secret of run x under   *)
(* its input.                                                              *)
RoleOf(x) == IF x \in Inits THEN "initiator" ELSE "responder"

Gen(x, in) ==
  LET nc == normalizeInput(in, RoleOf(x)) IN <<nc.password, nc.ci, nc.sid>>

Share(x, in) == Point(Gen(x, in), 1, {x})

Secret(x, y, in) == Point(Gen(y, in), 2, {x, y})

Active(x) == stage[x] \in {"ready", "spent"}

(* The transcript of initiator i confirming the share of run y, and that   *)
(* of responder r answering it.                                            *)
TranscriptI(i, y, adb) ==
  newIRTranscript(Share(i, input[i]), input[i].LocalAssociatedData, Share(y, input[y]), adb)
TranscriptR(r, y, ada) ==
  newIRTranscript(Share(y, input[y]), ada, Share(r, input[r]), input[r].LocalAssociatedData)

(* The ISK run x derives from run y's share over a transcript.             *)
DerivedISK(x, y, tr) == deriveISK(input[x].SessionID, Secret(x, y, input[y]), tr)

(* The tag by which a run confirms an ISK.                                 *)
TagOf(x, isk) ==
  confirmationTag(isk, input[x].SessionID, Share(x, input[x]), input[x].LocalAssociatedData)

---------------------------------------------------------------------------
(* Where a run stands, by its stage; a scalar has been drawn only by a run *)
(* that got its state.                                                     *)
StageInv ==
  \A x \in Runs :
    /\ stage[x] = "fresh" => result[x] = "none"
    /\ stage[x] = "ready" => result[x] = "ok"
    /\ stage[x] # "fresh" => input[x] \in Inputs /\ result[x] # "none"
    /\ x \in drawn => Active(x)
    /\ x \in Resps /\ ~Active(x) => derived[x] = Nil

(* What a ready initiator holds is what newInitiatorCore made of its       *)
(* input.                                                                  *)
CoreInv ==
  \A i \in Inits : stage[i] = "ready" =>
    core[i] = newInitiatorCore(i, normalizeInput(input[i], "initiator"))

(* A responder's ISK was derived from the share of another run that had    *)
(* one, and its core, while it lasts, holds that ISK and the transcript.   *)
(* Without splicing, share, associated data and session id came in one     *)
(* message of an initiator.                                                *)
DerivedInv ==
  \A r \in Resps : Active(r) =>
    \E y \in Runs, ada \in Values :
      /\ y # r /\ Active(y)
      /\ derived[r] = DerivedISK(r, y, TranscriptR(r, y, ada))
      /\ stage[r] = "ready" =>
           core[r] = [isk |-> derived[r], transcript |-> TranscriptR(r, y, ada),
                      sid |-> input[r].SessionID, peerID |-> input[r].PeerID]
      /\ "splice" \notin Faults =>
           /\ y \in Inits /\ ada = input[y].LocalAssociatedData
           /\ input[y].SessionID = input[r].SessionID

(* Every message was sent by a run that got so far, and carries that run's *)
(* own session id, share, associated data and tag.                         *)
SentByI(m) ==
  \E i \in Inits :
    /\ Active(i)
    /\ m = MessageA(input[i].SessionID, Share(i, input[i]), input[i].LocalAssociatedData)

SentByR(m) ==
  \E r \in Resps :
    /\ Active(r)
    /\ m = MessageB(Share(r, input[r]), input[r].LocalAssociatedData, TagOf(r, derived[r]))

ConfirmedByI(m) ==
  \E i \in Inits : Completed(i) /\ m = MessageC(TagOf(i, session[i].isk))

NetInv == \A m \in net : SentByI(m) \/ SentByR(m) \/ ConfirmedByI(m)

(* An initiator's session is bound to its own share and associated data;   *)
(* a responder's to the ISK it derived.                                    *)
SessionInv ==
  /\ \A i \in Inits : Completed(i) =>
       \E y \in Runs, adb \in Values :
         /\ Active(y)
         /\ session[i].isk = DerivedISK(i, y, TranscriptI(i, y, adb))
         /\ session[i].transcriptID = transcriptID(TranscriptI(i, y, adb))
  /\ \A r \in Resps : Completed(r) => session[r].isk = derived[r]

Inv ==
  /\ TypeOK /\ StageInv /\ CoreInv /\ DerivedInv /\ NetInv /\ SessionInv
  /\ InitiatorAgreement /\ ResponderAgreement

---------------------------------------------------------------------------
(* What a term was computed from can be read off it: equal terms were      *)
(* computed from equal things.                                             *)
LEMMA TermFields ==
  /\ \A s, k, t : /\ deriveISK(s, k, t)[2] = s /\ deriveISK(s, k, t)[3] = k
                  /\ deriveISK(s, k, t)[4] = t
  /\ \A a, b, c, d : /\ newIRTranscript(a, b, c, d).ya = a
                     /\ newIRTranscript(a, b, c, d).ada = b
                     /\ newIRTranscript(a, b, c, d).yb = c
                     /\ newIRTranscript(a, b, c, d).adb = d
  /\ \A a, b, c, d : /\ confirmationTag(a, b, c, d)[2] = a
                     /\ confirmationTag(a, b, c, d)[3] = b
                     /\ confirmationTag(a, b, c, d)[4] = c
                     /\ confirmationTag(a, b, c, d)[5] = d
  /\ \A g, n, s : /\ Point(g, n, s).gen = g /\ Point(g, n, s).deg = n
                  /\ Point(g, n, s).scalars = s
BY DEF deriveISK, newIRTranscript, confirmationTag, Point

(* A share names the run whose scalar it is made with.                     *)
LEMMA ShareInjective ==
  ASSUME NEW x, NEW y, NEW a, NEW b, Share(x, a) = Share(y, b)
  PROVE  x = y
<1>1. {x} = {y}
  BY TermFields DEF Share
<1> QED
  BY <1>1

(* The fields of an accepted input are values.                             *)
LEMMA InputFields ==
  ASSUME NEW in \in Inputs
  PROVE  /\ in.Password \in Values /\ in.SelfID \in Values /\ in.PeerID \in Values
         /\ in.Context \in Values /\ in.SessionID \in Values
         /\ in.LocalAssociatedData \in Values
BY DEF Values, FieldNames

(* What normalizeInput makes of an input, by role.                         *)
LEMMA Normalized ==
  ASSUME NEW x \in Runs, NEW in
  PROVE  LET nc == normalizeInput(in, RoleOf(x))
         IN  /\ nc.password = in.Password /\ nc.sid = in.SessionID
             /\ nc.ad = in.LocalAssociatedData
             /\ x \in Inits => /\ nc.ci = <<in.SelfID, in.PeerID, in.Context>>
                               /\ nc.responderID = in.PeerID
                               /\ RoleOf(x) = "initiator"
             /\ x \in Resps => /\ nc.ci = <<in.PeerID, in.SelfID, in.Context>>
                               /\ nc.initiatorID = in.PeerID
                               /\ RoleOf(x) = "responder"
<1>1. x \in Resps => x \notin Inits
  BY RunsAssumption
<1> QED
  BY <1>1 DEF normalizeInput, mapTranscriptIDs, buildCI, RoleOf

(* A generator is one, for whatever run and input.                         *)
LEMMA GenType ==
  ASSUME NEW x \in Runs, NEW in \in Inputs
  PROVE  Gen(x, in) \in Generators /\ Gen(x, in) # Nil
<1>1. x \in Inits \/ x \in Resps
  BY DEF Runs
<1> DEFINE nc == normalizeInput(in, RoleOf(x))
<1>2. nc.password \in Values /\ nc.sid \in Values
  BY InputFields, Normalized
<1>3. \/ nc.ci = <<in.SelfID, in.PeerID, in.Context>>
      \/ nc.ci = <<in.PeerID, in.SelfID, in.Context>>
  BY <1>1, Normalized
<1>4. Gen(x, in) = <<nc.password, nc.ci, nc.sid>>
  BY DEF Gen
<1> HIDE DEF nc
<1>5. nc.ci \in Values \X Values \X Values
  <2>1. \A a, b, c \in Values : <<a, b, c>> \in Values \X Values \X Values
    OBVIOUS
  <2>2. /\ in.SelfID \in Values /\ in.PeerID \in Values /\ in.Context \in Values
    BY InputFields
  <2> QED
    BY <1>3, <2>1, <2>2
<1>6. Gen(x, in) \in Generators
  BY <1>2, <1>4, <1>5 DEF Generators
<1> QED
  BY <1>6, NilAssumption

(* A share is a group element and not the neutral one; multiplied by       *)
(* another scalar it is the secret, which no check takes for neutral.      *)
LEMMA ShareType ==
  ASSUME NEW x \in Runs, NEW in \in Inputs
  PROVE  /\ Share(x, in) \in Points
         /\ Share(x, in) # LowOrder
         /\ scalarMult(x, calculateGenerator(normalizeInput(in, RoleOf(x)).password,
                                             normalizeInput(in, RoleOf(x)).ci,
                                             normalizeInput(in, RoleOf(x)).sid))
              = Share(x, in)
<1>1. Gen(x, in) \in Generators /\ Gen(x, in) # Nil
  BY GenType
<1>2. Share(x, in) \in Points
  <2>1. {x} \in SUBSET (Runs \cup {peerShareValidationScalar})
    OBVIOUS
  <2> QED
    BY <1>1, <2>1 DEF Share, Point, Points
<1>3. Share(x, in) # LowOrder
  BY TermFields, <1>1 DEF Share, LowOrder
<1>4. scalarMult(x, Point(Gen(x, in), 0, {})) = Share(x, in)
  <2>1. {} \cup {x} = {x}
    OBVIOUS
  <2>2. 0 + 1 = 1
    OBVIOUS
  <2>3. /\ Point(Gen(x, in), 0, {}).gen = Gen(x, in) /\ Point(Gen(x, in), 0, {}).deg = 0
        /\ Point(Gen(x, in), 0, {}).scalars = {}
    BY DEF Point
  <2> QED
    BY <1>1, <2>1, <2>2, <2>3 DEF Share, scalarMult
<1> QED
  BY <1>2, <1>3, <1>4 DEF Gen, calculateGenerator

LEMMA SecretOfShare ==
  ASSUME NEW x \in Runs, NEW y \in Runs, NEW in \in Inputs
  PROVE  /\ Secret(x, y, in) \in Points
         /\ Secret(x, y, in) # Nil
         /\ scalarMultVFY(x, Share(y, in)) = Secret(x, y, in)
<1>1. Gen(y, in) \in Generators /\ Gen(y, in) # Nil
  BY GenType
<1>2. Secret(x, y, in) \in Points
  <2>1. {x, y} \in SUBSET (Runs \cup {peerShareValidationScalar})
    OBVIOUS
  <2> QED
    BY <1>1, <2>1 DEF Secret, Point, Points
<1>3. scalarMult(x, Share(y, in)) = Secret(x, y, in)
  <2>1. {y} \cup {x} = {x, y}
    OBVIOUS
  <2>2. 1 + 1 = 2
    OBVIOUS
  <2>3. /\ Share(y, in).gen = Gen(y, in) /\ Share(y, in).deg = 1
        /\ Share(y, in).scalars = {y}
    BY DEF Point, Share
  <2> QED
    BY <1>1, <2>1, <2>2, <2>3 DEF Secret, scalarMult
<1>4. Secret(x, y, in) # Identity
  BY TermFields, <1>1 DEF Secret, Identity, LowOrder
<1> QED
  BY <1>2, <1>3, <1>4, NilAssumption DEF scalarMultVFY

(* Only the neutral element is refused, by whichever scalar.               *)
LEMMA LowOrderRefused ==
  \A s : scalarMultVFY(s, LowOrder) = Nil
<1>1. LowOrder.gen = Nil
  BY DEF LowOrder, Point
<1> QED
  BY <1>1 DEF scalarMultVFY, scalarMult

---------------------------------------------------------------------------
(* What can arrive.                                                        *)
LEMMA MessageFields ==
  /\ \A s, y, ad : /\ MessageA(s, y, ad).role = "A" /\ MessageA(s, y, ad).sid = s
                   /\ MessageA(s, y, ad).ya = y /\ MessageA(s, y, ad).ada = ad
  /\ \A y, ad, t : /\ MessageB(y, ad, t).role = "B" /\ MessageB(y, ad, t).yb = y
                   /\ MessageB(y, ad, t).adb = ad /\ MessageB(y, ad, t).tag = t
  /\ \A t : MessageC(t).role = "C" /\ MessageC(t).tag = t
  /\ Malformed.role = "none"
BY DEF MessageA, MessageB, MessageC, Malformed

(* Whatever the network does, the fields of a message that decodes have    *)
(* been seen; without splicing the message has been sent as it is.         *)
LEMMA Delivered ==
  ASSUME NEW m
  PROVE  /\ m \in Deliverable("A") /\ m.role = "A" =>
              /\ m.ya \in SeenShares /\ m.ada \in SeenADs
              /\ "splice" \notin Faults => m \in net
         /\ m \in Deliverable("B") /\ m.role = "B" =>
              /\ m.yb \in SeenShares /\ m.adb \in SeenADs /\ m.tag \in SeenTags
              /\ "splice" \notin Faults => m \in net
         /\ m \in Deliverable("C") /\ m.role = "C" =>
              /\ m.tag \in SeenTags
              /\ "splice" \notin Faults => m \in net
<1>1. ASSUME NEW r \in {"A", "B", "C"}, m \in Deliverable(r), m.role = r
      PROVE  \/ m \in net
             \/ "splice" \in Faults /\ m \in Spliced(r)
  BY <1>1 DEF Deliverable, Sent
<1>2. m \in Spliced("A") /\ m.role = "A" => m.ya \in SeenShares /\ m.ada \in SeenADs
  BY MessageFields DEF Spliced
<1>3. m \in Spliced("B") /\ m.role = "B" =>
        m.yb \in SeenShares /\ m.adb \in SeenADs /\ m.tag \in SeenTags
  BY MessageFields DEF Spliced
<1>4. m \in Spliced("C") /\ m.role = "C" => m.tag \in SeenTags
  BY MessageFields DEF Spliced
<1>5. m \in net =>
        /\ m.role = "A" => m.ya \in SeenShares /\ m.ada \in SeenADs
        /\ m.role = "B" => m.yb \in SeenShares /\ m.adb \in SeenADs /\ m.tag \in SeenTags
        /\ m.role = "C" => m.tag \in SeenTags
  BY DEF SeenShares, SeenADs, SeenTags, Sent
<1> QED
  BY <1>1, <1>2, <1>3, <1>4, <1>5

(* Where shares, associated data and tags that have been seen came from.   *)
LEMMA SeenFrom ==
  ASSUME TypeOK, StageInv, NetInv
  PROVE  /\ \A p \in SeenShares \ {LowOrder} :
              \E y \in Runs : Active(y) /\ p = Share(y, input[y])
         /\ \A ad \in SeenADs : ad \in Values
         /\ \A t \in SeenTags \ {Nil} :
              \/ \E r \in Resps : Active(r) /\ t = TagOf(r, derived[r])
              \/ \E i \in Inits : Completed(i) /\ t = TagOf(i, session[i].isk)
<1>1. \A m \in Sent("A") : SentByI(m)
  BY MessageFields DEF NetInv, SentByR, ConfirmedByI, Sent
<1>2. \A m \in Sent("B") : SentByR(m)
  BY MessageFields DEF NetInv, SentByI, ConfirmedByI, Sent
<1>3. \A m \in Sent("C") : ConfirmedByI(m)
  BY MessageFields DEF NetInv, SentByI, SentByR, Sent
<1>4. \A p \in SeenShares \ {LowOrder} :
        \E y \in Runs : Active(y) /\ p = Share(y, input[y])
  <2>1. \A m \in Sent("A") : \E y \in Runs : Active(y) /\ m.ya = Share(y, input[y])
    BY <1>1, MessageFields DEF SentByI, Runs
  <2>2. \A m \in Sent("B") : \E y \in Runs : Active(y) /\ m.yb = Share(y, input[y])
    BY <1>2, MessageFields DEF SentByR, Runs
  <2> QED
    BY <2>1, <2>2 DEF SeenShares
<1>5. \A ad \in SeenADs : ad \in Values
  <2>1. \A y \in Runs : Active(y) => input[y].LocalAssociatedData \in Values
    BY InputFields DEF StageInv, Active
  <2>2. \A m \in Sent("A") : m.ada \in Values
    BY <1>1, <2>1, MessageFields DEF SentByI, Runs
  <2>3. \A m \in Sent("B") : m.adb \in Values
    BY <1>2, <2>1, MessageFields DEF SentByR, Runs
  <2> QED
    BY <2>2, <2>3 DEF SeenADs
<1>6. \A t \in SeenTags \ {Nil} :
        \/ \E r \in Resps : Active(r) /\ t = TagOf(r, derived[r])
        \/ \E i \in Inits : Completed(i) /\ t = TagOf(i, session[i].isk)
  <2>1. \A m \in Sent("B") : \E r \in Resps : Active(r) /\ m.tag = TagOf(r, derived[r])
    BY <1>2, MessageFields DEF SentByR
  <2>2. \A m \in Sent("C") : \E i \in Inits : Completed(i) /\ m.tag = TagOf(i, session[i].isk)
    BY <1>3, MessageFields DEF ConfirmedByI
  <2> QED
    BY <2>1, <2>2 DEF SeenTags
<1> QED
  BY <1>4, <1>5, <1>6

---------------------------------------------------------------------------
(* What a step amounts to, once the messages and the terms in it have been *)
(* traced back to the runs they came from.                                 *)
Errors == Results \ {"none", "ok"}

Refused(x) ==
  /\ stage[x] = "fresh"
  /\ \E in \in Inputs, err \in Errors : Refuse(x, in, err)
  /\ UNCHANGED drawn

Begins(x, in, c, m) ==
  /\ stage[x] = "fresh"
  /\ core' = Set(core, x, c)
  /\ net' = net \cup {m}
  /\ drawn' = drawn \cup {x}
  /\ input' = Set(input, x, in)
  /\ stage' = Set(stage, x, "ready")
  /\ result' = Set(result, x, "ok")
  /\ UNCHANGED session

Started(i) ==
  \E in \in InitInputs :
    /\ Begins(i, in, newInitiatorCore(i, normalizeInput(in, "initiator")),
              MessageA(in.SessionID, Share(i, in), in.LocalAssociatedData))
    /\ UNCHANGED derived

Responded(r) ==
  \E in \in RespInputs, y \in Runs, ada \in Values :
    LET tr  == newIRTranscript(Share(y, input[y]), ada, Share(r, in), in.LocalAssociatedData)
        isk == deriveISK(in.SessionID, Secret(r, y, input[y]), tr)
    IN  /\ Active(y)
        /\ "splice" \notin Faults =>
             /\ y \in Inits /\ ada = input[y].LocalAssociatedData
             /\ input[y].SessionID = in.SessionID
        /\ Begins(r, in, [isk |-> isk, transcript |-> tr, sid |-> in.SessionID,
                          peerID |-> in.PeerID],
                  MessageB(Share(r, in), in.LocalAssociatedData,
                           confirmationTag(isk, in.SessionID, Share(r, in),
                                           in.LocalAssociatedData)))
        /\ derived' = Set(derived, r, isk)

Used(x) == \E err \in Errors : AlreadySpent(x, err)

Failed(x) == \E err \in Errors : Fail(x, err)

InitiatorAccepts(i) ==
  \E r \in Resps :
    LET adb == input[r].LocalAssociatedData
        tr  == TranscriptI(i, r, adb)
        isk == DerivedISK(i, r, tr)
    IN  /\ Active(r) /\ derived[r] = isk /\ Compatible(input[i], input[r])
        /\ Spend(i, "ok")
        /\ session' = Set(session, i, newSession(isk, transcriptID(tr), adb, input[r].SelfID))
        /\ net' = net \cup {MessageC(TagOf(i, isk))}

ResponderAccepts(r) ==
  \E i \in Inits :
    /\ Completed(i) /\ session[i].isk = derived[r]
    /\ Compatible(input[i], input[r]) /\ Describes(i, r)
    /\ Spend(r, "ok")
    /\ session' = Set(session, r, newSession(derived[r], session[i].transcriptID,
                                             input[i].LocalAssociatedData, input[i].SelfID))
    /\ UNCHANGED net

Effect ==
  \/ \E x \in Runs : Refused(x) \/ Used(x) \/ Failed(x)
  \/ \E i \in Inits : Started(i) \/ InitiatorAccepts(i)
  \/ \E r \in Resps : Responded(r) \/ ResponderAccepts(r)

(* Every verdict on an input is an error or ok.                            *)
LEMMA Verdicts == \A in : acceptInput(in) = "ok" \/ acceptInput(in) \in Errors
BY DEF acceptInput, Errors, Results

(* Start refuses the input, runs out of randomness, or starts.             *)
LEMMA StartEffect ==
  ASSUME NEW i \in Inits, StartSome(i)
  PROVE  Refused(i) \/ Started(i)
<1> PICK in \in InitInputs : Start(i, in)
  BY DEF StartSome
<1>1. in \in Inputs /\ i \in Runs
  BY DEF Inputs, Runs
<1>2. CASE acceptInput(in) # "ok" /\ Refuse(i, in, acceptInput(in)) /\ UNCHANGED drawn
  BY <1>1, <1>2, Verdicts DEF Refused, Start
<1>3. CASE RandomnessFails(i, in)
  BY <1>1, <1>3 DEF Refused, Start, RandomnessFails, Errors, Results
<1> DEFINE c == newInitiatorCore(i, normalizeInput(in, "initiator"))
<1>4. CASE /\ core' = Set(core, i, c)
           /\ net' = net \cup {MessageA(c.sid, c.ya, c.ada)}
           /\ drawn' = drawn \cup {i}
           /\ input' = Set(input, i, in)
           /\ stage' = Set(stage, i, "ready")
           /\ result' = Set(result, i, "ok")
           /\ UNCHANGED <<session, derived>>
  <2>1. c.sid = in.SessionID /\ c.ya = Share(i, in) /\ c.ada = in.LocalAssociatedData
    BY <1>1, Normalized, ShareType DEF newInitiatorCore
  <2> HIDE DEF c
  <2>2. Begins(i, in, c, MessageA(in.SessionID, Share(i, in), in.LocalAssociatedData))
    BY <1>4, <2>1 DEF Begins, Start
  <2> QED
    BY <1>4, <2>2 DEF Started, c
<1> QED
  BY <1>2, <1>3, <1>4 DEF Start

(* Respond answers only a share that some other run sent, and never fails  *)
(* once it has drawn its scalar.                                           *)
LEMMA RespondEffect ==
  ASSUME TypeOK, StageInv, NetInv, NEW r \in Resps, RespondSome(r)
  PROVE  Refused(r) \/ Responded(r)
<1> PICK in \in RespInputs, m \in Deliverable("A") : Respond(r, in, m)
  BY DEF RespondSome
<1>1. in \in Inputs /\ r \in Runs /\ stage[r] = "fresh"
  BY DEF Inputs, Runs, Respond
<1>2. CASE acceptInput(in) # "ok" /\ Refuse(r, in, acceptInput(in)) /\ UNCHANGED drawn
  BY <1>1, <1>2, Verdicts DEF Refused
<1>3. CASE Refuse(r, in, "ErrMessage") /\ UNCHANGED drawn
  BY <1>1, <1>3 DEF Refused, Errors, Results
<1>4. CASE m.role = "A" /\ SidOK(in, m) /\ RespondToShare(r, in, m)
  <2> DEFINE nc == normalizeInput(in, "responder")
             c  == newResponderCore(r, nc, m.ya, m.ada)
  <2>1. CASE ~validatePublicShare(m.ya) /\ Refuse(r, in, "ErrAbort") /\ UNCHANGED drawn
    BY <1>1, <2>1 DEF Refused, Errors, Results
  <2>2. CASE RandomnessFails(r, in)
    BY <1>1, <2>2 DEF Refused, RandomnessFails, Errors, Results
  <2>3. CASE /\ validatePublicShare(m.ya)
             /\ drawn' = drawn \cup {r}
             /\ IF scalarMultVFY(r, m.ya) = Nil
                THEN Refuse(r, in, "ErrAbort")
                ELSE /\ core' = Set(core, r, c.core)
                     /\ derived' = Set(derived, r, c.core.isk)
                     /\ net' = net \cup {c.msg}
                     /\ input' = Set(input, r, in)
                     /\ stage' = Set(stage, r, "ready")
                     /\ result' = Set(result, r, "ok")
                     /\ UNCHANGED session
    <3>1. m.ya \in SeenShares \ {LowOrder} /\ m.ada \in SeenADs
      BY <1>4, <2>3, Delivered, LowOrderRefused DEF validatePublicShare
    <3>2. m.ada \in Values
      BY <3>1, SeenFrom
    <3>3. PICK y \in Runs :
            /\ Active(y) /\ m.ya = Share(y, input[y])
            /\ "splice" \notin Faults =>
                 /\ y \in Inits /\ m.ada = input[y].LocalAssociatedData
                 /\ input[y].SessionID = in.SessionID
      <4>1. CASE "splice" \in Faults
        BY <3>1, <4>1, SeenFrom
      <4>2. CASE "splice" \notin Faults
        <5>1. m \in net
          BY <1>4, <4>2, Delivered
        <5>2. SentByI(m)
          BY <5>1, <1>4, MessageFields DEF NetInv, SentByR, ConfirmedByI
        <5> QED
          BY <5>2, <1>4, MessageFields DEF SentByI, SidOK, Runs
      <4> QED
        BY <4>1, <4>2
    <3>4. input[y] \in Inputs
      BY <3>3 DEF Active, StageInv
    <3>5. /\ scalarMultVFY(r, m.ya) = Secret(r, y, input[y])
          /\ scalarMultVFY(r, m.ya) # Nil
      BY <1>1, <3>3, <3>4, SecretOfShare
    <3> DEFINE tr  == newIRTranscript(Share(y, input[y]), m.ada, Share(r, in),
                                      in.LocalAssociatedData)
               isk == deriveISK(in.SessionID, Secret(r, y, input[y]), tr)
               cc  == [isk |-> isk, transcript |-> tr, sid |-> in.SessionID,
                       peerID |-> in.PeerID]
               mm  == MessageB(Share(r, in), in.LocalAssociatedData,
                               confirmationTag(isk, in.SessionID, Share(r, in),
                                               in.LocalAssociatedData))
    <3>6. /\ scalarMult(r, calculateGenerator(nc.password, nc.ci, nc.sid)) = Share(r, in)
          /\ nc.sid = in.SessionID /\ nc.ad = in.LocalAssociatedData
          /\ nc.initiatorID = in.PeerID
      BY <1>1, Normalized, ShareType, ZenonT(60)
    <3>7. tr.yb = Share(r, in) /\ tr.adb = in.LocalAssociatedData
      BY DEF newIRTranscript
    <3>8. c.core = cc /\ c.core.isk = isk /\ c.msg = mm
      <4> HIDE DEF nc
      <4>1. c = [core |-> cc, msg |-> MessageB(Share(r, in), in.LocalAssociatedData,
                                        responderConfirmationTag(tr, isk, in.SessionID))]
        BY <3>3, <3>5, <3>6 DEF newResponderCore
      <4>2. responderConfirmationTag(tr, isk, in.SessionID)
              = confirmationTag(isk, in.SessionID, Share(r, in), in.LocalAssociatedData)
        BY <3>7 DEF responderConfirmationTag
      <4> HIDE DEF tr, isk
      <4> QED
        BY <4>1, <4>2
    <3>9. Begins(r, in, cc, mm) /\ derived' = Set(derived, r, isk)
      <4> HIDE DEF c, cc, mm, isk
      <4> QED
        BY <1>1, <2>3, <3>5, <3>8 DEF Begins
    <3>10. Responded(r)
      BY <3>2, <3>3, <3>9 DEF Responded
    <3> QED
      BY <3>10
  <2> QED
    BY <1>4, <2>1, <2>2, <2>3 DEF RespondToShare
<1> QED
  BY <1>2, <1>3, <1>4 DEF Respond

(* An initiator accepts only the tag of a responder run that derived its   *)
(* ISK from compatible inputs: an initiator's own tag would bind another   *)
(* initiator's share.                                                      *)
LEMMA InitiatorEffect ==
  ASSUME TypeOK, StageInv, CoreInv, DerivedInv, NetInv, SessionInv,
         NEW i \in Inits, FinishI(i)
  PROVE  Used(i) \/ Failed(i) \/ InitiatorAccepts(i)
<1> PICK m \in Deliverable("B") : InitiatorFinish(i, m)
  BY DEF FinishI
<1>1. CASE AlreadySpent(i, "ErrStateUsed")
  BY <1>1 DEF Used, Errors, Results
<1>2. CASE Fail(i, "ErrMessage")
  BY <1>2 DEF Failed, Errors, Results
<1>3. CASE stage[i] = "ready" /\ m.role = "B" /\ InitiatorConfirm(i, m)
  <2> DEFINE c   == core[i]
             k   == scalarMultVFY(c.scalar, m.yb)
             tr  == newIRTranscript(c.ya, c.ada, m.yb, m.adb)
             isk == deriveISK(c.sid, k, tr)
  <2>1. CASE Fail(i, "ErrAbort")
    BY <2>1 DEF Failed, Errors, Results
  <2>2. CASE Fail(i, "ErrConfirmationFailed")
    BY <2>2 DEF Failed, Errors, Results
  <2>3. CASE /\ k # Nil /\ m.tag = responderConfirmationTag(tr, isk, c.sid)
             /\ Spend(i, "ok")
             /\ session' = Set(session, i, newSession(isk, transcriptID(tr), m.adb, c.peerID))
             /\ net' = net \cup {MessageC(initiatorConfirmationTag(tr, isk, c.sid))}
    <3>1. i \in Runs /\ input[i] \in Inputs
      BY <1>3 DEF Runs, StageInv
    <3>2. /\ c.scalar = i /\ c.sid = input[i].SessionID /\ c.ya = Share(i, input[i])
          /\ c.ada = input[i].LocalAssociatedData /\ c.peerID = input[i].PeerID
      <4>1. c = newInitiatorCore(i, normalizeInput(input[i], "initiator"))
        BY <1>3 DEF CoreInv
      <4> HIDE DEF c
      <4> QED
        BY <3>1, <4>1, Normalized, ShareType DEF newInitiatorCore
    <3>3. m.yb \in SeenShares \ {LowOrder} /\ m.adb \in Values /\ m.tag \in SeenTags
      BY <1>3, <2>3, Delivered, LowOrderRefused, SeenFrom
    <3>4. PICK y \in Runs : Active(y) /\ m.yb = Share(y, input[y])
      BY <3>3, SeenFrom
    <3>5. input[y] \in Inputs
      BY <3>4 DEF Active, StageInv
    <3>6. k = Secret(i, y, input[y])
      BY <3>1, <3>2, <3>4, <3>5, SecretOfShare
    <3>7. tr = TranscriptI(i, y, m.adb) /\ isk = DerivedISK(i, y, tr)
      BY <3>2, <3>4, <3>6 DEF TranscriptI, DerivedISK
    <3>8. m.tag = confirmationTag(isk, input[i].SessionID, Share(y, input[y]), m.adb)
      <4>1. tr.yb = m.yb /\ tr.adb = m.adb
        BY DEF newIRTranscript
      <4> QED
        BY <2>3, <3>2, <3>4, <4>1 DEF responderConfirmationTag
    <3>9. initiatorConfirmationTag(tr, isk, c.sid) = TagOf(i, isk)
      <4>1. tr.ya = Share(i, input[i]) /\ tr.ada = input[i].LocalAssociatedData
        BY <3>2 DEF newIRTranscript
      <4> QED
        BY <3>2, <4>1 DEF initiatorConfirmationTag, TagOf
    <3> HIDE DEF isk, tr, k, c
    <3>10. m.tag # Nil
      <4>1. Share(i, input[i]) \in Points /\ Share(y, input[y]) \in Points
        BY <3>1, <3>5, ShareType
      <4>2. input[i].SessionID \in Values /\ input[i].LocalAssociatedData \in Values
        BY <3>1, InputFields
      <4>3. tr \in Transcripts
        BY <3>3, <3>7, <4>1, <4>2 DEF TranscriptI, newIRTranscript, Transcripts
      <4>4. Secret(i, y, input[y]) \in Points
        BY <3>1, <3>5, SecretOfShare
      <4>5. isk \in ISKs
        BY <3>7, <4>2, <4>3, <4>4 DEF DerivedISK, deriveISK, ISKs
      <4>6. m.tag \in Tags
        BY <3>3, <3>8, <4>1, <4>2, <4>5 DEF confirmationTag, Tags
      <4> QED
        BY <4>6, NilAssumption
    <3>11. CASE \E j \in Inits : Completed(j) /\ m.tag = TagOf(j, session[j].isk)
      <4> PICK j \in Inits : Completed(j) /\ m.tag = TagOf(j, session[j].isk)
        BY <3>11
      <4>1. session[j].isk = isk
        <5>1. TagOf(j, session[j].isk)
                = confirmationTag(isk, input[i].SessionID, Share(y, input[y]), m.adb)
          BY <3>8
        <5> QED
          BY <5>1, TermFields DEF TagOf
      <4> PICK z \in Runs, adb \in Values :
            session[j].isk = DerivedISK(j, z, TranscriptI(j, z, adb))
        BY DEF SessionInv
      <4>2. TranscriptI(j, z, adb) = TranscriptI(i, y, m.adb)
        <5>1. DerivedISK(j, z, TranscriptI(j, z, adb)) = DerivedISK(i, y, TranscriptI(i, y, m.adb))
          BY <3>7, <4>1
        <5> QED
          BY <5>1, TermFields DEF DerivedISK
      <4>3. Share(j, input[j]) = Share(i, input[i])
        BY <4>2, TermFields DEF TranscriptI
      <4>4. i = j
        BY <4>3, ShareInjective
      <4> QED
        BY <1>3, <3>1, <4>4 DEF TypeOK, Completed
    <3>12. CASE \E r \in Resps : Active(r) /\ m.tag = TagOf(r, derived[r])
      <4> PICK r \in Resps : Active(r) /\ m.tag = TagOf(r, derived[r])
        BY <3>12
      <4>1. /\ derived[r] = isk /\ input[r].SessionID = input[i].SessionID
            /\ Share(r, input[r]) = Share(y, input[y]) /\ input[r].LocalAssociatedData = m.adb
        <5>1. TagOf(r, derived[r])
                = confirmationTag(isk, input[i].SessionID, Share(y, input[y]), m.adb)
          BY <3>8
        <5> QED
          BY <5>1, TermFields DEF TagOf
      <4>2. r = y /\ r \in Runs /\ input[r] \in Inputs
        BY <3>5, <4>1, ShareInjective
      <4> PICK z \in Runs, ada \in Values :
            /\ Active(z)
            /\ derived[r] = DerivedISK(r, z, TranscriptR(r, z, ada))
        BY DEF DerivedInv
      <4>3. /\ Secret(r, z, input[z]) = Secret(i, y, input[y])
            /\ TranscriptR(r, z, ada) = TranscriptI(i, y, m.adb)
        <5>1. DerivedISK(r, z, TranscriptR(r, z, ada)) = DerivedISK(i, y, TranscriptI(i, y, m.adb))
          BY <3>7, <4>1
        <5> QED
          BY <5>1, TermFields DEF DerivedISK
      <4>4. Share(z, input[z]) = Share(i, input[i])
        BY <4>3, TermFields DEF TranscriptI, TranscriptR
      <4>5. z = i
        BY <4>4, ShareInjective
      <4>6. Gen(i, input[i]) = Gen(r, input[r])
        BY <4>2, <4>3, <4>5, TermFields DEF Secret
      <4>7. Compatible(input[i], input[r])
        <5> DEFINE ni == normalizeInput(input[i], RoleOf(i))
                   nr == normalizeInput(input[r], RoleOf(r))
        <5>1. ni.password = nr.password /\ ni.ci = nr.ci
          BY <4>6 DEF Gen
        <5>2. /\ ni.password = input[i].Password /\ nr.password = input[r].Password
              /\ ni.ci = <<input[i].SelfID, input[i].PeerID, input[i].Context>>
              /\ nr.ci = <<input[r].PeerID, input[r].SelfID, input[r].Context>>
          BY <3>1, <4>2, Normalized, ZenonT(60)
        <5>3. <<input[i].SelfID, input[i].PeerID, input[i].Context>>
                = <<input[r].PeerID, input[r].SelfID, input[r].Context>>
          BY <5>1, <5>2
        <5>4. /\ input[i].SelfID = input[r].PeerID /\ input[i].PeerID = input[r].SelfID
              /\ input[i].Context = input[r].Context
          BY <5>3
        <5>5. input[i].Password = input[r].Password
          BY <5>1, <5>2
        <5> QED
          BY <4>1, <5>4, <5>5 DEF Compatible
      <4>8. c.peerID = input[r].SelfID
        BY <3>2, <4>7 DEF Compatible
      <4>9. /\ tr = TranscriptI(i, r, input[r].LocalAssociatedData)
            /\ isk = DerivedISK(i, r, tr)
        BY <3>7, <4>1, <4>2
      <4> QED
        BY <2>3, <3>9, <4>1, <4>7, <4>8, <4>9 DEF InitiatorAccepts
    <3> QED
      BY <3>3, <3>10, <3>11, <3>12, SeenFrom
  <2> QED
    BY <1>3, <2>1, <2>2, <2>3 DEF InitiatorConfirm
<1> QED
  BY <1>1, <1>2, <1>3 DEF InitiatorFinish

(* A responder accepts only the tag of an initiator run that holds a       *)
(* session with the ISK it derived: no other run has this one's share in   *)
(* its transcript, and its own tag would need its own share twice.         *)
LEMMA ResponderEffect ==
  ASSUME TypeOK, StageInv, DerivedInv, NetInv, SessionInv, InitiatorAgreement,
         NEW r \in Resps, FinishR(r)
  PROVE  Used(r) \/ Failed(r) \/ ResponderAccepts(r)
<1> PICK m \in Deliverable("C") : ResponderFinish(r, m)
  BY DEF FinishR
<1>1. CASE AlreadySpent(r, "ErrStateUsed")
  BY <1>1 DEF Used, Errors, Results
<1>2. CASE Fail(r, "ErrMessage")
  BY <1>2 DEF Failed, Errors, Results
<1>3. CASE stage[r] = "ready" /\ m.role = "C" /\ ResponderConfirm(r, m)
  <2> DEFINE c == core[r]
             s == newSession(c.isk, transcriptID(c.transcript), c.transcript.ada, c.peerID)
  <2>1. CASE Fail(r, "ErrConfirmationFailed")
    BY <2>1 DEF Failed, Errors, Results
  <2>2. CASE TagCMatches(c, m) /\ Spend(r, "ok") /\ session' = Set(session, r, s) /\ UNCHANGED net
    <3>1. r \in Runs /\ input[r] \in Inputs /\ Active(r)
      BY <1>3 DEF Runs, StageInv, Active
    <3>2. PICK z \in Runs, ada \in Values :
            /\ z # r /\ Active(z)
            /\ derived[r] = DerivedISK(r, z, TranscriptR(r, z, ada))
            /\ c = [isk |-> derived[r], transcript |-> TranscriptR(r, z, ada),
                    sid |-> input[r].SessionID, peerID |-> input[r].PeerID]
      BY <1>3, <3>1 DEF DerivedInv
    <3>3. /\ c.isk = derived[r] /\ c.transcript = TranscriptR(r, z, ada)
          /\ c.sid = input[r].SessionID /\ c.peerID = input[r].PeerID
          /\ c.transcript.ya = Share(z, input[z]) /\ c.transcript.ada = ada
      BY <3>2, TermFields DEF TranscriptR
    <3>4. m.tag = confirmationTag(derived[r], input[r].SessionID, Share(z, input[z]), ada)
      BY <2>2, <3>3 DEF TagCMatches, initiatorConfirmationTag
    <3>5. input[z] \in Inputs
      BY <3>2 DEF Active, StageInv
    <3> HIDE DEF c
    <3>6. m.tag # Nil /\ derived[r] # Nil
      <4>1. Share(r, input[r]) \in Points /\ Share(z, input[z]) \in Points
        BY <3>1, <3>5, ShareType
      <4>2. input[r].SessionID \in Values /\ input[r].LocalAssociatedData \in Values
        BY <3>1, InputFields
      <4>3. TranscriptR(r, z, ada) \in Transcripts
        BY <4>1, <4>2 DEF TranscriptR, newIRTranscript, Transcripts
      <4>4. Secret(r, z, input[z]) \in Points
        BY <3>1, <3>5, SecretOfShare
      <4>5. derived[r] \in ISKs
        BY <3>2, <4>2, <4>3, <4>4 DEF DerivedISK, deriveISK, ISKs
      <4>6. m.tag \in Tags
        BY <3>4, <4>1, <4>2, <4>5 DEF confirmationTag, Tags
      <4> QED
        BY <4>5, <4>6, NilAssumption
    <3>7. m.tag \in SeenTags
      BY <1>3, Delivered
    <3>8. CASE \E q \in Resps : Active(q) /\ m.tag = TagOf(q, derived[q])
      <4> PICK q \in Resps : Active(q) /\ m.tag = TagOf(q, derived[q])
        BY <3>8
      <4>1. derived[q] = derived[r] /\ Share(q, input[q]) = Share(z, input[z])
        <5>1. TagOf(q, derived[q])
                = confirmationTag(derived[r], input[r].SessionID, Share(z, input[z]), ada)
          BY <3>4
        <5> QED
          BY <5>1, TermFields DEF TagOf
      <4>2. q = z
        BY <4>1, ShareInjective
      <4> PICK w \in Runs, adw \in Values :
            derived[q] = DerivedISK(q, w, TranscriptR(q, w, adw))
        BY ZenonT(60) DEF DerivedInv
      <4>3. DerivedISK(q, w, TranscriptR(q, w, adw)) = DerivedISK(r, z, TranscriptR(r, z, ada))
        BY <3>2, <4>1
      <4>4. TranscriptR(q, w, adw) = TranscriptR(r, z, ada)
        BY <4>3, TermFields DEF DerivedISK
      <4>5. Share(q, input[q]) = Share(r, input[r])
        BY <4>4, TermFields DEF TranscriptR
      <4>6. q = r
        BY <4>5, ShareInjective
      <4> QED
        BY <3>2, <4>2, <4>6
    <3>9. CASE \E i \in Inits : Completed(i) /\ m.tag = TagOf(i, session[i].isk)
      <4> PICK i \in Inits : Completed(i) /\ m.tag = TagOf(i, session[i].isk)
        BY <3>9
      <4>1. session[i].isk = derived[r] /\ ada = input[i].LocalAssociatedData
        <5>1. TagOf(i, session[i].isk)
                = confirmationTag(derived[r], input[r].SessionID, Share(z, input[z]), ada)
          BY <3>4
        <5> QED
          BY <5>1, TermFields DEF TagOf
      <4> PICK q \in Resps : /\ derived[q] = session[i].isk
                             /\ Compatible(input[i], input[q])
                             /\ Describes(i, q)
        BY DEF InitiatorAgreement
      <4> PICK y \in Runs, adb \in Values :
            /\ session[i].isk = DerivedISK(i, y, TranscriptI(i, y, adb))
            /\ session[i].transcriptID = transcriptID(TranscriptI(i, y, adb))
        BY DEF SessionInv
      <4>2. DerivedISK(i, y, TranscriptI(i, y, adb)) = DerivedISK(r, z, TranscriptR(r, z, ada))
        BY <3>2, <4>1
      <4>3. TranscriptI(i, y, adb) = TranscriptR(r, z, ada)
        BY <4>2, TermFields DEF DerivedISK
      <4>4. q = r
        <5>1. derived[q] # Nil
          BY <3>6, <4>1
        <5>2. Active(q)
          BY <5>1 DEF StageInv, Runs
        <5> PICK w \in Runs, adw \in Values :
              derived[q] = DerivedISK(q, w, TranscriptR(q, w, adw))
          BY <5>2, ZenonT(60) DEF DerivedInv
        <5>3. DerivedISK(q, w, TranscriptR(q, w, adw)) = DerivedISK(r, z, TranscriptR(r, z, ada))
          BY <3>2, <4>1
        <5>4. TranscriptR(q, w, adw) = TranscriptR(r, z, ada)
          BY <5>3, TermFields DEF DerivedISK
        <5>5. Share(q, input[q]) = Share(r, input[r])
          BY <5>4, TermFields DEF TranscriptR
        <5> QED
          BY <5>5, ShareInjective
      <4>5. Compatible(input[i], input[r]) /\ Describes(i, r)
        BY <4>4
      <4>6. s = newSession(derived[r], session[i].transcriptID, input[i].LocalAssociatedData,
                           input[i].SelfID)
        BY <3>3, <4>1, <4>3, <4>5 DEF Compatible
      <4> QED
        BY <2>2, <4>1, <4>5, <4>6 DEF ResponderAccepts
    <3> QED
      BY <3>6, <3>7, <3>8, <3>9, SeenFrom
  <2> QED
    BY <1>3, <2>1, <2>2 DEF ResponderConfirm
<1> QED
  BY <1>1, <1>2, <1>3 DEF ResponderFinish

(* Close fails for cause unless the value has been spent.                  *)
LEMMA CloseEffect ==
  ASSUME NEW x \in Runs, Close(x)
  PROVE  Used(x) \/ Failed(x)
BY DEF Close, Used, Failed, Errors, Results

(* Every step has one of the effects.                                      *)
LEMMA StepEffect ==
  ASSUME Inv, Next
  PROVE  Effect
<1>1. ASSUME NEW i \in Inits, StartSome(i) \/ FinishI(i) \/ Close(i)
      PROVE  Effect
  BY <1>1, StartEffect, InitiatorEffect, CloseEffect DEF Effect, Inv, Runs
<1>2. ASSUME NEW r \in Resps, RespondSome(r) \/ FinishR(r) \/ Close(r)
      PROVE  Effect
  BY <1>2, RespondEffect, ResponderEffect, CloseEffect DEF Effect, Inv, Runs
<1> QED
  BY <1>1, <1>2 DEF Next

---------------------------------------------------------------------------
(* What a run has settled stays settled: its input, that it got its state, *)
(* the ISK it derived and its session.                                     *)
LEMMA Settled ==
  ASSUME Inv, Effect, NEW x \in Runs
  PROVE  /\ stage[x] # "fresh" => stage'[x] # "fresh" /\ input'[x] = input[x]
         /\ Active(x) => Active(x)'
         /\ x \in Resps /\ Active(x) => derived'[x] = derived[x]
         /\ Completed(x) => session'[x] = session[x] /\ Completed(x)'
<1> USE DEF Inv, TypeOK, Set, Active, Completed
<1>1. ASSUME NEW y \in Runs, Refused(y) \/ Used(y) \/ Failed(y)
      PROVE  /\ stage[x] # "fresh" => stage'[x] # "fresh" /\ input'[x] = input[x]
             /\ Active(x) => Active(x)'
             /\ UNCHANGED <<derived, session>>
  BY <1>1 DEF Refused, Refuse, Used, AlreadySpent, Failed, Fail, Spend, Consume
<1>2. ASSUME NEW y \in Runs, NEW in, NEW c, NEW m, Begins(y, in, c, m)
      PROVE  /\ stage[x] # "fresh" => stage'[x] # "fresh" /\ input'[x] = input[x]
             /\ Active(x) => Active(x)' /\ x # y
             /\ UNCHANGED session
  BY <1>2 DEF Begins
<1>3. ASSUME NEW i \in Inits, Started(i)
      PROVE  /\ stage[x] # "fresh" => stage'[x] # "fresh" /\ input'[x] = input[x]
             /\ Active(x) => Active(x)'
             /\ UNCHANGED <<derived, session>>
  BY <1>2, <1>3 DEF Started, Runs
<1>4. ASSUME NEW r \in Resps, Responded(r)
      PROVE  /\ stage[x] # "fresh" => stage'[x] # "fresh" /\ input'[x] = input[x]
             /\ Active(x) => Active(x)'
             /\ x \in Resps /\ Active(x) => derived'[x] = derived[x]
             /\ UNCHANGED session
  BY <1>2, <1>4 DEF Responded, Runs
<1>5. ASSUME NEW y \in Runs, Spend(y, "ok"), NEW s, session' = Set(session, y, s)
      PROVE  /\ stage[x] # "fresh" => stage'[x] # "fresh" /\ input'[x] = input[x]
             /\ Active(x) => Active(x)'
             /\ UNCHANGED derived
             /\ Completed(x) => session'[x] = session[x]
  BY <1>5 DEF Spend, Consume
<1>6. ASSUME NEW i \in Inits, InitiatorAccepts(i)
      PROVE  /\ stage[x] # "fresh" => stage'[x] # "fresh" /\ input'[x] = input[x]
             /\ Active(x) => Active(x)'
             /\ UNCHANGED derived
             /\ Completed(x) => session'[x] = session[x]
  BY <1>5, <1>6, ZenonT(60) DEF InitiatorAccepts, Runs
<1>7. ASSUME NEW r \in Resps, ResponderAccepts(r)
      PROVE  /\ stage[x] # "fresh" => stage'[x] # "fresh" /\ input'[x] = input[x]
             /\ Active(x) => Active(x)'
             /\ UNCHANGED derived
             /\ Completed(x) => session'[x] = session[x]
  BY <1>5, <1>7, ZenonT(60) DEF ResponderAccepts, Runs
<1> QED
  BY <1>1, <1>3, <1>4, <1>6, <1>7 DEF Effect

(* The terms a step builds are of their types.                             *)
LEMMA TermTypes ==
  /\ \A s \in Values, k \in Points, t \in Transcripts : deriveISK(s, k, t) \in ISKs
  /\ \A a \in Points, b \in Values, c \in Points, d \in Values :
       newIRTranscript(a, b, c, d) \in Transcripts
  /\ \A k \in ISKs, s \in Values, y \in Points, d \in Values :
       confirmationTag(k, s, y, d) \in Tags
  /\ \A s \in Values, y \in Points, d \in Values : MessageA(s, y, d) \in Messages
  /\ \A y \in Points, d \in Values, t \in Tags : MessageB(y, d, t) \in Messages
  /\ \A t \in Tags : MessageC(t) \in Messages
  /\ \A k \in ISKs, t \in Transcripts, d \in Values, p \in Values :
       /\ newSession(k, transcriptID(t), d, p) \in Sessions
       /\ \A s \in Values : [isk |-> k, transcript |-> t, sid |-> s, peerID |-> p] \in Cores
<1>1. \A s \in Values, k \in Points, t \in Transcripts : deriveISK(s, k, t) \in ISKs
  BY DEF deriveISK, ISKs
<1>2. \A a \in Points, b \in Values, c \in Points, d \in Values :
       newIRTranscript(a, b, c, d) \in Transcripts
  BY DEF newIRTranscript, Transcripts
<1>3. \A k \in ISKs, s \in Values, y \in Points, d \in Values :
       confirmationTag(k, s, y, d) \in Tags
  BY DEF confirmationTag, Tags
<1>4. \A s \in Values, y \in Points, d \in Values : MessageA(s, y, d) \in Messages
  BY DEF MessageA, Messages
<1>5. \A y \in Points, d \in Values, t \in Tags : MessageB(y, d, t) \in Messages
  BY DEF MessageB, Messages
<1>6. \A t \in Tags : MessageC(t) \in Messages
  BY DEF MessageC, Messages
<1>7. \A k \in ISKs, t \in Transcripts, d \in Values, p \in Values :
       newSession(k, transcriptID(t), d, p) \in Sessions
  BY DEF newSession, transcriptID, Sessions
<1>8. \A k \in ISKs, t \in Transcripts, s \in Values, p \in Values :
       [isk |-> k, transcript |-> t, sid |-> s, peerID |-> p] \in Cores
  BY DEF Cores
<1> QED
  BY <1>1, <1>2, <1>3, <1>4, <1>5, <1>6, <1>7, <1>8

(* Getting and spending state keep the shape of the state.                 *)
LEMMA BeginsType ==
  ASSUME TypeOK, NEW x \in Runs, NEW in \in Inputs, NEW c \in Cores, NEW m \in Messages,
         Begins(x, in, c, m), derived' \in [Resps -> ISKs \cup {Nil}]
  PROVE  TypeOK'
<1>1. c # Nil
  BY NilAssumption
<1> QED
  BY <1>1 DEF TypeOK, Begins, Set, Stages, Results

LEMMA SpendType ==
  ASSUME TypeOK, NEW x \in Runs, NEW v \in Results, Spend(x, v),
         \/ UNCHANGED session
         \/ \E s \in Sessions : session' = Set(session, x, s),
         \/ UNCHANGED net
         \/ \E m \in Messages : net' = net \cup {m}
  PROVE  TypeOK'
BY DEF TypeOK, Spend, Consume, Set, Stages

(* The terms built from the inputs of runs that got so far.                *)
LEMMA RunTypes ==
  ASSUME StageInv
  PROVE  /\ \A x \in Runs : Active(x) => input[x] \in Inputs
         /\ \A x \in Runs, in \in Inputs :
              /\ Share(x, in) \in Points /\ in.SessionID \in Values
              /\ in.LocalAssociatedData \in Values
              /\ in.PeerID \in Values /\ in.SelfID \in Values
              /\ \A y \in Runs : Secret(x, y, in) \in Points /\ Secret(y, x, in) \in Points
BY ShareType, InputFields, SecretOfShare DEF StageInv, Active

(* The session an initiator gets, and the message it sends with it.        *)
LEMMA InitiatorSession ==
  ASSUME Inv, NEW i \in Inits, InitiatorAccepts(i)
  PROVE  \E r \in Resps, s \in Sessions, m \in Messages :
           /\ Active(r) /\ Compatible(input[i], input[r])
           /\ derived[r] = DerivedISK(i, r, TranscriptI(i, r, input[r].LocalAssociatedData))
           /\ s.isk = derived[r]
           /\ s.transcriptID = transcriptID(TranscriptI(i, r, input[r].LocalAssociatedData))
           /\ s.peerAD = input[r].LocalAssociatedData /\ s.peerID = input[r].SelfID
           /\ m = MessageC(TagOf(i, s.isk))
           /\ Spend(i, "ok") /\ session' = Set(session, i, s) /\ net' = net \cup {m}
           /\ session'[i] = s /\ Completed(i)'
<1> PICK r \in Resps :
      LET adb == input[r].LocalAssociatedData
          tr  == TranscriptI(i, r, adb)
          isk == DerivedISK(i, r, tr)
      IN  /\ Active(r) /\ derived[r] = isk /\ Compatible(input[i], input[r])
          /\ Spend(i, "ok")
          /\ session' = Set(session, i, newSession(isk, transcriptID(tr), adb, input[r].SelfID))
          /\ net' = net \cup {MessageC(TagOf(i, isk))}
  BY DEF InitiatorAccepts
<1> DEFINE adb == input[r].LocalAssociatedData
           tr  == TranscriptI(i, r, adb)
           isk == DerivedISK(i, r, tr)
           s   == newSession(isk, transcriptID(tr), adb, input[r].SelfID)
           m   == MessageC(TagOf(i, isk))
<1>1. input[r] \in Inputs /\ r \in Runs /\ i \in Runs /\ input[i] \in Inputs
  BY RunTypes DEF Runs, Spend, Active, Inv
<1>2. tr \in Transcripts
  BY <1>1, RunTypes, TermTypes DEF TranscriptI, Inv
<1>3. isk \in ISKs
  <2> HIDE DEF tr
  <2> QED
    BY <1>1, <1>2, RunTypes, TermTypes DEF DerivedISK, Inv
<1>4. /\ Active(r) /\ Compatible(input[i], input[r]) /\ Spend(i, "ok") /\ derived[r] = isk
      /\ session' = Set(session, i, s) /\ net' = net \cup {m}
  OBVIOUS
<1> HIDE DEF tr, isk
<1>5. s \in Sessions /\ m \in Messages
  BY <1>1, <1>2, <1>3, RunTypes, TermTypes DEF TagOf, Inv
<1>6. /\ s.isk = isk /\ s.transcriptID = transcriptID(tr)
      /\ s.peerAD = adb /\ s.peerID = input[r].SelfID
  BY DEF newSession
<1>7. m = MessageC(TagOf(i, s.isk))
  BY <1>6
<1> HIDE DEF s, m
<1>8. session'[i] = s /\ Completed(i)'
  BY <1>1, <1>4, <1>5, NilAssumption DEF Set, Inv, TypeOK, Completed
<1> QED
  BY <1>4, <1>5, <1>6, <1>7, <1>8 DEF tr, isk

(* The session a responder gets.                                           *)
LEMMA ResponderSession ==
  ASSUME Inv, NEW r \in Resps, ResponderAccepts(r)
  PROVE  \E i \in Inits, s \in Sessions :
           /\ Completed(i) /\ session[i].isk = derived[r]
           /\ Compatible(input[i], input[r]) /\ Describes(i, r)
           /\ s.isk = derived[r] /\ s.transcriptID = session[i].transcriptID
           /\ s.peerAD = input[i].LocalAssociatedData /\ s.peerID = input[i].SelfID
           /\ Spend(r, "ok") /\ session' = Set(session, r, s) /\ UNCHANGED net
           /\ session'[r] = s /\ Completed(r)'
<1> PICK i \in Inits :
      /\ Completed(i) /\ session[i].isk = derived[r]
      /\ Compatible(input[i], input[r]) /\ Describes(i, r)
      /\ Spend(r, "ok")
      /\ session' = Set(session, r, newSession(derived[r], session[i].transcriptID,
                                               input[i].LocalAssociatedData, input[i].SelfID))
      /\ UNCHANGED net
  BY DEF ResponderAccepts
<1> DEFINE s == newSession(derived[r], session[i].transcriptID,
                           input[i].LocalAssociatedData, input[i].SelfID)
<1>1. i \in Runs /\ r \in Runs /\ input[i] \in Inputs
  BY RunTypes DEF Runs, Completed, Inv, TypeOK, Active
<1>2. session[i] \in Sessions
  BY <1>1 DEF Inv, TypeOK, Completed
<1>3. /\ input[i].LocalAssociatedData \in Values /\ input[i].SelfID \in Values
  BY <1>1, RunTypes DEF Inv
<1>4. s \in Sessions
  BY <1>2, <1>3 DEF newSession, Sessions
<1>5. /\ s.isk = derived[r] /\ s.transcriptID = session[i].transcriptID
      /\ s.peerAD = input[i].LocalAssociatedData /\ s.peerID = input[i].SelfID
  BY DEF newSession
<1>6. session' = Set(session, r, s)
  OBVIOUS
<1> HIDE DEF s
<1>7. session'[r] = s /\ Completed(r)'
  BY <1>1, <1>4, <1>6, NilAssumption DEF Set, Inv, TypeOK, Completed
<1> QED
  BY <1>4, <1>5, <1>6, <1>7

(* Every step keeps the variables within their types.                      *)
LEMMA TypeStep == ASSUME Inv, Effect PROVE TypeOK'
<1>2. ASSUME NEW x \in Runs, Refused(x) \/ Used(x) PROVE TypeOK'
  BY <1>2 DEF Inv, TypeOK, Refused, Refuse, Used, AlreadySpent, Set, Stages, Errors
<1>3. ASSUME NEW x \in Runs, Failed(x) PROVE TypeOK'
  BY <1>3, SpendType DEF Inv, Failed, Fail, Errors
<1>4. ASSUME NEW i \in Inits, Started(i) PROVE TypeOK'
  <2> PICK in \in InitInputs :
        /\ Begins(i, in, newInitiatorCore(i, normalizeInput(in, "initiator")),
                  MessageA(in.SessionID, Share(i, in), in.LocalAssociatedData))
        /\ UNCHANGED derived
    BY <1>4 DEF Started
  <2>1. in \in Inputs /\ i \in Runs
    BY DEF Inputs, Runs
  <2>2. newInitiatorCore(i, normalizeInput(in, "initiator"))
          = [scalar |-> i, sid |-> in.SessionID, ya |-> Share(i, in),
             ada |-> in.LocalAssociatedData, peerID |-> in.PeerID]
    BY <2>1, Normalized, ShareType DEF newInitiatorCore
  <2>3. newInitiatorCore(i, normalizeInput(in, "initiator")) \in Cores
    BY RunTypes, <2>1, <2>2 DEF Cores, Inv
  <2>4. MessageA(in.SessionID, Share(i, in), in.LocalAssociatedData) \in Messages
    BY RunTypes, <2>1, TermTypes DEF Inv
  <2> QED
    BY <2>1, <2>3, <2>4, BeginsType DEF Inv, TypeOK
<1>5. ASSUME NEW r \in Resps, Responded(r) PROVE TypeOK'
  <2> PICK in \in RespInputs, y \in Runs, ada \in Values :
        LET tr  == newIRTranscript(Share(y, input[y]), ada, Share(r, in), in.LocalAssociatedData)
            isk == deriveISK(in.SessionID, Secret(r, y, input[y]), tr)
        IN  /\ Active(y)
            /\ Begins(r, in, [isk |-> isk, transcript |-> tr, sid |-> in.SessionID,
                              peerID |-> in.PeerID],
                      MessageB(Share(r, in), in.LocalAssociatedData,
                               confirmationTag(isk, in.SessionID, Share(r, in),
                                               in.LocalAssociatedData)))
            /\ derived' = Set(derived, r, isk)
    BY <1>5 DEF Responded
  <2> DEFINE tr  == newIRTranscript(Share(y, input[y]), ada, Share(r, in), in.LocalAssociatedData)
             isk == deriveISK(in.SessionID, Secret(r, y, input[y]), tr)
  <2>1. in \in Inputs /\ r \in Runs /\ input[y] \in Inputs
    BY RunTypes DEF Inputs, Runs, Inv
  <2>2. tr \in Transcripts
    BY RunTypes, <2>1, TermTypes DEF Inv
  <2>3. isk \in ISKs
    <3> HIDE DEF tr
    <3> QED
      BY RunTypes, <2>1, <2>2, TermTypes DEF Inv
  <2>4. derived' = Set(derived, r, isk)
    OBVIOUS
  <2>5. Begins(r, in, [isk |-> isk, transcript |-> tr, sid |-> in.SessionID, peerID |-> in.PeerID],
               MessageB(Share(r, in), in.LocalAssociatedData,
                        confirmationTag(isk, in.SessionID, Share(r, in), in.LocalAssociatedData)))
    OBVIOUS
  <2> HIDE DEF tr, isk
  <2>6. [isk |-> isk, transcript |-> tr, sid |-> in.SessionID, peerID |-> in.PeerID] \in Cores
    BY RunTypes, <2>1, <2>2, <2>3, TermTypes DEF Inv
  <2>7. MessageB(Share(r, in), in.LocalAssociatedData,
                 confirmationTag(isk, in.SessionID, Share(r, in), in.LocalAssociatedData))
          \in Messages
    BY RunTypes, <2>1, <2>3, TermTypes DEF Inv
  <2>8. derived' \in [Resps -> ISKs \cup {Nil}]
    BY <2>3, <2>4 DEF Inv, TypeOK, Set
  <2> QED
    BY <2>1, <2>5, <2>6, <2>7, <2>8, BeginsType DEF Inv
<1>6. ASSUME NEW i \in Inits, InitiatorAccepts(i) PROVE TypeOK'
  BY <1>6, InitiatorSession, SpendType DEF Inv, Results, Runs
<1>7. ASSUME NEW r \in Resps, ResponderAccepts(r) PROVE TypeOK'
  BY <1>7, ResponderSession, SpendType DEF Inv, Results, Runs
<1> QED
  BY <1>2, <1>3, <1>4, <1>5, <1>6, <1>7 DEF Effect

(* A step refuses a run, tells it that it is spent, spends it, or lets it  *)
(* begin.                                                                  *)
LEMMA EffectCases ==
  ASSUME Effect
  PROVE  \/ \E x \in Runs : Refused(x) \/ Used(x)
         \/ \E x \in Runs, v \in Results \ {"none"} : Spend(x, v)
         \/ \E i \in Inits : Started(i) /\ \E in, c, m : Begins(i, in, c, m)
         \/ \E r \in Resps : Responded(r) /\ \E in, c, m : Begins(r, in, c, m)
<1>1. ASSUME NEW x \in Runs, Failed(x) PROVE \E v \in Results \ {"none"} : Spend(x, v)
  BY <1>1 DEF Failed, Fail, Errors
<1>2. ASSUME NEW i \in Inits, InitiatorAccepts(i) PROVE i \in Runs /\ Spend(i, "ok")
  BY <1>2 DEF InitiatorAccepts, Runs
<1>3. ASSUME NEW r \in Resps, ResponderAccepts(r) PROVE r \in Runs /\ Spend(r, "ok")
  BY <1>3 DEF ResponderAccepts, Runs
<1>4. "ok" \in Results \ {"none"}
  BY DEF Results
<1>5. ASSUME NEW i \in Inits, Started(i) PROVE \E in, c, m : Begins(i, in, c, m)
  BY <1>5 DEF Started
<1>6. ASSUME NEW r \in Resps, Responded(r) PROVE \E in, c, m : Begins(r, in, c, m)
  BY <1>6 DEF Responded
<1> QED
  BY <1>1, <1>2, <1>3, <1>4, <1>5, <1>6 DEF Effect

(* A run's stage, its result and its draw of randomness agree.             *)
LEMMA StageStep == ASSUME Inv, Effect PROVE StageInv'
<1> USE DEF Inv, TypeOK, StageInv, Active, Set
<1>1. ASSUME NEW x \in Runs, Refused(x) PROVE StageInv'
  BY <1>1 DEF Refused, Refuse, Errors
<1>2. ASSUME NEW x \in Runs, Used(x) PROVE StageInv'
  BY <1>2 DEF Used, AlreadySpent, Errors
<1>3. ASSUME NEW x \in Runs, NEW v \in Results \ {"none"}, Spend(x, v) PROVE StageInv'
  BY <1>3 DEF Spend, Consume
<1>4. ASSUME NEW x \in Runs, NEW in \in Inputs, NEW c, NEW m, Begins(x, in, c, m),
             \A y \in Resps : y # x => derived'[y] = derived[y]
      PROVE  StageInv'
  BY <1>4 DEF Begins
<1>5. ASSUME NEW i \in Inits, Started(i) PROVE StageInv'
  BY <1>4, <1>5 DEF Started, Runs, Inputs
<1>6. ASSUME NEW r \in Resps, Responded(r) PROVE StageInv'
  BY <1>4, <1>6 DEF Responded, Runs, Inputs
<1> QED
  BY <1>1, <1>2, <1>3, <1>5, <1>6, EffectCases

(* Only Start gives an initiator a core.                                   *)
LEMMA CoreStep == ASSUME Inv, Effect PROVE CoreInv'
<1> USE DEF Inv, TypeOK, CoreInv, Set
<1>1. ASSUME NEW x \in Runs, Refused(x) \/ Used(x) PROVE CoreInv'
  BY <1>1 DEF Refused, Refuse, Used, AlreadySpent, Runs
<1>2. ASSUME NEW x \in Runs, NEW v, Spend(x, v) PROVE CoreInv'
  BY <1>2 DEF Spend, Consume, Runs
<1>3. ASSUME NEW i \in Inits, Started(i) PROVE CoreInv'
  BY <1>3 DEF Started, Begins, Runs
<1>4. ASSUME NEW r \in Resps, Responded(r) PROVE CoreInv'
  <2>1. r \notin Inits
    BY RunsAssumption
  <2> QED
    BY <1>4, <2>1 DEF Responded, Begins, Runs
<1> QED
  BY <1>1, <1>2, <1>3, <1>4, EffectCases

(* Every ISK was derived from another run's share.                         *)
LEMMA DerivedStep == ASSUME Inv, Effect PROVE DerivedInv'
<1> SUFFICES ASSUME NEW r \in Resps, Active(r)'
             PROVE  \E y \in Runs, ada \in Values :
                      /\ y # r /\ Active(y)'
                      /\ derived'[r] = DerivedISK(r, y, TranscriptR(r, y, ada))'
                      /\ stage'[r] = "ready" =>
                           core'[r] = [isk |-> derived'[r], transcript |-> TranscriptR(r, y, ada)',
                                       sid |-> input'[r].SessionID, peerID |-> input'[r].PeerID]
                      /\ "splice" \notin Faults =>
                           /\ y \in Inits /\ ada = input'[y].LocalAssociatedData
                           /\ input'[y].SessionID = input'[r].SessionID
  BY DEF DerivedInv
<1>0. r \in Runs
  BY DEF Runs
<1>1. CASE Active(r)
  <2> PICK y \in Runs, ada \in Values :
        /\ y # r /\ Active(y)
        /\ derived[r] = DerivedISK(r, y, TranscriptR(r, y, ada))
        /\ stage[r] = "ready" =>
             core[r] = [isk |-> derived[r], transcript |-> TranscriptR(r, y, ada),
                        sid |-> input[r].SessionID, peerID |-> input[r].PeerID]
        /\ "splice" \notin Faults =>
             /\ y \in Inits /\ ada = input[y].LocalAssociatedData
             /\ input[y].SessionID = input[r].SessionID
    BY <1>1 DEF Inv, DerivedInv
  <2>1. /\ Active(y)' /\ input'[y] = input[y] /\ input'[r] = input[r]
        /\ derived'[r] = derived[r]
    BY <1>0, <1>1, Settled DEF Active
  <2>2. stage'[r] = "ready" => stage[r] = "ready" /\ core'[r] = core[r]
    <3> USE DEF Inv, TypeOK, Set, Active
    <3>1. ASSUME NEW x \in Runs, Refused(x) \/ Used(x)
          PROVE  stage'[r] = "ready" => stage[r] = "ready" /\ core'[r] = core[r]
      BY <1>0, <3>1 DEF Refused, Refuse, Used, AlreadySpent
    <3>2. ASSUME NEW x \in Runs, NEW v, Spend(x, v)
          PROVE  stage'[r] = "ready" => stage[r] = "ready" /\ core'[r] = core[r]
      BY <1>0, <3>2 DEF Spend, Consume
    <3>3. ASSUME NEW x \in Runs, NEW in, NEW c, NEW m, Begins(x, in, c, m)
          PROVE  stage'[r] = "ready" => stage[r] = "ready" /\ core'[r] = core[r]
      BY <1>0, <1>1, <3>3 DEF Begins
    <3> QED
      BY <3>1, <3>2, <3>3, EffectCases DEF Runs
  <2>3. /\ TranscriptR(r, y, ada)' = TranscriptR(r, y, ada)
        /\ DerivedISK(r, y, TranscriptR(r, y, ada))' = DerivedISK(r, y, TranscriptR(r, y, ada))
    BY <2>1 DEF TranscriptR, DerivedISK
  <2> QED
    BY <2>1, <2>2, <2>3
<1>2. CASE ~Active(r)
  <2>1. Responded(r)
    <3> USE DEF Inv, TypeOK, Set, Active
    <3>1. ASSUME NEW x \in Runs, Refused(x) \/ Used(x) PROVE FALSE
      BY <1>0, <1>2, <3>1 DEF Refused, Refuse, Used, AlreadySpent
    <3>2. ASSUME NEW x \in Runs, NEW v, Spend(x, v) PROVE FALSE
      BY <1>0, <1>2, <3>2 DEF Spend, Consume
    <3>3. ASSUME NEW x \in Runs, NEW in, NEW c, NEW m, Begins(x, in, c, m) PROVE x = r
      BY <1>0, <1>2, <3>3 DEF Begins
    <3>4. r \notin Inits
      BY RunsAssumption
    <3> QED
      BY <3>1, <3>2, <3>3, <3>4, EffectCases DEF Runs
  <2> PICK in \in RespInputs, y \in Runs, ada \in Values :
        LET tr  == newIRTranscript(Share(y, input[y]), ada, Share(r, in), in.LocalAssociatedData)
            isk == deriveISK(in.SessionID, Secret(r, y, input[y]), tr)
        IN  /\ Active(y)
            /\ "splice" \notin Faults =>
                 /\ y \in Inits /\ ada = input[y].LocalAssociatedData
                 /\ input[y].SessionID = in.SessionID
            /\ Begins(r, in, [isk |-> isk, transcript |-> tr, sid |-> in.SessionID,
                              peerID |-> in.PeerID],
                      MessageB(Share(r, in), in.LocalAssociatedData,
                               confirmationTag(isk, in.SessionID, Share(r, in),
                                               in.LocalAssociatedData)))
            /\ derived' = Set(derived, r, isk)
    BY <2>1 DEF Responded
  <2> DEFINE tr  == newIRTranscript(Share(y, input[y]), ada, Share(r, in), in.LocalAssociatedData)
             isk == deriveISK(in.SessionID, Secret(r, y, input[y]), tr)
  <2>2. y # r
    BY <1>2
  <2>3. Active(y)' /\ input'[y] = input[y]
    BY Settled DEF Active
  <2>4. /\ input'[r] = in /\ derived'[r] = isk
        /\ core'[r] = [isk |-> isk, transcript |-> tr, sid |-> in.SessionID,
                       peerID |-> in.PeerID]
    <3> HIDE DEF isk, tr
    <3> QED
      BY <1>0 DEF Begins, Set, Inv, TypeOK, isk, tr
  <2>5. TranscriptR(r, y, ada)' = tr
    BY <2>3, <2>4 DEF TranscriptR
  <2>6. DerivedISK(r, y, TranscriptR(r, y, ada))' = isk
    BY <2>3, <2>4, <2>5 DEF DerivedISK
  <2> HIDE DEF isk, tr
  <2> QED
    BY <2>2, <2>3, <2>4, <2>5, <2>6
<1> QED
  BY <1>1, <1>2

(* Every message is still the sender's, and the new one is.                *)
LEMMA NetStep == ASSUME Inv, Effect PROVE NetInv'
<1>1. ASSUME NEW m \in net PROVE (SentByI(m) \/ SentByR(m) \/ ConfirmedByI(m))'
  <2>1. SentByI(m) \/ SentByR(m) \/ ConfirmedByI(m)
    BY DEF Inv, NetInv
  <2>2. ASSUME NEW i \in Inits, Active(i),
               m = MessageA(input[i].SessionID, Share(i, input[i]), input[i].LocalAssociatedData)
        PROVE  SentByI(m)'
    BY <2>2, Settled DEF SentByI, Active, Runs
  <2>3. ASSUME NEW r \in Resps, Active(r),
               m = MessageB(Share(r, input[r]), input[r].LocalAssociatedData, TagOf(r, derived[r]))
        PROVE  SentByR(m)'
    <3>1. Active(r)' /\ input'[r] = input[r] /\ derived'[r] = derived[r]
      BY <2>3, Settled DEF Active, Runs
    <3>2. TagOf(r, derived[r])' = TagOf(r, derived[r])
      BY <3>1 DEF TagOf
    <3> QED
      BY <2>3, <3>1, <3>2 DEF SentByR
  <2>4. ASSUME NEW i \in Inits, Completed(i), m = MessageC(TagOf(i, session[i].isk))
        PROVE  ConfirmedByI(m)'
    <3>1. i \in Runs /\ stage[i] # "fresh"
      BY <2>4 DEF Runs, Completed, Inv, TypeOK
    <3>2. Completed(i)' /\ input'[i] = input[i] /\ session'[i] = session[i]
      BY <2>4, <3>1, Settled
    <3>3. TagOf(i, session[i].isk)' = TagOf(i, session[i].isk)
      BY <3>2 DEF TagOf
    <3> QED
      BY <2>4, <3>2, <3>3 DEF ConfirmedByI
  <2> QED
    BY <2>1, <2>2, <2>3, <2>4 DEF SentByI, SentByR, ConfirmedByI
<1>2. ASSUME NEW x \in Runs, Refused(x) \/ Used(x) \/ Failed(x) PROVE net' = net
  BY <1>2 DEF Refused, Refuse, Used, AlreadySpent, Failed, Fail
<1>3. ASSUME NEW r \in Resps, ResponderAccepts(r) PROVE net' = net
  BY <1>3 DEF ResponderAccepts
<1>4. ASSUME NEW i \in Inits, Started(i)
      PROVE  \E m : net' = net \cup {m} /\ SentByI(m)'
  <2> PICK in \in InitInputs :
        Begins(i, in, newInitiatorCore(i, normalizeInput(in, "initiator")),
               MessageA(in.SessionID, Share(i, in), in.LocalAssociatedData))
    BY <1>4 DEF Started
  <2>1. input'[i] = in /\ stage'[i] = "ready"
    BY DEF Begins, Set, Inv, TypeOK, Runs
  <2>2. SentByI(MessageA(in.SessionID, Share(i, in), in.LocalAssociatedData))'
    BY <2>1 DEF SentByI, Active
  <2> QED
    BY <2>2 DEF Begins
<1>5. ASSUME NEW r \in Resps, Responded(r)
      PROVE  \E m : net' = net \cup {m} /\ SentByR(m)'
  <2> PICK in \in RespInputs, y \in Runs, ada \in Values :
        LET tr  == newIRTranscript(Share(y, input[y]), ada, Share(r, in), in.LocalAssociatedData)
            isk == deriveISK(in.SessionID, Secret(r, y, input[y]), tr)
        IN  /\ Begins(r, in, [isk |-> isk, transcript |-> tr, sid |-> in.SessionID,
                              peerID |-> in.PeerID],
                      MessageB(Share(r, in), in.LocalAssociatedData,
                               confirmationTag(isk, in.SessionID, Share(r, in),
                                               in.LocalAssociatedData)))
            /\ derived' = Set(derived, r, isk)
    BY <1>5 DEF Responded
  <2> DEFINE tr  == newIRTranscript(Share(y, input[y]), ada, Share(r, in), in.LocalAssociatedData)
             isk == deriveISK(in.SessionID, Secret(r, y, input[y]), tr)
             m   == MessageB(Share(r, in), in.LocalAssociatedData,
                             confirmationTag(isk, in.SessionID, Share(r, in),
                                             in.LocalAssociatedData))
  <2>1. input'[r] = in /\ stage'[r] = "ready" /\ derived'[r] = isk /\ net' = net \cup {m}
    <3> HIDE DEF tr
    <3> QED
      BY DEF Begins, Set, Inv, TypeOK, Runs, tr
  <2> HIDE DEF isk
  <2>2. TagOf(r, derived[r])'
          = confirmationTag(isk, in.SessionID, Share(r, in), in.LocalAssociatedData)
    BY <2>1 DEF TagOf
  <2> PICK n : n = m
    OBVIOUS
  <2>3. n = MessageB(Share(r, input'[r]), input'[r].LocalAssociatedData, TagOf(r, derived[r])')
    BY <2>1, <2>2
  <2>4. SentByR(n)'
    BY <2>1, <2>3 DEF SentByR, Active
  <2>5. net' = net \cup {n}
    BY <2>1
  <2> QED
    BY <2>4, <2>5
<1>6. ASSUME NEW i \in Inits, InitiatorAccepts(i)
      PROVE  \E m : net' = net \cup {m} /\ ConfirmedByI(m)'
  <2> PICK s, m : /\ m = MessageC(TagOf(i, s.isk))
                  /\ Spend(i, "ok") /\ net' = net \cup {m}
                  /\ session'[i] = s /\ Completed(i)'
    BY <1>6, InitiatorSession
  <2>1. input' = input
    BY DEF Spend
  <2>2. TagOf(i, session[i].isk)' = TagOf(i, s.isk)
    BY <2>1 DEF TagOf
  <2> QED
    BY <2>2 DEF ConfirmedByI
<1> QED
  BY <1>1, <1>2, <1>3, <1>4, <1>5, <1>6 DEF Effect, NetInv

(* Which sessions a step can bring about.                                  *)
LEMMA NewSession ==
  ASSUME Inv, Effect, NEW x \in Runs, Completed(x)', ~Completed(x)
  PROVE  \/ x \in Inits /\ InitiatorAccepts(x)
         \/ x \in Resps /\ ResponderAccepts(x)
<1>1. ASSUME NEW y \in Runs, Refused(y) \/ Used(y) \/ Failed(y) PROVE FALSE
  BY <1>1 DEF Refused, Refuse, Used, AlreadySpent, Failed, Fail, Completed
<1>2. ASSUME NEW i \in Inits, Started(i) PROVE FALSE
  BY <1>2 DEF Started, Begins, Completed
<1>3. ASSUME NEW r \in Resps, Responded(r) PROVE FALSE
  BY <1>3 DEF Responded, Begins, Completed
<1>4. ASSUME NEW y, NEW s, session' = Set(session, y, s) PROVE y = x
  BY <1>4 DEF Set, Completed, Inv, TypeOK
<1>5. ASSUME NEW i \in Inits, InitiatorAccepts(i) PROVE i = x
  BY <1>4, <1>5 DEF InitiatorAccepts
<1>6. ASSUME NEW r \in Resps, ResponderAccepts(r) PROVE r = x
  BY <1>4, <1>6 DEF ResponderAccepts
<1> QED
  BY <1>1, <1>2, <1>3, <1>5, <1>6 DEF Effect

(* Every session is bound to what its run computed.                        *)
LEMMA SessionStep == ASSUME Inv, Effect PROVE SessionInv'
<1>1. ASSUME NEW i \in Inits, Completed(i)'
      PROVE  \E y \in Runs, adb \in Values :
               /\ Active(y)'
               /\ session'[i].isk = DerivedISK(i, y, TranscriptI(i, y, adb))'
               /\ session'[i].transcriptID = transcriptID(TranscriptI(i, y, adb))'
  <2>0. i \in Runs /\ i \notin Resps
    BY RunsAssumption DEF Runs
  <2>1. CASE Completed(i)
    <3> PICK y \in Runs, adb \in Values :
          /\ Active(y)
          /\ session[i].isk = DerivedISK(i, y, TranscriptI(i, y, adb))
          /\ session[i].transcriptID = transcriptID(TranscriptI(i, y, adb))
      BY <2>1 DEF Inv, SessionInv
    <3>1. stage[i] # "fresh"
      BY <2>0, <2>1 DEF Inv, TypeOK, Completed
    <3>2. /\ Active(y)' /\ input'[y] = input[y] /\ input'[i] = input[i]
          /\ session'[i] = session[i]
      BY <2>0, <2>1, <3>1, Settled DEF Active
    <3>3. TranscriptI(i, y, adb)' = TranscriptI(i, y, adb)
      BY <3>2 DEF TranscriptI
    <3>4. DerivedISK(i, y, TranscriptI(i, y, adb))' = DerivedISK(i, y, TranscriptI(i, y, adb))
      BY <3>2, <3>3 DEF DerivedISK
    <3> QED
      BY <3>2, <3>3, <3>4 DEF transcriptID
  <2>2. CASE ~Completed(i)
    <3>1. InitiatorAccepts(i)
      BY <1>1, <2>0, <2>2, NewSession
    <3> PICK r \in Resps, s \in Sessions :
          /\ Active(r)
          /\ derived[r] = DerivedISK(i, r, TranscriptI(i, r, input[r].LocalAssociatedData))
          /\ s.isk = derived[r]
          /\ s.transcriptID = transcriptID(TranscriptI(i, r, input[r].LocalAssociatedData))
          /\ Spend(i, "ok") /\ session'[i] = s
      BY <3>1, InitiatorSession
    <3> PICK adb : adb = input[r].LocalAssociatedData
      OBVIOUS
    <3>2. r \in Runs /\ adb \in Values /\ input' = input
      BY RunTypes DEF Inv, Runs, Spend
    <3>3. Active(r)'
      BY <3>2, Settled
    <3>4. TranscriptI(i, r, adb)' = TranscriptI(i, r, adb)
      BY <3>2 DEF TranscriptI
    <3>5. DerivedISK(i, r, TranscriptI(i, r, adb))' = DerivedISK(i, r, TranscriptI(i, r, adb))
      BY <3>2, <3>4 DEF DerivedISK
    <3>6. /\ session'[i].isk = DerivedISK(i, r, TranscriptI(i, r, adb))'
          /\ session'[i].transcriptID = transcriptID(TranscriptI(i, r, adb))'
      BY <3>4, <3>5 DEF transcriptID
    <3> QED
      BY <3>2, <3>3, <3>6
  <2> QED
    BY <2>1, <2>2
<1>2. ASSUME NEW r \in Resps, Completed(r)' PROVE session'[r].isk = derived'[r]
  <2>0. r \in Runs /\ r \notin Inits
    BY RunsAssumption DEF Runs
  <2>1. CASE Completed(r)
    <3>1. Active(r)
      BY <2>0, <2>1 DEF Inv, TypeOK, Completed, Active
    <3> QED
      BY <2>0, <2>1, <3>1, Settled DEF Inv, SessionInv
  <2>2. CASE ~Completed(r)
    <3>1. ResponderAccepts(r)
      BY <1>2, <2>0, <2>2, NewSession
    <3> QED
      BY <3>1, ResponderSession DEF Spend
  <2> QED
    BY <2>1, <2>2
<1> QED
  BY <1>1, <1>2 DEF SessionInv

(* Whose sessions agreed still agree, and so does the new one's.           *)
LEMMA InitiatorAgreementStep == ASSUME Inv, Effect PROVE InitiatorAgreement'
<1> SUFFICES ASSUME NEW i \in Inits, Completed(i)'
             PROVE  \E r \in Resps : /\ derived'[r] = session'[i].isk
                                     /\ Compatible(input'[i], input'[r])
                                     /\ Describes(i, r)'
  BY DEF InitiatorAgreement, Compatible
<1>0. i \in Runs /\ i \notin Resps
  BY RunsAssumption DEF Runs
<1>1. CASE Completed(i)
  <2> PICK r \in Resps : /\ derived[r] = session[i].isk
                         /\ Compatible(input[i], input[r])
                         /\ Describes(i, r)
    BY <1>1 DEF Inv, InitiatorAgreement
  <2>1. r \in Runs /\ session[i] \in Sessions /\ stage[i] # "fresh"
    BY <1>0, <1>1 DEF Runs, Inv, TypeOK, Completed
  <2>2. derived[r] # Nil
    BY <2>1, NilAssumption DEF Sessions
  <2>3. Active(r)
    BY <2>1, <2>2 DEF Inv, StageInv
  <2>4. /\ input'[i] = input[i] /\ input'[r] = input[r]
        /\ session'[i] = session[i] /\ derived'[r] = derived[r]
    BY <1>0, <1>1, <2>1, <2>3, Settled DEF Active
  <2> QED
    BY <2>4 DEF Describes
<1>2. CASE ~Completed(i)
  <2>1. InitiatorAccepts(i)
    BY <1>0, <1>2, NewSession
  <2> PICK r \in Resps, s \in Sessions :
        /\ Compatible(input[i], input[r])
        /\ s.isk = derived[r]
        /\ s.peerAD = input[r].LocalAssociatedData /\ s.peerID = input[r].SelfID
        /\ Spend(i, "ok") /\ session'[i] = s
    BY <2>1, InitiatorSession
  <2>2. input' = input /\ derived' = derived
    BY DEF Spend
  <2>3. Describes(i, r)'
    BY <2>2 DEF Describes
  <2> QED
    BY <2>2, <2>3
<1> QED
  BY <1>1, <1>2

LEMMA ResponderAgreementStep == ASSUME Inv, Effect PROVE ResponderAgreement'
<1> SUFFICES ASSUME NEW r \in Resps, Completed(r)'
             PROVE  \E i \in Inits : /\ Completed(i)'
                                     /\ session'[i].isk = session'[r].isk
                                     /\ session'[i].transcriptID = session'[r].transcriptID
                                     /\ Compatible(input'[i], input'[r])
                                     /\ Describes(i, r)' /\ Describes(r, i)'
  BY DEF ResponderAgreement, Compatible
<1>0. r \in Runs /\ r \notin Inits
  BY RunsAssumption DEF Runs
<1>1. CASE Completed(r)
  <2> PICK i \in Inits : /\ Completed(i)
                         /\ session[i].isk = session[r].isk
                         /\ session[i].transcriptID = session[r].transcriptID
                         /\ Compatible(input[i], input[r])
                         /\ Describes(i, r) /\ Describes(r, i)
    BY <1>1 DEF Inv, ResponderAgreement
  <2>1. i \in Runs /\ stage[i] # "fresh" /\ stage[r] # "fresh"
    BY <1>0, <1>1 DEF Runs, Inv, TypeOK, Completed
  <2>2. /\ input'[i] = input[i] /\ input'[r] = input[r] /\ Completed(i)'
        /\ session'[i] = session[i] /\ session'[r] = session[r]
    BY <1>0, <1>1, <2>1, Settled
  <2> QED
    BY <2>2 DEF Describes
<1>2. CASE ~Completed(r)
  <2>1. ResponderAccepts(r)
    BY <1>0, <1>2, NewSession
  <2> PICK i \in Inits, s \in Sessions :
        /\ Completed(i) /\ session[i].isk = derived[r]
        /\ Compatible(input[i], input[r]) /\ Describes(i, r)
        /\ s.isk = derived[r] /\ s.transcriptID = session[i].transcriptID
        /\ s.peerAD = input[i].LocalAssociatedData /\ s.peerID = input[i].SelfID
        /\ Spend(r, "ok") /\ session'[r] = s
    BY <2>1, ResponderSession
  <2>2. input' = input
    BY DEF Spend
  <2>3. session'[i] = session[i] /\ Completed(i)'
    BY Settled DEF Runs
  <2>4. Describes(i, r)' /\ Describes(r, i)'
    BY <2>2, <2>3 DEF Describes
  <2> QED
    BY <2>2, <2>3, <2>4
<1> QED
  BY <1>1, <1>2

---------------------------------------------------------------------------
(* The invariant holds initially and every step keeps it.                  *)
LEMMA InitInv == Init => Inv
<1> SUFFICES ASSUME Init PROVE Inv
  OBVIOUS
<1>1. TypeOK
  BY DEF Init, TypeOK, Stages, Results
<1>2. StageInv
  BY DEF Init, StageInv, Active
<1>3. CoreInv /\ NetInv
  BY DEF Init, CoreInv, NetInv, Runs
<1>4. DerivedInv
  BY DEF Init, DerivedInv, Active, Runs
<1>5. \A x \in Runs : ~Completed(x)
  BY DEF Init, Completed
<1>6. SessionInv /\ InitiatorAgreement /\ ResponderAgreement
  BY <1>5 DEF SessionInv, InitiatorAgreement, ResponderAgreement, Runs
<1> QED
  BY <1>1, <1>2, <1>3, <1>4, <1>6 DEF Inv

LEMMA StepInv == Inv /\ [Next]_vars => Inv'
<1> SUFFICES ASSUME Inv, [Next]_vars PROVE Inv'
  OBVIOUS
<1>1. CASE Next
  <2>1. Effect
    BY <1>1, StepEffect
  <2> QED
    BY <2>1, TypeStep, StageStep, CoreStep, DerivedStep, NetStep, SessionStep,
       InitiatorAgreementStep, ResponderAgreementStep DEF Inv
<1>2. CASE UNCHANGED vars
  <2>1. TypeOK' /\ StageInv' /\ CoreInv'
    BY <1>2 DEF vars, Inv, TypeOK, StageInv, CoreInv, Active
  <2>2. DerivedInv'
    BY <1>2 DEF vars, Inv, DerivedInv, Active, DerivedISK, TranscriptR
  <2>3. NetInv'
    BY <1>2 DEF vars, Inv, NetInv, SentByI, SentByR, ConfirmedByI, TagOf, Active, Completed
  <2>4. SessionInv'
    BY <1>2 DEF vars, Inv, SessionInv, Active, Completed, DerivedISK, TranscriptI
  <2>5. InitiatorAgreement' /\ ResponderAgreement'
    BY <1>2 DEF vars, Inv, InitiatorAgreement, ResponderAgreement, Completed, Describes
  <2> QED
    BY <2>1, <2>2, <2>3, <2>4, <2>5 DEF Inv
<1> QED
  BY <1>1, <1>2

(* The state keeps its shape: a run holds a core exactly while it is       *)
(* ready, and a session only once it has been spent.                       *)
THEOREM TypeCorrect == Spec => []TypeOK
<1>1. Inv => TypeOK
  BY DEF Inv
<1> QED
  BY <1>1, InitInv, StepInv, PTL DEF Spec

(* For any runs, inputs and faults of the network: Initiator.Finish and    *)
(* Responder.Finish return a session only to runs that agree on the ISK,   *)
(* the transcript and each other's identity and associated data.           *)
THEOREM AgreementHolds == Spec => []Agreement
<1>1. Inv => Agreement
  BY DEF Inv, Agreement
<1> QED
  BY <1>1, InitInv, StepInv, PTL DEF Spec

(* For any runs, inputs and faults: no replay confirms a second run with   *)
(* an ISK, as each ISK binds the shares of both runs that use it.          *)
THEOREM PairedSessions == Spec => []SessionsPairUp
<1>1. ASSUME Inv, NEW x \in Inits, NEW y \in Inits, Completed(x), Completed(y),
             session[x].isk = session[y].isk
      PROVE  x = y
  <2> PICK z \in Runs, adz \in Values : session[x].isk = DerivedISK(x, z, TranscriptI(x, z, adz))
    BY <1>1 DEF Inv, SessionInv
  <2> PICK w \in Runs, adw \in Values : session[y].isk = DerivedISK(y, w, TranscriptI(y, w, adw))
    BY <1>1 DEF Inv, SessionInv
  <2>1. DerivedISK(x, z, TranscriptI(x, z, adz)) = DerivedISK(y, w, TranscriptI(y, w, adw))
    BY <1>1
  <2>2. TranscriptI(x, z, adz) = TranscriptI(y, w, adw)
    BY <2>1, TermFields DEF DerivedISK
  <2>3. Share(x, input[x]) = Share(y, input[y])
    BY <2>2, TermFields DEF TranscriptI
  <2> QED
    BY <2>3, ShareInjective
<1>2. ASSUME Inv, NEW x \in Resps, NEW y \in Resps, Completed(x), Completed(y),
             session[x].isk = session[y].isk
      PROVE  x = y
  <2>1. Active(x) /\ Active(y) /\ derived[x] = derived[y]
    BY <1>2 DEF Inv, TypeOK, SessionInv, Completed, Active, Runs
  <2> PICK z \in Runs, adz \in Values : derived[x] = DerivedISK(x, z, TranscriptR(x, z, adz))
    BY <1>2, <2>1 DEF Inv, DerivedInv
  <2> PICK w \in Runs, adw \in Values : derived[y] = DerivedISK(y, w, TranscriptR(y, w, adw))
    BY <1>2, <2>1, ZenonT(60) DEF Inv, DerivedInv
  <2>2. DerivedISK(x, z, TranscriptR(x, z, adz)) = DerivedISK(y, w, TranscriptR(y, w, adw))
    BY <2>1
  <2>3. TranscriptR(x, z, adz) = TranscriptR(y, w, adw)
    BY <2>2, TermFields DEF DerivedISK
  <2>4. Share(x, input[x]) = Share(y, input[y])
    BY <2>3, TermFields DEF TranscriptR
  <2> QED
    BY <2>4, ShareInjective
<1>3. Inv => SessionsPairUp
  <2> SUFFICES ASSUME Inv, NEW x \in Runs, NEW y \in Runs, x # y, Completed(x), Completed(y),
                      session[x].isk = session[y].isk
               PROVE  x \in Inits <=> y \in Resps
    BY DEF SessionsPairUp
  <2>1. /\ x \in Inits \/ x \in Resps
        /\ y \in Inits \/ y \in Resps
        /\ ~(x \in Inits /\ x \in Resps) /\ ~(y \in Inits /\ y \in Resps)
    BY RunsAssumption DEF Runs
  <2> QED
    BY <1>1, <1>2, <2>1
<1> QED
  BY <1>3, InitInv, StepInv, PTL DEF Spec

(* For any runs, inputs and faults: Respond draws randomness only for a    *)
(* share that its own scalar will not reject.                              *)
THEOREM ScalarsUsed == Spec => []NoScalarWasted
<1>1. Inv => NoScalarWasted
  BY DEF Inv, TypeOK, StageInv, NoScalarWasted, Active
<1> QED
  BY <1>1, InitInv, StepInv, PTL DEF Spec

(* A run is decided once, whatever is delivered to it afterwards.          *)
LEMMA DecidedStep ==
  ASSUME Inv, Effect, NEW x \in Runs, Decided(x)
  PROVE  Decided(x)' /\ session'[x] = session[x] /\ core'[x] = Nil
<1> USE DEF Inv, TypeOK, Set
<1>1. stage[x] \in {"refused", "spent"} /\ core[x] = Nil
  BY DEF Decided, Completed, StageInv, Stages
<1>2. ASSUME NEW y \in Runs, Refused(y) \/ Used(y)
      PROVE  Decided(x)' /\ session'[x] = session[x] /\ core'[x] = Nil
  BY <1>1, <1>2 DEF Refused, Refuse, Used, AlreadySpent, Decided, Completed, Errors
<1>3. ASSUME NEW y \in Runs, NEW v, Spend(y, v)
      PROVE  x # y /\ result'[x] = result[x] /\ core'[x] = Nil
  BY <1>1, <1>3 DEF Spend, Consume
<1>4. ASSUME NEW y \in Runs, NEW in, NEW c, NEW m, Begins(y, in, c, m)
      PROVE  Decided(x)' /\ session'[x] = session[x] /\ core'[x] = Nil
  BY <1>1, <1>4 DEF Begins, Decided, Completed
<1>5. ASSUME NEW y \in Runs, Failed(y)
      PROVE  Decided(x)' /\ session'[x] = session[x] /\ core'[x] = Nil
  BY <1>3, <1>5 DEF Failed, Fail, Decided, Completed
<1>6. ASSUME NEW i \in Inits, InitiatorAccepts(i)
      PROVE  Decided(x)' /\ session'[x] = session[x] /\ core'[x] = Nil
  BY <1>3, <1>6 DEF InitiatorAccepts, Decided, Completed, Runs
<1>7. ASSUME NEW r \in Resps, ResponderAccepts(r)
      PROVE  Decided(x)' /\ session'[x] = session[x] /\ core'[x] = Nil
  BY <1>3, <1>7 DEF ResponderAccepts, Decided, Completed, Runs
<1> QED
  <2>1. ASSUME NEW i \in Inits, Started(i)
        PROVE  Decided(x)' /\ session'[x] = session[x] /\ core'[x] = Nil
    BY <1>4, <2>1 DEF Started, Runs
  <2>2. ASSUME NEW r \in Resps, Responded(r)
        PROVE  Decided(x)' /\ session'[x] = session[x] /\ core'[x] = Nil
    BY <1>4, <2>2 DEF Responded, Runs
  <2> QED
    BY <1>2, <1>5, <1>6, <1>7, <2>1, <2>2 DEF Effect

(* For any runs, inputs and faults: after a terminal operation that won,   *)
(* and after a constructor that failed, no delivery brings a session about *)
(* or changes the one there is, and no secret comes back.                  *)
THEOREM DecidedForGood == Spec => DecidedOnce
<1>1. Inv /\ [Next]_vars =>
        [\A x \in Runs : Decided(x) =>
           Decided(x)' /\ session'[x] = session[x] /\ core'[x] = Nil]_vars
  BY StepEffect, DecidedStep
<1> QED
  BY <1>1, InitInv, StepInv, PTL DEF Spec, DecidedOnce

---------------------------------------------------------------------------
(* One initiator, one responder, and a network that at most loses, delays, *)
(* repeats or reorders messages: what each failure says of the inputs, and *)
(* that it says so for good.                                               *)
CauseInv ==
  \A i \in Inits, r \in Resps :
    /\ result[r] = "ErrMessage" =>
         Active(i) /\ stage[r] # "fresh" /\ input[i].SessionID # input[r].SessionID
    /\ result[i] = "ErrConfirmationFailed" \/ result[r] = "ErrConfirmationFailed" =>
         /\ Active(i) /\ Active(r)
         /\ ~Compatible(input[i], input[r])
         /\ input[i].SessionID = input[r].SessionID

(* Compatible inputs lead both runs to one generator.                      *)
LEMMA SameGenerator ==
  ASSUME NEW i \in Inits, NEW r \in Resps, NEW a, NEW b, Compatible(a, b)
  PROVE  Gen(i, a) = Gen(r, b)
<1>1. i \in Runs /\ r \in Runs
  BY DEF Runs
<1>2. Gen(i, a) = <<a.Password, <<a.SelfID, a.PeerID, a.Context>>, a.SessionID>>
  BY <1>1, Normalized DEF Gen
<1>3. Gen(r, b) = <<b.Password, <<b.PeerID, b.SelfID, b.Context>>, b.SessionID>>
  BY <1>1, Normalized DEF Gen
<1> QED
  BY <1>2, <1>3 DEF Compatible

(* Which step reports which failure.                                       *)
LEMMA NewFailure ==
  ASSUME Inv, Next, NEW x \in Runs, NEW v \in {"ErrMessage", "ErrConfirmationFailed"},
         result'[x] = v, result[x] # v
  PROVE  \/ /\ v = "ErrMessage" /\ x \in Resps
            /\ \E in \in RespInputs, m \in Deliverable("A") :
                 /\ m.role = "A" => ~SidOK(in, m)
                 /\ Refuse(x, in, "ErrMessage")
         \/ /\ v = "ErrMessage" /\ x \in Inits
         \/ /\ v = "ErrMessage" /\ x \in Resps
            /\ \E m \in Deliverable("C") : m.role # "C"
         \/ /\ v = "ErrConfirmationFailed" /\ x \in Inits
            /\ \E m \in Deliverable("B") : 
                 /\ stage[x] = "ready" /\ m.role = "B" /\ InitiatorConfirm(x, m)
         \/ /\ v = "ErrConfirmationFailed" /\ x \in Resps
            /\ \E m \in Deliverable("C") : 
                 /\ stage[x] = "ready" /\ m.role = "C" /\ ~TagCMatches(core[x], m)
                 /\ Fail(x, "ErrConfirmationFailed")
<1>0. x \in Resps <=> x \notin Inits
  BY RunsAssumption DEF Runs
<1>1. ASSUME NEW y, NEW e, result' = Set(result, y, e) PROVE y = x /\ e = v
  BY <1>1 DEF Set, Inv, TypeOK
<1>2. ASSUME NEW y, NEW in, NEW e, Refuse(y, in, e) PROVE y = x /\ e = v
  BY <1>1, <1>2 DEF Refuse
<1>3. ASSUME NEW y, NEW e, AlreadySpent(y, e) \/ Fail(y, e) PROVE y = x /\ e = v
  BY <1>1, <1>3 DEF AlreadySpent, Fail, Spend
<1>4. ASSUME NEW y, NEW in, RandomnessFails(y, in) PROVE FALSE
  BY <1>2, <1>4 DEF RandomnessFails
<1>5. \A in : acceptInput(in) # v
  BY DEF acceptInput
<1>6. ASSUME NEW i \in Inits, StartSome(i) PROVE FALSE
  BY <1>1, <1>2, <1>4, <1>5, <1>6 DEF StartSome, Start
<1>7. ASSUME NEW y \in Runs, Close(y) PROVE FALSE
  BY <1>3, <1>7 DEF Close
<1>8. ASSUME NEW i \in Inits, FinishI(i)
      PROVE  \/ v = "ErrMessage" /\ x \in Inits
             \/ /\ v = "ErrConfirmationFailed" /\ x = i
                /\ \E m \in Deliverable("B") :
                     stage[i] = "ready" /\ m.role = "B" /\ InitiatorConfirm(i, m)
  <2> PICK m \in Deliverable("B") : InitiatorFinish(i, m)
    BY <1>8 DEF FinishI
  <2>1. CASE AlreadySpent(i, "ErrStateUsed")
    BY <1>3, <2>1
  <2>2. CASE Fail(i, "ErrMessage")
    BY <1>3, <2>2
  <2>3. CASE stage[i] = "ready" /\ m.role = "B" /\ InitiatorConfirm(i, m)
    <3>1. v = "ErrConfirmationFailed" /\ x = i
      BY <1>1, <1>3, <2>3 DEF InitiatorConfirm, Spend
    <3> QED
      BY <2>3, <3>1
  <2> QED
    BY <2>1, <2>2, <2>3 DEF InitiatorFinish
<1>9. ASSUME NEW r \in Resps, RespondSome(r)
      PROVE  /\ v = "ErrMessage" /\ x = r
             /\ \E in \in RespInputs, m \in Deliverable("A") :
                  /\ m.role = "A" => ~SidOK(in, m)
                  /\ Refuse(r, in, "ErrMessage")
  <2> PICK in \in RespInputs, m \in Deliverable("A") : Respond(r, in, m)
    BY <1>9 DEF RespondSome
  <2>1. CASE Refuse(r, in, acceptInput(in))
    BY <1>2, <1>5, <2>1
  <2>2. CASE RespondToShare(r, in, m)
    <3>1. CASE Refuse(r, in, "ErrAbort")
      BY <1>2, <3>1
    <3>2. CASE RandomnessFails(r, in)
      BY <1>4, <3>2
    <3>3. CASE result' = Set(result, r, "ok")
      BY <1>1, <3>3
    <3> QED
      BY <2>2, <3>1, <3>2, <3>3 DEF RespondToShare
  <2>3. CASE (m.role = "A" => ~SidOK(in, m)) /\ Refuse(r, in, "ErrMessage")
    BY <1>2, <2>3
  <2> QED
    BY <2>1, <2>2, <2>3 DEF Respond
<1>10. ASSUME NEW r \in Resps, FinishR(r)
       PROVE  \/ v = "ErrMessage" /\ x = r /\ \E m \in Deliverable("C") : m.role # "C"
              \/ /\ v = "ErrConfirmationFailed" /\ x = r
                 /\ \E m \in Deliverable("C") :
                      /\ stage[r] = "ready" /\ m.role = "C" /\ ~TagCMatches(core[r], m)
                      /\ Fail(r, "ErrConfirmationFailed")
  <2> PICK m \in Deliverable("C") : ResponderFinish(r, m)
    BY <1>10 DEF FinishR
  <2>1. CASE AlreadySpent(r, "ErrStateUsed")
    BY <1>3, <2>1
  <2>2. CASE m.role # "C" /\ Fail(r, "ErrMessage")
    BY <1>3, <2>2
  <2>3. CASE stage[r] = "ready" /\ m.role = "C" /\ ResponderConfirm(r, m)
    <3>1. CASE ~TagCMatches(core[r], m) /\ Fail(r, "ErrConfirmationFailed")
      BY <1>3, <2>3, <3>1
    <3>2. CASE Spend(r, "ok")
      BY <1>1, <3>2 DEF Spend
    <3> QED
      BY <2>3, <3>1, <3>2 DEF ResponderConfirm
  <2> QED
    BY <2>1, <2>2, <2>3 DEF ResponderFinish
<1> QED
  BY <1>0, <1>6, <1>7, <1>8, <1>9, <1>10 DEF Next, Runs

(* Without splicing and misdelivery, only sent messages of the expected    *)
(* role arrive.                                                            *)
LEMMA HonestDelivery ==
  ASSUME Inv, "splice" \notin Faults, "misdeliver" \notin Faults, NEW m
  PROVE  /\ m \in Deliverable("A") => m.role = "A" /\ SentByI(m)
         /\ m \in Deliverable("B") => m.role = "B" /\ SentByR(m)
         /\ m \in Deliverable("C") => m.role = "C" /\ ConfirmedByI(m)
BY MessageFields DEF Deliverable, Sent, Inv, NetInv, SentByI, SentByR, ConfirmedByI

(* A step that reports a failure has found its cause.                      *)
LEMMA CauseFound ==
  ASSUME Inv, Next, "splice" \notin Faults, "misdeliver" \notin Faults,
         NEW i, NEW r, Inits = {i}, Resps = {r}
  PROVE  /\ result'[r] = "ErrMessage" /\ result[r] # "ErrMessage" =>
              Active(i) /\ stage'[r] # "fresh" /\ input[i].SessionID # input'[r].SessionID
         /\ \/ result'[i] = "ErrConfirmationFailed" /\ result[i] # "ErrConfirmationFailed"
            \/ result'[r] = "ErrConfirmationFailed" /\ result[r] # "ErrConfirmationFailed"
            => /\ Active(i) /\ Active(r)
               /\ ~Compatible(input[i], input[r])
               /\ input[i].SessionID = input[r].SessionID
<1>0. /\ i \in Inits /\ i \in Runs /\ i \notin Resps
      /\ r \in Resps /\ r \in Runs /\ r \notin Inits /\ Runs = {i, r}
  BY RunsAssumption DEF Runs
<1>1. ASSUME result'[r] = "ErrMessage", result[r] # "ErrMessage"
      PROVE  Active(i) /\ stage'[r] # "fresh" /\ input[i].SessionID # input'[r].SessionID
  <2>1. PICK in \in RespInputs, m \in Deliverable("A") :
          /\ m.role = "A" => ~SidOK(in, m)
          /\ Refuse(r, in, "ErrMessage")
    BY <1>0, <1>1, NewFailure, HonestDelivery
  <2>2. /\ m.role = "A" /\ Active(i)
        /\ m = MessageA(input[i].SessionID, Share(i, input[i]), input[i].LocalAssociatedData)
    BY HonestDelivery DEF SentByI
  <2>3. m.sid = input[i].SessionID
    BY <2>2, MessageFields
  <2>4. input'[r] = in /\ stage'[r] = "refused"
    BY <1>0, <2>1 DEF Refuse, Set, Inv, TypeOK
  <2> QED
    BY <2>1, <2>2, <2>3, <2>4 DEF SidOK
<1>2. ASSUME Active(r)
      PROVE  /\ Active(i) /\ input[i].SessionID = input[r].SessionID
             /\ derived[r] = DerivedISK(r, i, TranscriptR(r, i, input[i].LocalAssociatedData))
             /\ stage[r] = "ready" =>
                  core[r] = [isk |-> derived[r],
                             transcript |-> TranscriptR(r, i, input[i].LocalAssociatedData),
                             sid |-> input[r].SessionID, peerID |-> input[r].PeerID]
  BY <1>0, <1>2, ZenonT(60) DEF Inv, DerivedInv
<1>3. ASSUME result'[i] = "ErrConfirmationFailed", result[i] # "ErrConfirmationFailed"
      PROVE  /\ Active(i) /\ Active(r) /\ ~Compatible(input[i], input[r])
             /\ input[i].SessionID = input[r].SessionID
  <2>1. PICK m \in Deliverable("B") :
          stage[i] = "ready" /\ m.role = "B" /\ InitiatorConfirm(i, m)
    BY <1>0, <1>3, NewFailure
  <2>2. /\ Active(r)
        /\ m = MessageB(Share(r, input[r]), input[r].LocalAssociatedData, TagOf(r, derived[r]))
    BY HonestDelivery DEF SentByR
  <2>3. /\ m.yb = Share(r, input[r]) /\ m.adb = input[r].LocalAssociatedData
        /\ m.tag = TagOf(r, derived[r])
    BY <2>2, MessageFields
  <2>4. SUFFICES ASSUME Compatible(input[i], input[r]) PROVE FALSE
    BY <1>2, <2>2
  <2>5. input[i] \in Inputs /\ input[r] \in Inputs
    BY <1>0, <1>2, <2>2, RunTypes DEF Inv
  <2> DEFINE c   == core[i]
             k   == scalarMultVFY(c.scalar, m.yb)
             tr  == newIRTranscript(c.ya, c.ada, m.yb, m.adb)
             isk == deriveISK(c.sid, k, tr)
  <2>6. /\ c.scalar = i /\ c.sid = input[i].SessionID /\ c.ya = Share(i, input[i])
        /\ c.ada = input[i].LocalAssociatedData
    <3>1. c = newInitiatorCore(i, normalizeInput(input[i], "initiator"))
      BY <1>0, <2>1 DEF Inv, CoreInv
    <3> HIDE DEF c
    <3>2. RoleOf(i) = "initiator"
      BY <1>0, Normalized
    <3> DEFINE nc == normalizeInput(input[i], RoleOf(i))
    <3>3. /\ c.scalar = i /\ c.sid = nc.sid /\ c.ada = nc.ad
          /\ c.ya = scalarMult(i, calculateGenerator(nc.password, nc.ci, nc.sid))
      BY <3>1, <3>2 DEF newInitiatorCore
    <3>4. nc.sid = input[i].SessionID /\ nc.ad = input[i].LocalAssociatedData
      BY <1>0, Normalized
    <3>5. scalarMult(i, calculateGenerator(nc.password, nc.ci, nc.sid)) = Share(i, input[i])
      BY <1>0, <2>5, ShareType
    <3> QED
      BY <3>3, <3>4, <3>5
  <2>7. k = Secret(i, r, input[r])
    BY <1>0, <2>3, <2>5, <2>6, SecretOfShare
  <2>8. Secret(i, r, input[r]) = Secret(r, i, input[i])
    <3>1. Gen(i, input[i]) = Gen(r, input[r])
      BY <1>0, <2>4, SameGenerator
    <3>2. {i, r} = {r, i}
      OBVIOUS
    <3> QED
      BY <3>1, <3>2 DEF Secret
  <2>9. tr = TranscriptR(r, i, input[i].LocalAssociatedData)
    BY <2>3, <2>6 DEF TranscriptR
  <2>10. isk = derived[r]
    BY <1>2, <2>2, <2>6, <2>7, <2>8, <2>9 DEF DerivedISK
  <2>11. tr.yb = m.yb /\ tr.adb = m.adb
    BY TermFields
  <2>12. m.tag = responderConfirmationTag(tr, isk, c.sid)
    <3> HIDE DEF isk, tr
    <3> QED
      BY <1>2, <2>2, <2>3, <2>6, <2>10, <2>11 DEF responderConfirmationTag, TagOf
  <2>13. k # Nil
    BY <1>0, <2>5, <2>7, SecretOfShare
  <2>14. Spend(i, "ok")
    BY <2>1, <2>12, <2>13 DEF InitiatorConfirm
  <2> QED
    BY <1>0, <1>3, <2>14 DEF Spend, Set, Inv, TypeOK
<1>4. ASSUME result'[r] = "ErrConfirmationFailed", result[r] # "ErrConfirmationFailed"
      PROVE  FALSE
  <2>1. PICK m \in Deliverable("C") :
          stage[r] = "ready" /\ m.role = "C" /\ ~TagCMatches(core[r], m)
    BY <1>0, <1>4, NewFailure
  <2>2. Completed(i) /\ m = MessageC(TagOf(i, session[i].isk))
    BY HonestDelivery DEF ConfirmedByI
  <2>3. m.tag = TagOf(i, session[i].isk) /\ session[i].isk = derived[r]
    BY <1>0, <2>2, MessageFields DEF Inv, InitiatorAgreement
  <2>4. Active(r)
    BY <2>1 DEF Active
  <2> DEFINE c == core[r]
  <2>5. /\ c.isk = derived[r] /\ c.sid = input[r].SessionID
        /\ c.transcript = TranscriptR(r, i, input[i].LocalAssociatedData)
    BY <1>2, <2>1, <2>4
  <2>6. /\ c.transcript.ya = Share(i, input[i])
        /\ c.transcript.ada = input[i].LocalAssociatedData
    BY <2>5, TermFields DEF TranscriptR
  <2>7. m.tag = initiatorConfirmationTag(c.transcript, c.isk, c.sid)
    BY <1>2, <2>3, <2>4, <2>5, <2>6 DEF TagOf, initiatorConfirmationTag
  <2> QED
    BY <2>1, <2>7 DEF TagCMatches
<1> QED
  BY <1>1, <1>3, <1>4

(* One initiator, one responder, messages lost, delayed or repeated but    *)
(* neither altered nor misrouted, callers that close and randomness that   *)
(* fails: Respond rejects message A only for another session id, and a     *)
(* confirmation fails only for another password, context or identity.      *)
THEOREM FailuresHaveCause ==
  ASSUME NEW i, NEW r, Inits = {i}, Resps = {r},
         "splice" \notin Faults, "misdeliver" \notin Faults
  PROVE  Spec => []FailsOnlyForCause
<1>0. /\ i \in Inits /\ i \in Runs /\ i \notin Resps
      /\ r \in Resps /\ r \in Runs /\ r \notin Inits
  BY RunsAssumption DEF Runs
<1>1. Init => CauseInv
  BY <1>0 DEF Init, CauseInv
<1>2. Inv /\ CauseInv /\ [Next]_vars => CauseInv'
  <2> SUFFICES ASSUME Inv, CauseInv, [Next]_vars PROVE CauseInv'
    OBVIOUS
  <2>1. CASE Next
    <3>1. Effect
      BY <2>1, StepEffect
    <3>2. /\ Active(i) => Active(i)' /\ input'[i] = input[i]
          /\ Active(r) => Active(r)'
          /\ stage[r] # "fresh" => stage'[r] # "fresh" /\ input'[r] = input[r]
      BY <1>0, <3>1, Settled DEF Active
    <3>3. Active(r) => stage[r] # "fresh"
      BY DEF Active
    <3>4. ASSUME result'[r] = "ErrMessage"
          PROVE  /\ Active(i)' /\ stage'[r] # "fresh"
                 /\ input'[i].SessionID # input'[r].SessionID
      BY <2>1, <3>2, <3>4, CauseFound, <1>0 DEF CauseInv
    <3>5. ASSUME \/ result'[i] = "ErrConfirmationFailed"
                 \/ result'[r] = "ErrConfirmationFailed"
          PROVE  /\ Active(i)' /\ Active(r)'
                 /\ ~Compatible(input'[i], input'[r])
                 /\ input'[i].SessionID = input'[r].SessionID
      BY <2>1, <3>2, <3>3, <3>5, CauseFound, <1>0 DEF CauseInv
    <3> QED
      BY <3>4, <3>5 DEF CauseInv, Compatible
  <2>2. CASE UNCHANGED vars
    BY <2>2 DEF vars, CauseInv, Active
  <2> QED
    BY <2>1, <2>2
<1>3. CauseInv => FailsOnlyForCause
  BY DEF CauseInv, FailsOnlyForCause
<1> QED
  BY <1>1, <1>2, <1>3, InitInv, StepInv, PTL DEF Spec
=============================================================================
