--------------------------- MODULE BufferLifetime ---------------------------
(***************************************************************************)
(* The byte slices of one Start or Respond and of the Finish or Close that *)
(* follows (input.go, core.go, crypto.go, transcript.go, api.go): who      *)
(* copies, who keeps, who zeroes, and in which order the deferred wipes    *)
(* run when a call returns, fails or panics.                               *)
(*                                                                         *)
(* A site is a backing array, named for the variable it is made for; a     *)
(* struct is a record of the sites its slices refer to.  What a site holds *)
(* is abstracted to whether it is what it should be: something copied or   *)
(* computed from a wiped site is "bad".                                    *)
(***************************************************************************)
EXTENDS SequencesExt

VARIABLES role,     \* which side this is
          pc,       \* the next step of the call in progress
          mem,      \* mem[s]: contents of site s
          caller,   \* callerInput: field -> site
          nc,       \* normalizedInput: field -> site
          core,     \* initiatorCore or responderCore: field -> site
          session,  \* Session: field -> site
          defers,   \* deferred calls of the active functions, last one first
          out       \* how the call in progress ends

vars == <<role, pc, mem, caller, nc, core, session, defers, out>>

Nothing == <<>>  \* a struct without references

Input ==
  [password |-> "Input.Password", selfID |-> "Input.SelfID", peerID |-> "Input.PeerID",
   context |-> "Input.Context", sid |-> "Input.SessionID", localAD |-> "Input.LocalAD"]

callerInput ==
  [password |-> "password", selfID |-> "selfID", peerID |-> "peerID",
   context |-> "context", sid |-> "sid", localAD |-> "localAD"]

CallerSites == Range(Input)
Copies      == Range(callerInput) \cup {"ci"}

(* Scratch memory and keys that must not outlive the call that made them,  *)
(* other than through the value it returns.                                *)
Secrets ==
  {"genStr", "hash", "g", "scalar", "e", "k", "prefix", "material", "sum", "isk",
   "keyInput", "macKey", "session.isk"}

Public ==
  {"peer", "share", "tag", "message", "messageC", "transcript", "tr.ya", "tr.ada",
   "tr.yb", "tr.adb", "initiatorAD", "core.sid", "core.ya", "core.ada", "core.peerID",
   "session.transcriptID", "session.peerAD", "session.peerID"}

Sites == CallerSites \cup Copies \cup Secrets \cup Public

Contents == {"none", "live", "zero", "bad"}

---------------------------------------------------------------------------
(* Statements on memory, and the effect of a list of them.                 *)
Make(dst, srcs) == [op |-> "make", dst |-> dst, srcs |-> srcs]
Clear(sites)    == [op |-> "clear", sites |-> sites]

clearBytes(m, sites) ==
  [s \in Sites |-> IF s \in sites /\ m[s] # "none" THEN "zero" ELSE m[s]]

Execute(m, st) ==
  IF st.op = "clear"
  THEN clearBytes(m, st.sites)
  ELSE [m EXCEPT ![st.dst] = IF \A s \in st.srcs : m[s] = "live" THEN "live" ELSE "bad"]

After(stmts) == FoldLeft(Execute, mem, stmts)

clone(dst, src) == Make(dst, {src})

Init ==
  /\ role \in {"initiator", "responder"}
  /\ pc = "accept"
  /\ mem = [s \in Sites |-> IF s \in CallerSites THEN "live" ELSE "none"]
  /\ caller = Nothing
  /\ nc = Nothing
  /\ core = Nothing
  /\ session = Nothing
  /\ defers = <<>>
  /\ out = "none"

---------------------------------------------------------------------------
(* Deferred calls.  clearBytes and clearScalar were given their slice when *)
(* they were deferred; the methods look at the struct when they run.       *)
PersistentSecrets ==
  DOMAIN core \cap (IF role = "initiator" THEN {"scalar"}
                    ELSE {"isk", "transcript", "ya", "ada", "yb", "adb"})

wipe(d) ==
  CASE d = "caller.wipe" -> Range(caller)
    [] d = "nc.wipe"     -> Range(nc)
    [] d = "core.clear"  -> {core[f] : f \in PersistentSecrets}
    [] OTHER             -> {d}

Cleared == [f \in DOMAIN core \ PersistentSecrets |-> core[f]]

RunDeferred ==
  /\ mem' = clearBytes(mem, wipe(Head(defers)))
  /\ core' = IF Head(defers) = "core.clear" THEN Cleared ELSE core
  /\ defers' = Tail(defers)
  /\ UNCHANGED <<role, caller, nc, session, out>>

Goto(l)   == pc' = l
Defer(d)  == defers' = <<d>> \o defers
Return(r) == pc' = "unwind" /\ out' = r

UnchangedRefs == UNCHANGED <<role, caller, nc, core, session>>

Fails(stmts) ==
  /\ Return("error")
  /\ mem' = After(stmts)
  /\ defers' = defers
  /\ UnchangedRefs

---------------------------------------------------------------------------
(* normalizeInput.                                                         *)
AcceptInput ==
  /\ pc = "accept"
  /\ \/ Fails(<<>>)
     \/ /\ mem' = [s \in Sites |-> IF s \in Range(callerInput) THEN "live" ELSE mem[s]]
        /\ caller' = callerInput
        /\ Defer("caller.wipe")
        /\ Goto("handoff")
        /\ UNCHANGED <<role, nc, core, session, out>>

Handoff ==
  /\ pc = "handoff"
  /\ mem' = After(<<Make("ci", {caller.selfID, caller.peerID, caller.context}),
                    Clear({caller.context})>>)
  /\ nc' = [password    |-> caller.password,
            initiatorID |-> IF role = "initiator" THEN caller.selfID ELSE caller.peerID,
            responderID |-> IF role = "initiator" THEN caller.peerID ELSE caller.selfID,
            ci          |-> "ci",
            sid         |-> caller.sid,
            ad          |-> caller.localAD]
  /\ caller' = Nothing
  /\ Goto("normalized")
  /\ UNCHANGED <<role, core, session, defers, out>>

(* normalizeInput returns, and the shell defers the next wipe.             *)
Normalized ==
  /\ pc = "normalized"
  /\ mem' = clearBytes(mem, wipe("caller.wipe"))
  /\ defers' = <<"nc.wipe">>
  /\ Goto(IF role = "initiator" THEN "generator" ELSE "decode")
  /\ UNCHANGED <<role, caller, nc, core, session, out>>

---------------------------------------------------------------------------
(* respondWithRandom before the constructor: decodeMessageA copies the     *)
(* fields, the session ids are compared; then validate in the constructor. *)
DecodeA ==
  /\ pc = "decode"
  /\ \/ Fails(<<>>)
     \/ /\ mem' = After(<<Make("peer", {})>>)
        /\ Goto("validate")
        /\ UNCHANGED <<defers, out>>
        /\ UnchangedRefs

Validate ==
  /\ pc = "validate"
  /\ \/ Fails(<<>>)
     \/ Goto("generator") /\ UNCHANGED <<mem, defers, out>> /\ UnchangedRefs

(* The two constructors.                                                   *)
calculateGeneratorMutant ==
  <<Make("genStr", {nc.password, nc.ci, nc.sid}), Make("hash", {"genStr"}),
    Make("g", {"hash"}), Clear({"hash"})>>

calculateGenerator ==
  <<Make("genStr", {nc.password, nc.ci, nc.sid}), Make("hash", {"genStr"}),
    Clear({"genStr"}), Make("g", {"hash"}), Clear({"hash"})>>

Generator ==
  /\ pc = "generator"
  /\ mem' = After(calculateGenerator \o <<Clear({nc.password})>>)
  /\ Defer("g")
  /\ Goto("sample")
  /\ UNCHANGED out
  /\ UnchangedRefs

(* The reader may fail after it has filled part of the buffer.             *)
SampleScalar ==
  /\ pc = "sample"
  /\ \/ Fails(<<Make("scalar", {}), Clear({"scalar"})>>)
     \/ /\ mem' = After(<<Make("scalar", {})>>)
        /\ IF role = "responder" THEN Defer("scalar") ELSE UNCHANGED defers
        /\ Goto("share")
        /\ UNCHANGED out
        /\ UnchangedRefs

x25519ScalarMult(dst, s, p) == <<Make("e", {s}), Make(dst, {"e", p}), Clear({"e"})>>

Share ==
  /\ pc = "share"
  /\ \/ Fails(IF role = "initiator" THEN <<Clear({"scalar"})>> ELSE <<>>)
     \/ /\ mem' = After(x25519ScalarMult("share", "scalar", "g"))
        /\ Goto(IF role = "initiator" THEN "build" ELSE "secret")
        /\ UNCHANGED <<defers, out>>
        /\ UnchangedRefs

newInitiatorCoreMutant ==
  [scalar |-> "scalar", sid |-> nc.sid, ya |-> "core.ya", ada |-> "core.ada",
   peerID |-> "core.peerID"]

newInitiatorCore ==
  [scalar |-> "scalar", sid |-> "core.sid", ya |-> "core.ya", ada |-> "core.ada",
   peerID |-> "core.peerID"]

BuildInitiator ==
  /\ pc = "build"
  /\ mem' = After(<<clone("core.sid", nc.sid), clone("core.ya", "share"),
                    clone("core.ada", nc.ad), clone("core.peerID", nc.responderID)>>)
  /\ core' = newInitiatorCore
  /\ Goto("leave")
  /\ UNCHANGED <<role, caller, nc, session, defers, out>>

(* The deferred clearBytes(k) comes before the check of err; on error k is *)
(* nil.                                                                    *)
SharedSecret(from, to) ==
  /\ pc = from
  /\ \/ Fails(<<>>)
     \/ /\ mem' = After(x25519ScalarMult("k", "scalar", "peer"))
        /\ Defer("k")
        /\ Goto(to)
        /\ UNCHANGED out
        /\ UnchangedRefs

newIRTranscript(ya, ada, yb, adb) ==
  <<clone("tr.ya", ya), clone("tr.ada", ada), clone("tr.yb", yb), clone("tr.adb", adb),
    Make("transcript", {"tr.ya", "tr.ada", "tr.yb", "tr.adb"})>>

deriveISK(sid) ==
  <<Make("prefix", {sid, "k"}), Make("material", {"prefix", "transcript"}),
    Clear({"prefix"}), Make("sum", {"material"}), Clear({"material"}),
    Make("isk", {"sum"}), Clear({"sum"})>>

confirmationTag(isk, sid, y, ad) ==
  <<Make("keyInput", {sid, isk}), Make("macKey", {"keyInput"}), Clear({"keyInput"}),
    Make("tag", {"macKey", y, ad}), Clear({"macKey"})>>

(* The responder's core owns the ISK and the transcript it was given.      *)
BuildResponder ==
  /\ pc = "derive"
  /\ mem' = After(newIRTranscript("peer", "peer", "share", nc.ad) \o deriveISK(nc.sid)
                  \o confirmationTag("isk", nc.sid, "tr.yb", "tr.adb")
                  \o <<clone("core.sid", nc.sid), clone("core.peerID", nc.initiatorID)>>)
  /\ core' = [isk |-> "isk", transcript |-> "transcript", ya |-> "tr.ya", ada |-> "tr.ada",
              yb |-> "tr.yb", adb |-> "tr.adb", sid |-> "core.sid", peerID |-> "core.peerID"]
  /\ Goto("leave")
  /\ UNCHANGED <<role, caller, nc, session, defers, out>>

(* A constructor or finish returns: its own deferred calls run, then the   *)
(* shell goes on.                                                          *)
ShellDefers == {"nc.wipe", "core.clear"}

Leave(from, to) ==
  /\ pc = from
  /\ IF Head(defers) \in ShellDefers
     THEN Goto(to) /\ UNCHANGED <<mem, defers, out>> /\ UnchangedRefs
     ELSE RunDeferred /\ UNCHANGED pc

(* The result is made before the shell's deferred nc.wipe runs.            *)
EncodeOpening ==
  /\ pc = "encode"
  /\ mem' = After(<<Make("message", IF role = "initiator" THEN {nc.sid, "share", nc.ad}
                                    ELSE {"share", nc.ad, "tag"})>>)
  /\ Return("ok")
  /\ UNCHANGED defers
  /\ UnchangedRefs

---------------------------------------------------------------------------
(* Finish: the core was claimed, its clear() is deferred.                  *)
BeginFinish ==
  /\ pc = "open"
  /\ Defer("core.clear")
  /\ Goto("finish")
  /\ out' = "none"
  /\ UNCHANGED mem
  /\ UnchangedRefs

DecodeReply ==
  /\ pc = "finish"
  /\ \/ Fails(<<>>)
     \/ /\ mem' = After(<<Make("peer", {})>>)
        /\ Goto(IF role = "initiator" THEN "finishSecret" ELSE "finishResponder")
        /\ UNCHANGED <<defers, out>>
        /\ UnchangedRefs

DeriveInitiator ==
  /\ pc = "finishDerive"
  /\ mem' = After(newIRTranscript(core.ya, core.ada, "peer", "peer") \o deriveISK(core.sid))
  /\ Defer("isk")
  /\ Goto("finishInitiator")
  /\ UNCHANGED out
  /\ UnchangedRefs

newSession(isk) ==
  [isk |-> "session.isk", transcriptID |-> "session.transcriptID",
   peerAD |-> "session.peerAD", peerID |-> "session.peerID"]

SessionCopies(isk, ad) ==
  <<clone("session.isk", isk), clone("session.transcriptID", "transcript"),
    clone("session.peerAD", ad), clone("session.peerID", core.peerID)>>

(* A wrong tag is an error; otherwise the own tag and the session.         *)
FinishInitiator ==
  /\ pc = "finishInitiator"
  /\ \/ Fails(confirmationTag("isk", core.sid, "tr.yb", "tr.adb"))
     \/ /\ mem' = After(confirmationTag("isk", core.sid, "tr.yb", "tr.adb")
                        \o confirmationTag("isk", core.sid, "tr.ya", "tr.ada")
                        \o SessionCopies("isk", "peer"))
        /\ session' = newSession("isk")
        /\ Goto("finishLeave")
        /\ UNCHANGED <<role, caller, nc, core, defers, out>>

EncodeC ==
  /\ pc = "encodeC"
  /\ mem' = After(<<Make("messageC", {"tag"})>>)
  /\ Return("ok")
  /\ UNCHANGED defers
  /\ UnchangedRefs

FinishResponder ==
  /\ pc = "finishResponder"
  /\ \/ Fails(confirmationTag(core.isk, core.sid, core.ya, core.ada))
     \/ /\ mem' = After(confirmationTag(core.isk, core.sid, core.ya, core.ada)
                        \o <<clone("initiatorAD", core.ada)>>
                        \o SessionCopies(core.isk, "initiatorAD"))
        /\ session' = newSession(core.isk)
        /\ Return("ok")
        /\ UNCHANGED <<role, caller, nc, core, defers>>

Close ==
  /\ pc = "open"
  /\ mem' = clearBytes(mem, wipe("core.clear"))
  /\ core' = Cleared
  /\ Goto("done")
  /\ UNCHANGED <<role, caller, nc, session, defers, out>>

---------------------------------------------------------------------------
(* The public call returns when its last deferred call has run.            *)
Unwind ==
  /\ pc = "unwind"
  /\ IF defers # <<>>
     THEN RunDeferred /\ UNCHANGED pc
     ELSE /\ Goto(IF out = "ok" /\ PersistentSecrets # {} THEN "open" ELSE "done")
          /\ UNCHANGED <<mem, defers, out>>
          /\ UnchangedRefs

(* A call panics instead of returning: everything deferred still runs.     *)
(* The core under construction, or the session, is lost.  Where a function *)
(* merely returns there is no call that could panic.                       *)
Panic ==
  /\ pc \notin {"unwind", "normalized", "leave", "finishLeave"} /\ defers # <<>>
  /\ Return("panic")
  /\ core' = IF "core.clear" \in Range(defers) THEN core ELSE Nothing
  /\ session' = Nothing
  /\ UNCHANGED <<role, mem, caller, nc, defers>>

Next ==
  \/ AcceptInput \/ Handoff \/ Normalized \/ DecodeA \/ Validate
  \/ Generator \/ SampleScalar \/ Share \/ BuildInitiator
  \/ SharedSecret("secret", "derive") \/ BuildResponder
  \/ Leave("leave", "encode") \/ EncodeOpening
  \/ BeginFinish \/ DecodeReply \/ SharedSecret("finishSecret", "finishDerive")
  \/ DeriveInitiator \/ FinishInitiator \/ Leave("finishLeave", "encodeC") \/ EncodeC
  \/ FinishResponder \/ Close
  \/ Unwind \/ Panic

Spec == Init /\ [][Next]_vars

---------------------------------------------------------------------------
AtRest == pc \in {"open", "done"}

(* Whatever a value keeps is its own and is what it should be: the wipes   *)
(* of the shells and of clear() never reach the core's copies, a message,  *)
(* a session or the caller's own slices, and nothing was computed from     *)
(* memory that had already been wiped.                                     *)
KeptIntact ==
  /\ \A s \in CallerSites : mem[s] = "live"
  /\ \A s \in Range(core) \cup Range(session) : mem[s] = "live"
  /\ \A s \in {"message", "messageC"} : mem[s] \in {"none", "live"}

(* When a call has returned, with a result or with an error, the input     *)
(* copies and every secret it made are zero, except the one secret owned   *)
(* by the core or the session.  After a panic this holds for everything    *)
(* the code defers a wipe for; a scalar or ISK that the constructor was    *)
(* about to hand over, and the key of a finished session, are not covered. *)
Owned ==
  {core[f] : f \in PersistentSecrets} \cup (IF session = Nothing THEN {} ELSE {session.isk})

Uncovered ==
  IF out # "panic" THEN {}
  ELSE {"session.isk"} \cup (IF core = Nothing THEN {"scalar", "isk"} ELSE {})

NoSecretLeft ==
  AtRest => \A s \in (Copies \cup Secrets) \ (Owned \cup Uncovered) :
              mem[s] \in {"none", "zero"}
=============================================================================
