--------------------------- MODULE SingleUseState ---------------------------
(***************************************************************************)
(* The shared terminal state behind Initiator and Responder                *)
(* (terminal_state.go) and the public operations that use it               *)
(* (api.go: Finish, Close), at the grain of the mutex, of the read and     *)
(* the write of used, and of the individual writes of core.clear().        *)
(*                                                                         *)
(* Goroutines hold copies of one constructed value and call Finish and     *)
(* Close on them, any number of times and in any interleaving.  The mutex  *)
(* protects the claim only: the winner works on the core, and clears it,   *)
(* after it has released the lock.                                         *)
(***************************************************************************)
CONSTANTS Procs,   \* goroutines
          NoProc   \* nobody holds the mutex

ASSUME NoProcAssumption == NoProc \notin Procs

VARIABLES role,        \* which core the value wraps
          mu,          \* holder of singleUseState.mu
          used,        \* singleUseState.used
          hasCore,     \* singleUseState.core # nil
          secret,      \* the core's persistent secret: scalar, or isk
          transcript,  \* responderCore.transcript (an initiator stores none)
          pc,          \* pc[p]: the next step of p's call
          call,        \* call[p]: operation and, for Finish, its message
          won,         \* won[p]: the claim returned the core to p
          res          \* res[p]: what the call reports

vars == <<role, mu, used, hasCore, secret, transcript, pc, call, won, res>>

Roles == {"initiator", "responder"}

(* What a peer message turns out to be.                                    *)
MessageKinds == {"malformed", "badtag", "good", "badshare"}

Calls == [op : {"Close"}, msg : {"none"}] \cup [op : {"Finish"}, msg : MessageKinds]

FinishVerdicts ==
  {"Session", "WipedSession", "ErrMessage", "ErrAbort", "ErrConfirmationFailed"}

Results == FinishVerdicts \cup {"none", "nil", "ErrStateUsed", "ErrInvalidInput"}

Memory == {"live", "zeroed", "nil"}

Steps == {"idle", "lock", "claim", "take", "unlock", "decode", "verify",
          "session", "zero", "drop", "zeroTranscript", "dropTranscript", "ret"}

(* The two ways a value comes about: newSingleUseState stores a core, and  *)
(* the package's tests build a state that has none.                        *)
Init ==
  /\ role \in Roles
  /\ mu = NoProc
  /\ used = FALSE
  /\ hasCore \in BOOLEAN
  /\ secret = IF hasCore THEN "live" ELSE "nil"
  /\ transcript = IF hasCore /\ role = "responder" THEN "live" ELSE "nil"
  /\ pc = [p \in Procs |-> "idle"]
  /\ call = [p \in Procs |-> [op |-> "Close", msg |-> "none"]]
  /\ won = [p \in Procs |-> FALSE]
  /\ res = [p \in Procs |-> "none"]

Goto(p, l)   == pc' = [pc EXCEPT ![p] = l]
Report(p, r) == res' = [res EXCEPT ![p] = r]

---------------------------------------------------------------------------
(* The call begins on a constructed value: next comes mu.Lock().  Message  *)
(* C, which a responder reads, carries no share.                           *)
Begin(p, c) ==
  /\ pc[p] = "idle"
  /\ c.msg = "badshare" => role = "initiator"
  /\ call' = [call EXCEPT ![p] = c]
  /\ won' = [won EXCEPT ![p] = FALSE]
  /\ Goto(p, "lock")
  /\ Report(p, "none")
  /\ UNCHANGED <<role, mu, used, hasCore, secret, transcript>>

(* The call begins on a nil pointer or a zero value, and ends there.       *)
BeginUninitialized(p, c, handle) ==
  /\ pc[p] = "idle"
  /\ call' = [call EXCEPT ![p] = c]
  /\ won' = [won EXCEPT ![p] = FALSE]
  /\ Goto(p, "ret")
  /\ Report(p, IF handle = "nil" /\ c.op = "Close" THEN "nil" ELSE "ErrInvalidInput")
  /\ UNCHANGED <<role, mu, used, hasCore, secret, transcript>>

LockFreeMutant == TRUE
LockFree == mu = NoProc

Lock(p) ==
  /\ pc[p] = "lock"
  /\ LockFree
  /\ mu' = p
  /\ Goto(p, "claim")
  /\ UNCHANGED <<role, used, hasCore, secret, transcript, call, won, res>>

(* The tests of used and core.  claimFinish and claimClose differ in what  *)
(* a lost claim reports.                                                   *)
Lost(p, r) == Report(p, r) /\ Goto(p, "unlock")

claimFinishMutant(p) ==
  \/ hasCore /\ Goto(p, "take") /\ UNCHANGED res
  \/ ~hasCore /\ Lost(p, "ErrInvalidInput")

claimFinish(p) ==
  \/ used /\ Lost(p, "ErrStateUsed")
  \/ ~used /\ ~hasCore /\ Lost(p, "ErrInvalidInput")
  \/ ~used /\ hasCore /\ Goto(p, "take") /\ UNCHANGED res

claimClose(p) ==
  \/ used /\ Lost(p, "nil")
  \/ ~used /\ ~hasCore /\ Lost(p, "ErrInvalidInput")
  \/ ~used /\ hasCore /\ Goto(p, "take") /\ UNCHANGED res

Claim(p) ==
  /\ pc[p] = "claim"
  /\ \/ call[p].op = "Finish" /\ claimFinish(p)
     \/ call[p].op = "Close" /\ claimClose(p)
  /\ UNCHANGED <<role, mu, used, hasCore, secret, transcript, call, won>>

(* The claim wins: used is set and the core pointer is handed out.  Only   *)
(* the mutex makes this one operation with the tests before it.            *)
Take(p) ==
  /\ pc[p] = "take"
  /\ used' = TRUE
  /\ won' = [won EXCEPT ![p] = TRUE]
  /\ Report(p, IF call[p].op = "Close" THEN "nil" ELSE res[p])
  /\ Goto(p, "unlock")
  /\ UNCHANGED <<role, mu, hasCore, secret, transcript, call>>

(* The deferred mu.Unlock().  A lost claim returns without a core; a       *)
(* winning Close goes on to clear it, a winning Finish to use it.          *)
AfterClaimMutant(p) == IF call[p].op = "Close" THEN "zero" ELSE IF won[p] THEN "decode" ELSE "ret"
AfterClaim(p) ==
  IF ~won[p] THEN "ret" ELSE IF call[p].op = "Close" THEN "zero" ELSE "decode"

UnlockedMutant(p) == IF res[p] = "ErrStateUsed" THEN p ELSE NoProc
Unlocked(p) == NoProc

Unlock(p) ==
  /\ pc[p] = "unlock"
  /\ mu' = Unlocked(p)
  /\ Goto(p, AfterClaim(p))
  /\ UNCHANGED <<role, used, hasCore, secret, transcript, call, won, res>>

---------------------------------------------------------------------------
(* The winning Finish, outside the lock.  Its deferred core.clear() runs   *)
(* on every way out, so every exit leads to "zero".                        *)
FailStep == "zero"

Decode(p) ==
  /\ pc[p] = "decode"
  /\ \/ call[p].msg = "malformed" /\ Report(p, "ErrMessage") /\ Goto(p, FailStep)
     \/ call[p].msg # "malformed" /\ Goto(p, "verify") /\ UNCHANGED res
  /\ UNCHANGED <<role, mu, used, hasCore, secret, transcript, call, won>>

(* The core's secrets are all there to be read.                            *)
CoreIntact == secret = "live" /\ (role = "responder" => transcript = "live")

(* core.finish up to the comparison of the confirmation tags.  Computed    *)
(* from wiped memory, the expected tag matches no peer's.                  *)
Verify(p) ==
  /\ pc[p] = "verify"
  /\ \/ call[p].msg = "badshare" /\ Report(p, "ErrAbort") /\ Goto(p, FailStep)
     \/ /\ call[p].msg # "badshare"
        /\ call[p].msg = "badtag" \/ ~CoreIntact
        /\ Report(p, "ErrConfirmationFailed")
        /\ Goto(p, FailStep)
     \/ call[p].msg = "good" /\ CoreIntact /\ Goto(p, "session") /\ UNCHANGED res
  /\ UNCHANGED <<role, mu, used, hasCore, secret, transcript, call, won>>

(* newSession: the responder reads isk and transcript from its core again; *)
(* the initiator uses the ISK it just derived.                             *)
NewSession(p) ==
  /\ pc[p] = "session"
  /\ Report(p, IF role = "initiator" \/ CoreIntact THEN "Session" ELSE "WipedSession")
  /\ Goto(p, "zero")
  /\ UNCHANGED <<role, mu, used, hasCore, secret, transcript, call, won>>

---------------------------------------------------------------------------
(* core.clear(): zero the bytes, then drop the reference; the responder    *)
(* goes on to its transcript.                                              *)
Zero(p) ==
  /\ pc[p] = "zero"
  /\ secret' = IF secret = "nil" THEN "nil" ELSE "zeroed"
  /\ Goto(p, "drop")
  /\ UNCHANGED <<role, mu, used, hasCore, transcript, call, won, res>>

AfterDropMutant == "ret"
AfterDrop == IF role = "responder" THEN "zeroTranscript" ELSE "ret"

Drop(p) ==
  /\ pc[p] = "drop"
  /\ secret' = "nil"
  /\ Goto(p, AfterDrop)
  /\ UNCHANGED <<role, mu, used, hasCore, transcript, call, won, res>>

ZeroTranscript(p) ==
  /\ pc[p] = "zeroTranscript"
  /\ transcript' = IF transcript = "nil" THEN "nil" ELSE "zeroed"
  /\ Goto(p, "dropTranscript")
  /\ UNCHANGED <<role, mu, used, hasCore, secret, call, won, res>>

DropTranscript(p) ==
  /\ pc[p] = "dropTranscript"
  /\ transcript' = "nil"
  /\ Goto(p, "ret")
  /\ UNCHANGED <<role, mu, used, hasCore, secret, call, won, res>>

Return(p) ==
  /\ pc[p] = "ret"
  /\ Goto(p, "idle")
  /\ UNCHANGED <<role, mu, used, hasCore, secret, transcript, call, won, res>>

---------------------------------------------------------------------------
clear(p) == Zero(p) \/ Drop(p) \/ ZeroTranscript(p) \/ DropTranscript(p)

Step(p) ==
  \/ Lock(p) \/ Claim(p) \/ Take(p) \/ Unlock(p)
  \/ Decode(p) \/ Verify(p) \/ NewSession(p)
  \/ clear(p)
  \/ Return(p)

Next ==
  \E p \in Procs :
    \/ \E c \in Calls : Begin(p, c)
    \/ \E c \in Calls, handle \in {"nil", "zero"} : BeginUninitialized(p, c, handle)
    \/ Step(p)

Spec == Init /\ [][Next]_vars

(* A call in progress keeps running; sync.Mutex hands the lock to a waiter *)
(* that keeps finding it taken (its starvation mode), hence SF for Lock.   *)
(* Nobody is obliged to make a call.                                       *)
FairSpec ==
  /\ Spec
  /\ \A p \in Procs : WF_vars(Step(p)) /\ SF_vars(Lock(p))

---------------------------------------------------------------------------
TypeOK ==
  /\ role \in Roles
  /\ mu \in Procs \cup {NoProc}
  /\ used \in BOOLEAN
  /\ hasCore \in BOOLEAN
  /\ secret \in Memory
  /\ transcript \in Memory
  /\ pc \in [Procs -> Steps]
  /\ call \in [Procs -> Calls]
  /\ won \in [Procs -> BOOLEAN]
  /\ res \in [Procs -> Results]

UsingCore == {"decode", "verify", "session"}
Clearing  == {"zero", "drop", "zeroTranscript", "dropTranscript"}

(* p's claim succeeded and its call has not come to its return yet.        *)
Owns(p) == won[p] /\ pc[p] \in {"unlock"} \cup UsingCore \cup Clearing

Released == secret = "nil" /\ transcript = "nil"

(* At most one goroutine is past a successful claim, whatever the          *)
(* interleaving of Finish and Close on copies of the value: the core,      *)
(* used and cleared outside the mutex (api.go:107, 141), has one owner.    *)
OneOwner ==
  \A p, q \in Procs : Owns(p) /\ Owns(q) => p = q

(* While a Finish is working on the core, no other goroutine's clear() has *)
(* wiped any of it: core.finish never reads zeroed or dropped secrets.     *)
NoReadAfterWipe ==
  \A p \in Procs : pc[p] \in UsingCore => CoreIntact

(* A spent value whose winner has finished holds no secret: clear() ran to *)
(* the end on success, parse failure, bad share and failed confirmation.   *)
SpentIsReleased ==
  used /\ (\A p \in Procs : ~Owns(p)) => Released

(* What a Finish that won the claim reports is determined by its message   *)
(* alone: a Close or Finish racing with it changes nothing.                *)
Verdict(m) ==
  CASE m = "malformed" -> "ErrMessage"
    [] m = "badshare"  -> "ErrAbort"
    [] m = "badtag"    -> "ErrConfirmationFailed"
    [] m = "good"      -> "Session"

VerdictByMessage ==
  \A p \in Procs :
    pc[p] = "ret" /\ won[p] /\ call[p].op = "Finish" => res[p] = Verdict(call[p].msg)

(* An uninitialized value is never consumed, so Finish and Close keep      *)
(* reporting ErrInvalidInput for it (ADR-0008, "does not consume").        *)
UninitializedNeverConsumed == ~hasCore => ~used

(* Every Finish and every Close returns.                                   *)
EveryCallReturns == \A p \in Procs : pc[p] # "idle" ~> pc[p] = "idle"

(* Once some terminal operation has won, the secrets are released for good. *)
SecretsEventuallyReleased == used ~> [](used /\ Released)

---------------------------------------------------------------------------
(* The promise of ADR-0008: SingleUseState implements TerminalOnce.        *)
Phase(p) ==
  IF pc[p] = "idle" THEN "idle"
  ELSE IF pc[p] \in {"lock", "claim", "take"} THEN "pending"
  ELSE IF won[p] THEN "won" ELSE "over"

Once == INSTANCE TerminalOnce WITH
          FinishVerdicts <- FinishVerdicts \ {"WipedSession"},
          ready <- hasCore,
          spent <- used,
          held  <- ~Released,
          phase <- [p \in Procs |-> Phase(p)],
          kind  <- [p \in Procs |-> call[p].op],
          out   <- res

(* Any use of the value is a use the abstract one-shot object allows: one  *)
(* winner ever, losers told so, verdict before release before return.      *)
ImplementsOnce == Once!Spec
=============================================================================
