------------------------------ MODULE Session ------------------------------
(***************************************************************************)
(* A confirmed Session shared by goroutines (session.go).  Copies of the   *)
(* value share one sessionState: a mutex, the closed flag and the ISK.     *)
(* Close and Export hold the mutex for their whole body; every write of    *)
(* Close is a step of its own, as is the derivation that reads the key.    *)
(***************************************************************************)
EXTENDS Integers

CONSTANTS Procs,   \* goroutines
          NoProc,  \* nobody holds the mutex
          Lengths  \* the output lengths callers ask Export for

ASSUME NoProcAssumption  == NoProc \notin Procs
ASSUME LengthsAssumption == Lengths \subseteq Int

VARIABLES mu,             \* holder of sessionState.mu
          closed,         \* sessionState.closed
          isk,            \* the bytes of sessionState.isk
          pc,             \* pc[p]: the next step of p's call
          call,           \* call[p]: the operation, its handle and length
          res,            \* res[p]: what the call reports
          closeReturned,  \* history: a Close of the session has returned
          late            \* history, late[p]: it had when p's call began

vars == <<mu, closed, isk, pc, call, res, closeReturned, late>>

maxHKDFOutput == 255 * 64

(* A handle is the session itself, a nil *Session or a zero Session{}.     *)
Calls == [op : {"Close", "Metadata"}, handle : {"session", "nil", "zero"}, length : {0}]
         \cup [op : {"Export"}, handle : {"session", "nil", "zero"}, length : Lengths]

Memory  == {"live", "zeroed", "nil"}
Steps   == {"idle", "lock", "check", "derive", "zero", "drop", "mark", "unlock", "ret"}
Results == {"none", "nil", "metadata", "key", "wiped key", "ErrInvalidInput", "ErrSessionClosed"}

(* newSession: an open session with its own copy of the ISK.               *)
Init ==
  /\ mu = NoProc
  /\ closed = FALSE
  /\ isk = "live"
  /\ pc = [p \in Procs |-> "idle"]
  /\ call = [p \in Procs |-> [op |-> "Close", handle |-> "nil", length |-> 0]]
  /\ res = [p \in Procs |-> "none"]
  /\ closeReturned = FALSE
  /\ late = [p \in Procs |-> FALSE]

Goto(p, l)   == pc' = [pc EXCEPT ![p] = l]
Report(p, r) == res' = [res EXCEPT ![p] = r]
History      == UNCHANGED <<closeReturned, late>>

---------------------------------------------------------------------------
(* TranscriptID, PeerAssociatedData and PeerID copy fields of the Session  *)
(* value and never lock; a nil *Session has none, a zero one nil slices.   *)
(* Close and Export first turn away the handles that carry no state.       *)
AtOnce(c) ==
  IF c.op = "Metadata" THEN IF c.handle = "session" THEN "metadata" ELSE "nil"
  ELSE IF c.handle = "nil" /\ c.op = "Close" THEN "nil"
  ELSE IF c.handle # "session" THEN "ErrInvalidInput"
  ELSE "none"

Begin(p, c) ==
  /\ pc[p] = "idle"
  /\ call' = [call EXCEPT ![p] = c]
  /\ late' = [late EXCEPT ![p] = closeReturned]
  /\ Report(p, AtOnce(c))
  /\ Goto(p, IF AtOnce(c) = "none" THEN "lock" ELSE "ret")
  /\ UNCHANGED <<mu, closed, isk, closeReturned>>

LockFreeMutant == TRUE
LockFree == mu = NoProc

Lock(p) ==
  /\ pc[p] = "lock"
  /\ LockFree
  /\ mu' = p
  /\ Goto(p, "check")
  /\ UNCHANGED <<closed, isk, call, res>> /\ History

LengthOKMutant(n) == n <= maxHKDFOutput
LengthOK(n) == n >= 0 /\ n <= maxHKDFOutput

(* Under the lock: the flag is looked at first, then Export's length.      *)
CloseCheck(p) ==
  /\ call[p].op = "Close"
  /\ \/ closed /\ Report(p, "nil") /\ Goto(p, "unlock")
     \/ ~closed /\ Goto(p, "zero") /\ UNCHANGED res

ExportCheck(p) ==
  /\ call[p].op = "Export"
  /\ \/ closed /\ Report(p, "ErrSessionClosed") /\ Goto(p, "unlock")
     \/ /\ ~closed
        /\ \/ LengthOK(call[p].length) /\ Goto(p, "derive") /\ UNCHANGED res
           \/ ~LengthOK(call[p].length) /\ Report(p, "ErrInvalidInput") /\ Goto(p, "unlock")

Check(p) ==
  /\ pc[p] = "check"
  /\ CloseCheck(p) \/ ExportCheck(p)
  /\ UNCHANGED <<mu, closed, isk, call>> /\ History

(* crypto/hkdf.Key: panics on a negative length, fails above the maximum,  *)
(* and derives output from whatever key it is given, an empty one too.     *)
hkdfKey(key, length) ==
  IF length < 0 THEN "panic"
  ELSE IF length > maxHKDFOutput THEN "ErrInvalidInput"
  ELSE IF key = "live" THEN "key" ELSE "wiped key"

Derive(p) ==
  /\ pc[p] = "derive"
  /\ Report(p, hkdfKey(isk, call[p].length))
  /\ Goto(p, "unlock")
  /\ UNCHANGED <<mu, closed, isk, call>> /\ History

(* Close: clearBytes(st.isk), st.isk = nil, st.closed = true.              *)
Zero(p) ==
  /\ pc[p] = "zero"
  /\ isk' = IF isk = "nil" THEN "nil" ELSE "zeroed"
  /\ Goto(p, "drop")
  /\ UNCHANGED <<mu, closed, call, res>> /\ History

Drop(p) ==
  /\ pc[p] = "drop"
  /\ isk' = "nil"
  /\ Goto(p, "mark")
  /\ UNCHANGED <<mu, closed, call, res>> /\ History

MarkClosedMutant(p) == UNCHANGED closed
MarkClosed(p) == closed' = TRUE

Mark(p) ==
  /\ pc[p] = "mark"
  /\ MarkClosed(p)
  /\ Report(p, "nil")
  /\ Goto(p, "unlock")
  /\ UNCHANGED <<mu, isk, call>> /\ History

(* The deferred Unlock runs on every way out.                              *)
UnlockedMutant(p) == IF res[p] = "ErrSessionClosed" THEN p ELSE NoProc
Unlocked(p) == NoProc

Unlock(p) ==
  /\ pc[p] = "unlock"
  /\ mu' = Unlocked(p)
  /\ Goto(p, "ret")
  /\ UNCHANGED <<closed, isk, call, res>> /\ History

SharedCall(p, op) == call[p].op = op /\ call[p].handle = "session"

Return(p) ==
  /\ pc[p] = "ret"
  /\ closeReturned' = (closeReturned \/ SharedCall(p, "Close"))
  /\ Goto(p, "idle")
  /\ UNCHANGED <<mu, closed, isk, call, res, late>>

---------------------------------------------------------------------------
Step(p) ==
  \/ Lock(p) \/ Check(p) \/ Derive(p)
  \/ Zero(p) \/ Drop(p) \/ Mark(p)
  \/ Unlock(p) \/ Return(p)

Next == \E p \in Procs : Step(p) \/ \E c \in Calls : Begin(p, c)

Spec == Init /\ [][Next]_vars

(* As in SingleUseState: calls in progress run on, and sync.Mutex does not *)
(* starve a waiter.                                                        *)
FairSpec == Spec /\ \A p \in Procs : WF_vars(Step(p)) /\ SF_vars(Lock(p))

---------------------------------------------------------------------------
(* The type says that a panic is never what a call reports: Export's own   *)
(* length check keeps negative lengths from crypto/hkdf (session.go:85).   *)
TypeOK ==
  /\ mu \in Procs \cup {NoProc}
  /\ closed \in BOOLEAN
  /\ isk \in Memory
  /\ pc \in [Procs -> Steps]
  /\ call \in [Procs -> Calls]
  /\ res \in [Procs -> Results]
  /\ closeReturned \in BOOLEAN
  /\ late \in [Procs -> BOOLEAN]

(* Export never hands out output derived from a zeroed or dropped ISK,     *)
(* whatever Close is doing in another goroutine.  HKDF would accept such a *)
(* key silently, and everybody can compute its output.                     *)
NoExportOfWipedKey == \A p \in Procs : res[p] # "wiped key"

(* When any Close of the session returns, the one that wiped the key or    *)
(* one that found the session closed, the ISK is gone.                     *)
CloseReturnsWiped ==
  \A p \in Procs : pc[p] = "ret" /\ SharedCall(p, "Close") => isk = "nil" /\ closed

(* An Export that begins after a Close has returned reports                *)
(* ErrSessionClosed, even for a length that is itself an error.            *)
CloseIsFinal ==
  \A p \in Procs :
    pc[p] = "ret" /\ SharedCall(p, "Export") /\ late[p] => res[p] = "ErrSessionClosed"

(* Every Close, Export and accessor call returns.                          *)
EveryCallReturns == \A p \in Procs : pc[p] # "idle" ~> pc[p] = "idle"

---------------------------------------------------------------------------
Phase(p) ==
  IF pc[p] = "idle" THEN "idle"
  ELSE IF pc[p] \in {"unlock", "ret"} THEN "over" ELSE "pending"

Handle == INSTANCE SessionHandle WITH
            MaxLength <- maxHKDFOutput,
            open      <- ~closed,
            phase     <- [p \in Procs |-> Phase(p)],
            req       <- [p \in Procs |-> [op |-> call[p].op, length |-> call[p].length]],
            out       <- res

(* Close and Export are linearizable: every behaviour of the lock-based    *)
(* code is one of the atomic session handle.                               *)
ImplementsHandle == Handle!Spec
=============================================================================
