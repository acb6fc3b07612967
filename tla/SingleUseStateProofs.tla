------------------------ MODULE SingleUseStateProofs ------------------------
(***************************************************************************)
(* Proofs about SingleUseState for any set of goroutines and either role.  *)
(* The safety properties are not inductive on their own: that the core is  *)
(* worked on by one goroutine outside the mutex depends on the mutex       *)
(* having ordered the claims, and on what the owner has done so far.       *)
(***************************************************************************)
EXTENDS SingleUseState, TLAPS

(* The mutex is held exactly between Lock and Unlock.                      *)
MutexInv == \A p \in Procs : pc[p] \in {"claim", "take", "unlock"} <=> mu = p

(* One claim succeeds ever; only the call that made it works on the core.  *)
(* A claim succeeds only on a value that has a core, and leaves it used;   *)
(* what it tested still holds when it writes used.                         *)
ClaimInv ==
  /\ \A p, q \in Procs : won[p] /\ won[q] => p = q
  /\ \A p \in Procs : pc[p] \in UsingCore \cup Clearing => won[p]
  /\ \A p \in Procs : pc[p] \in {"lock", "claim", "take"} => ~won[p]
  /\ \A p \in Procs : pc[p] = "take" => ~used /\ hasCore
  /\ \A p \in Procs : won[p] => used
  /\ UninitializedNeverConsumed

(* How much of the core is left, by the owner's position.                  *)
CoreInv ==
  /\ hasCore /\ ~used => CoreIntact
  /\ role = "initiator" => transcript = "nil"
  /\ \A p \in Procs : won[p] /\ pc[p] = "unlock" => CoreIntact
  /\ \A p \in Procs : pc[p] \in UsingCore \cup {"zero"} => CoreIntact
  /\ \A p \in Procs : pc[p] \in {"zeroTranscript", "dropTranscript"} => secret = "nil"
  /\ SpentIsReleased

(* A call has reported nothing before its claim, a winning Close reports   *)
(* nil from then on.                                                       *)
ReportInv ==
  \A p \in Procs :
    /\ pc[p] \in {"lock", "claim", "take"} \cup UsingCore => res[p] = "none"
    /\ won[p] /\ pc[p] = "unlock" => res[p] = IF call[p].op = "Close" THEN "nil" ELSE "none"
    /\ pc[p] \in UsingCore => call[p].op = "Finish"
    /\ pc[p] \in Clearing /\ call[p].op = "Close" => res[p] = "nil"

(* What the winning Finish has found out about its message so far.         *)
VerdictInv ==
  \A p \in Procs : won[p] /\ call[p].op = "Finish" =>
    /\ pc[p] = "verify" => call[p].msg # "malformed"
    /\ pc[p] = "session" => call[p].msg = "good"
    /\ pc[p] \in Clearing \cup {"ret"} => res[p] = Verdict(call[p].msg)

Inv == TypeOK /\ MutexInv /\ ClaimInv /\ CoreInv /\ ReportInv /\ VerdictInv

---------------------------------------------------------------------------
(* Every step of every goroutine keeps the variables within their types.   *)
LEMMA TypeStep == TypeOK /\ [Next]_vars => TypeOK'
<1> SUFFICES ASSUME TypeOK, [Next]_vars PROVE TypeOK'
  OBVIOUS
<1> USE DEF TypeOK, Memory, Steps, Results, FinishVerdicts, Goto, Report
<1>1. CASE UNCHANGED vars
  BY <1>1 DEF vars
<1>2. ASSUME NEW p \in Procs, NEW c \in Calls, Begin(p, c)
      PROVE  TypeOK'
  BY <1>2 DEF Begin
<1>3. ASSUME NEW p \in Procs, NEW c \in Calls, NEW h \in {"nil", "zero"},
             BeginUninitialized(p, c, h)
      PROVE  TypeOK'
  BY <1>3 DEF BeginUninitialized
<1>4. ASSUME NEW p \in Procs, Lock(p) PROVE TypeOK'
  BY <1>4 DEF Lock
<1>5. ASSUME NEW p \in Procs, Claim(p) PROVE TypeOK'
  BY <1>5 DEF Claim, claimFinish, claimClose, Lost
<1>5a. ASSUME NEW p \in Procs, Take(p) PROVE TypeOK'
  BY <1>5a DEF Take
<1>6. ASSUME NEW p \in Procs, Unlock(p) PROVE TypeOK'
  BY <1>6 DEF Unlock, Unlocked, AfterClaim
<1>7. ASSUME NEW p \in Procs, Decode(p) PROVE TypeOK'
  BY <1>7 DEF Decode, FailStep
<1>8. ASSUME NEW p \in Procs, Verify(p) PROVE TypeOK'
  BY <1>8 DEF Verify, FailStep
<1>9. ASSUME NEW p \in Procs, NewSession(p) PROVE TypeOK'
  BY <1>9 DEF NewSession
<1>10. ASSUME NEW p \in Procs, clear(p) PROVE TypeOK'
  BY <1>10 DEF clear, Zero, Drop, ZeroTranscript, DropTranscript, AfterDrop
<1>11. ASSUME NEW p \in Procs, Return(p) PROVE TypeOK'
  BY <1>11 DEF Return
<1> QED
  BY <1>1, <1>2, <1>3, <1>4, <1>5, <1>5a, <1>6, <1>7, <1>8, <1>9, <1>10, <1>11
     DEF Next, Step

(* The initial states have the right type.                                 *)
LEMMA TypeInit == Init => TypeOK
<1> SUFFICES ASSUME Init PROVE TypeOK
  OBVIOUS
<1>1. call \in [Procs -> Calls]
  BY DEF Init, Calls
<1>2. won \in [Procs -> BOOLEAN] /\ used \in BOOLEAN
  BY DEF Init
<1> QED
  BY <1>1, <1>2 DEF Init, TypeOK, Memory, Steps, Results

(* Type correctness of the shared terminal state, for any set of           *)
(* goroutines and either role.                                             *)
THEOREM TypeCorrect == Spec => []TypeOK
BY TypeInit, TypeStep, PTL DEF Spec

---------------------------------------------------------------------------
(* There are two operations.                                               *)
LEMMA OpKinds == TypeOK => \A p \in Procs : call[p].op \in {"Finish", "Close"}
BY DEF TypeOK, Calls

(* The verdict each kind of message deserves.                              *)
LEMMA VerdictTable ==
  /\ Verdict("malformed") = "ErrMessage"
  /\ Verdict("badshare") = "ErrAbort"
  /\ Verdict("badtag") = "ErrConfirmationFailed"
  /\ Verdict("good") = "Session"
BY DEF Verdict

(* Every step preserves the inductive invariant.                           *)
LEMMA InvStep == Inv /\ [Next]_vars => Inv'
<1> SUFFICES ASSUME Inv, [Next]_vars PROVE Inv'
  OBVIOUS
<1>0. TypeOK /\ TypeOK'
  BY TypeStep DEF Inv
<1> USE DEF Goto, Report, UsingCore, Clearing
<1>1. CASE UNCHANGED vars
  <2>1. MutexInv' /\ ReportInv'
    BY <1>1 DEF vars, Inv, MutexInv, ReportInv
  <2>2. ClaimInv'
    BY <1>1 DEF vars, Inv, ClaimInv, UninitializedNeverConsumed
  <2>3. CoreInv'
    BY <1>1 DEF vars, Inv, CoreInv, CoreIntact, SpentIsReleased, Released, Owns
  <2>4. VerdictInv'
    BY <1>1 DEF vars, Inv, VerdictInv
  <2> QED
    BY <1>0, <2>1, <2>2, <2>3, <2>4 DEF Inv
<1>2. ASSUME NEW p \in Procs, NEW c \in Calls, Begin(p, c)
      PROVE  Inv'
  <2>1. MutexInv'
    BY <1>2, <1>0, NoProcAssumption DEF Inv, TypeOK, MutexInv, Begin
  <2>2. ClaimInv'
    BY <1>2, <1>0 DEF Inv, TypeOK, ClaimInv, UninitializedNeverConsumed, Begin
  <2>3. CoreInv'
    BY <1>2, <1>0, NoProcAssumption DEF Inv, Roles, TypeOK, Owns, ClaimInv, CoreInv, CoreIntact,
       SpentIsReleased, Released, UninitializedNeverConsumed, Begin
  <2>4. ReportInv'
    BY <1>2, <1>0 DEF Inv, TypeOK, ClaimInv, ReportInv, Begin
  <2>5. VerdictInv'
    BY <1>2, <1>0 DEF Inv, TypeOK, ClaimInv, VerdictInv, Begin
  <2> QED
    BY <1>0, <2>1, <2>2, <2>3, <2>4, <2>5 DEF Inv
<1>3. ASSUME NEW p \in Procs, NEW c \in Calls, NEW h \in {"nil", "zero"},
             BeginUninitialized(p, c, h)
      PROVE  Inv'
  <2>1. MutexInv'
    BY <1>3, <1>0, NoProcAssumption DEF Inv, TypeOK, MutexInv, BeginUninitialized
  <2>2. ClaimInv'
    BY <1>3, <1>0 DEF Inv, TypeOK, ClaimInv, UninitializedNeverConsumed, BeginUninitialized
  <2>3. CoreInv'
    BY <1>3, <1>0, NoProcAssumption DEF Inv, Roles, TypeOK, Owns, ClaimInv, CoreInv, CoreIntact,
       SpentIsReleased, Released, UninitializedNeverConsumed, BeginUninitialized
  <2>4. ReportInv'
    BY <1>3, <1>0 DEF Inv, TypeOK, ClaimInv, ReportInv, BeginUninitialized
  <2>5. VerdictInv'
    BY <1>3, <1>0 DEF Inv, TypeOK, ClaimInv, VerdictInv, BeginUninitialized
  <2> QED
    BY <1>0, <2>1, <2>2, <2>3, <2>4, <2>5 DEF Inv
<1>4. ASSUME NEW p \in Procs, Lock(p)
      PROVE  Inv'
  <2>1. MutexInv'
    BY <1>4, <1>0, NoProcAssumption DEF Inv, TypeOK, MutexInv, Lock, LockFree
  <2>2. ClaimInv'
    BY <1>4, <1>0 DEF Inv, TypeOK, ClaimInv, UninitializedNeverConsumed, Lock, LockFree
  <2>3. CoreInv'
    BY <1>4, <1>0, NoProcAssumption DEF Inv, Roles, TypeOK, Owns, ClaimInv, CoreInv, CoreIntact,
       SpentIsReleased, Released, UninitializedNeverConsumed, Lock, LockFree
  <2>4. ReportInv'
    BY <1>4, <1>0 DEF Inv, TypeOK, ClaimInv, ReportInv, Lock, LockFree
  <2>5. VerdictInv'
    BY <1>4, <1>0 DEF Inv, TypeOK, ClaimInv, VerdictInv, Lock, LockFree
  <2> QED
    BY <1>0, <2>1, <2>2, <2>3, <2>4, <2>5 DEF Inv
<1>5. ASSUME NEW p \in Procs, Claim(p)
      PROVE  Inv'
  <2>1. MutexInv'
    BY <1>5, <1>0, NoProcAssumption DEF Inv, TypeOK, MutexInv, Claim, claimFinish, claimClose, Lost
  <2>2. ClaimInv'
    BY <1>5, <1>0 DEF Inv, TypeOK, ClaimInv, UninitializedNeverConsumed, Claim, claimFinish,
       claimClose, Lost
  <2>3. CoreInv'
    BY <1>5, <1>0, NoProcAssumption DEF Inv, Roles, TypeOK, Owns, ClaimInv, CoreInv, CoreIntact,
       SpentIsReleased, Released, UninitializedNeverConsumed, Claim, claimFinish, claimClose, Lost
  <2>4. ReportInv'
    BY <1>5, <1>0 DEF Inv, TypeOK, ClaimInv, ReportInv, Claim, claimFinish, claimClose, Lost
  <2>5. VerdictInv'
    BY <1>5, <1>0 DEF Inv, TypeOK, ClaimInv, VerdictInv, Claim, claimFinish, claimClose, Lost
  <2> QED
    BY <1>0, <2>1, <2>2, <2>3, <2>4, <2>5 DEF Inv
<1>5a. ASSUME NEW p \in Procs, Take(p)
      PROVE  Inv'
  <2>1. MutexInv'
    BY <1>5a, <1>0, NoProcAssumption DEF Inv, TypeOK, MutexInv, Take
  <2>2. ClaimInv'
    BY <1>5a, <1>0 DEF Inv, TypeOK, MutexInv, ClaimInv, UninitializedNeverConsumed, Take
  <2>3. CoreInv'
    BY <1>5a, <1>0, NoProcAssumption DEF Inv, Roles, TypeOK, Owns, ClaimInv, CoreInv, CoreIntact,
       SpentIsReleased, Released, UninitializedNeverConsumed, Take
  <2>4. ReportInv'
    BY <1>5a, <1>0 DEF Inv, TypeOK, ClaimInv, ReportInv, Take
  <2>5. VerdictInv'
    <3> SUFFICES ASSUME NEW q \in Procs PROVE VerdictInv!(q)'
      BY DEF VerdictInv
    <3>1. CASE q = p
      BY <1>0, <1>5a, <3>1 DEF TypeOK, Take
    <3>2. CASE q # p
      BY <1>0, <1>5a, <3>2 DEF Inv, VerdictInv, TypeOK, Take
    <3> QED
      BY <3>1, <3>2
  <2> QED
    BY <1>0, <2>1, <2>2, <2>3, <2>4, <2>5 DEF Inv
<1>6. ASSUME NEW p \in Procs, Unlock(p)
      PROVE  Inv'
  <2>1. MutexInv'
    BY <1>6, <1>0, NoProcAssumption DEF Inv, TypeOK, MutexInv, Unlock, Unlocked, AfterClaim
  <2>2. ClaimInv'
    BY <1>6, <1>0 DEF Inv, TypeOK, ClaimInv, UninitializedNeverConsumed, Unlock, Unlocked, AfterClaim
  <2>3. CoreInv'
    BY <1>6, <1>0, NoProcAssumption DEF Inv, Roles, TypeOK, Owns, ClaimInv, CoreInv, CoreIntact,
       SpentIsReleased, Released, UninitializedNeverConsumed, Unlock, Unlocked, AfterClaim
  <2>4. ReportInv'
    <3>1. call[p].op \in {"Finish", "Close"}
      BY <1>0, OpKinds
    <3> QED
      BY <1>6, <1>0, <3>1 DEF Inv, TypeOK, ClaimInv, ReportInv, Unlock, Unlocked, AfterClaim
  <2>5. VerdictInv'
    BY <1>6, <1>0 DEF Inv, TypeOK, ClaimInv, VerdictInv, Unlock, Unlocked, AfterClaim
  <2> QED
    BY <1>0, <2>1, <2>2, <2>3, <2>4, <2>5 DEF Inv
<1>7. ASSUME NEW p \in Procs, Decode(p)
      PROVE  Inv'
  <2>1. MutexInv'
    BY <1>7, <1>0, NoProcAssumption DEF Inv, TypeOK, MutexInv, Decode, FailStep
  <2>2. ClaimInv'
    BY <1>7, <1>0 DEF Inv, TypeOK, ClaimInv, UninitializedNeverConsumed, Decode, FailStep
  <2>3. CoreInv'
    BY <1>7, <1>0, NoProcAssumption DEF Inv, Roles, TypeOK, Owns, ClaimInv, CoreInv, CoreIntact,
       SpentIsReleased, Released, UninitializedNeverConsumed, Decode, FailStep
  <2>4. ReportInv'
    BY <1>7, <1>0 DEF Inv, TypeOK, ClaimInv, ReportInv, Decode, FailStep
  <2>5. VerdictInv'
    BY <1>7, <1>0, VerdictTable DEF Inv, TypeOK, CoreInv, VerdictInv, Decode, FailStep
  <2> QED
    BY <1>0, <2>1, <2>2, <2>3, <2>4, <2>5 DEF Inv
<1>8. ASSUME NEW p \in Procs, Verify(p)
      PROVE  Inv'
  <2>1. MutexInv'
    BY <1>8, <1>0, NoProcAssumption DEF Inv, TypeOK, MutexInv, Verify, FailStep
  <2>2. ClaimInv'
    BY <1>8, <1>0 DEF Inv, TypeOK, ClaimInv, UninitializedNeverConsumed, Verify, FailStep
  <2>3. CoreInv'
    BY <1>8, <1>0, NoProcAssumption DEF Inv, Roles, TypeOK, Owns, ClaimInv, CoreInv, CoreIntact,
       SpentIsReleased, Released, UninitializedNeverConsumed, Verify, FailStep
  <2>4. ReportInv'
    BY <1>8, <1>0 DEF Inv, TypeOK, ClaimInv, ReportInv, Verify, FailStep
  <2>5. VerdictInv'
    BY <1>8, <1>0, VerdictTable DEF Inv, TypeOK, CoreInv, VerdictInv, Verify, FailStep
  <2> QED
    BY <1>0, <2>1, <2>2, <2>3, <2>4, <2>5 DEF Inv
<1>9. ASSUME NEW p \in Procs, NewSession(p)
      PROVE  Inv'
  <2>1. MutexInv'
    BY <1>9, <1>0, NoProcAssumption DEF Inv, TypeOK, MutexInv, NewSession
  <2>2. ClaimInv'
    BY <1>9, <1>0 DEF Inv, TypeOK, ClaimInv, UninitializedNeverConsumed, NewSession
  <2>3. CoreInv'
    BY <1>9, <1>0, NoProcAssumption DEF Inv, Roles, TypeOK, Owns, ClaimInv, CoreInv, CoreIntact,
       SpentIsReleased, Released, UninitializedNeverConsumed, NewSession
  <2>4. ReportInv'
    BY <1>9, <1>0 DEF Inv, TypeOK, ClaimInv, ReportInv, NewSession
  <2>5. VerdictInv'
    BY <1>9, <1>0, VerdictTable DEF Inv, TypeOK, CoreInv, VerdictInv, NewSession
  <2> QED
    BY <1>0, <2>1, <2>2, <2>3, <2>4, <2>5 DEF Inv
<1>10. ASSUME NEW p \in Procs, Zero(p)
      PROVE  Inv'
  <2>1. MutexInv'
    BY <1>10, <1>0, NoProcAssumption DEF Inv, TypeOK, MutexInv, Zero
  <2>2. ClaimInv'
    BY <1>10, <1>0 DEF Inv, TypeOK, ClaimInv, UninitializedNeverConsumed, Zero
  <2>3. CoreInv'
    BY <1>10, <1>0, NoProcAssumption DEF Inv, Roles, TypeOK, Owns, ClaimInv, CoreInv, CoreIntact,
       SpentIsReleased, Released, UninitializedNeverConsumed, Zero
  <2>4. ReportInv'
    BY <1>10, <1>0 DEF Inv, TypeOK, ClaimInv, ReportInv, Zero
  <2>5. VerdictInv'
    BY <1>10, <1>0 DEF Inv, TypeOK, ClaimInv, VerdictInv, Zero
  <2> QED
    BY <1>0, <2>1, <2>2, <2>3, <2>4, <2>5 DEF Inv
<1>11. ASSUME NEW p \in Procs, Drop(p)
      PROVE  Inv'
  <2>1. MutexInv'
    BY <1>11, <1>0, NoProcAssumption DEF Inv, TypeOK, MutexInv, Drop, AfterDrop
  <2>2. ClaimInv'
    BY <1>11, <1>0 DEF Inv, TypeOK, ClaimInv, UninitializedNeverConsumed, Drop, AfterDrop
  <2>3. CoreInv'
    BY <1>11, <1>0, NoProcAssumption DEF Inv, Roles, TypeOK, Owns, ClaimInv, CoreInv, CoreIntact,
       SpentIsReleased, Released, UninitializedNeverConsumed, Drop, AfterDrop
  <2>4. ReportInv'
    BY <1>11, <1>0 DEF Inv, TypeOK, ClaimInv, ReportInv, Drop, AfterDrop
  <2>5. VerdictInv'
    BY <1>11, <1>0 DEF Inv, TypeOK, ClaimInv, VerdictInv, Drop, AfterDrop
  <2> QED
    BY <1>0, <2>1, <2>2, <2>3, <2>4, <2>5 DEF Inv
<1>12. ASSUME NEW p \in Procs, ZeroTranscript(p)
      PROVE  Inv'
  <2>1. MutexInv'
    BY <1>12, <1>0, NoProcAssumption DEF Inv, TypeOK, MutexInv, ZeroTranscript
  <2>2. ClaimInv'
    BY <1>12, <1>0 DEF Inv, TypeOK, ClaimInv, UninitializedNeverConsumed, ZeroTranscript
  <2>3. CoreInv'
    BY <1>12, <1>0, NoProcAssumption DEF Inv, Roles, TypeOK, Owns, ClaimInv, CoreInv, CoreIntact,
       SpentIsReleased, Released, UninitializedNeverConsumed, ZeroTranscript
  <2>4. ReportInv'
    BY <1>12, <1>0 DEF Inv, TypeOK, ClaimInv, ReportInv, ZeroTranscript
  <2>5. VerdictInv'
    BY <1>12, <1>0 DEF Inv, TypeOK, ClaimInv, VerdictInv, ZeroTranscript
  <2> QED
    BY <1>0, <2>1, <2>2, <2>3, <2>4, <2>5 DEF Inv
<1>13. ASSUME NEW p \in Procs, DropTranscript(p)
      PROVE  Inv'
  <2>1. MutexInv'
    BY <1>13, <1>0, NoProcAssumption DEF Inv, TypeOK, MutexInv, DropTranscript
  <2>2. ClaimInv'
    BY <1>13, <1>0 DEF Inv, TypeOK, ClaimInv, UninitializedNeverConsumed, DropTranscript
  <2>3. CoreInv'
    BY <1>13, <1>0, NoProcAssumption DEF Inv, Roles, TypeOK, Owns, ClaimInv, CoreInv, CoreIntact,
       SpentIsReleased, Released, UninitializedNeverConsumed, DropTranscript
  <2>4. ReportInv'
    BY <1>13, <1>0 DEF Inv, TypeOK, ClaimInv, ReportInv, DropTranscript
  <2>5. VerdictInv'
    BY <1>13, <1>0 DEF Inv, TypeOK, ClaimInv, VerdictInv, DropTranscript
  <2> QED
    BY <1>0, <2>1, <2>2, <2>3, <2>4, <2>5 DEF Inv
<1>14. ASSUME NEW p \in Procs, Return(p)
      PROVE  Inv'
  <2>1. MutexInv'
    BY <1>14, <1>0, NoProcAssumption DEF Inv, TypeOK, MutexInv, Return
  <2>2. ClaimInv'
    BY <1>14, <1>0 DEF Inv, TypeOK, ClaimInv, UninitializedNeverConsumed, Return
  <2>3. CoreInv'
    BY <1>14, <1>0, NoProcAssumption DEF Inv, Roles, TypeOK, Owns, ClaimInv, CoreInv, CoreIntact,
       SpentIsReleased, Released, UninitializedNeverConsumed, Return
  <2>4. ReportInv'
    BY <1>14, <1>0 DEF Inv, TypeOK, ClaimInv, ReportInv, Return
  <2>5. VerdictInv'
    BY <1>14, <1>0 DEF Inv, TypeOK, ClaimInv, VerdictInv, Return
  <2> QED
    BY <1>0, <2>1, <2>2, <2>3, <2>4, <2>5 DEF Inv
<1> QED
  BY <1>1, <1>2, <1>3, <1>4, <1>5, <1>5a, <1>6, <1>7, <1>8, <1>9, <1>10, <1>11, <1>12,
     <1>13, <1>14 DEF Next, Step, clear

(* The invariant holds throughout, for any number of goroutines.           *)
THEOREM Invariance == Spec => []Inv
<1>1. ASSUME Init PROVE Inv
  <2>1. TypeOK
    BY <1>1, TypeInit
  <2>2. \A p \in Procs : pc[p] = "idle" /\ won[p] = FALSE
    BY <1>1 DEF Init
  <2>3. MutexInv /\ ReportInv
    BY <1>1, <2>2, NoProcAssumption DEF Init, MutexInv, ReportInv, UsingCore, Clearing
  <2>4. ClaimInv
    BY <1>1, <2>2 DEF Init, ClaimInv, UninitializedNeverConsumed, UsingCore, Clearing
  <2>5. CoreInv
    BY <1>1, <2>2
       DEF Init, CoreInv, CoreIntact, SpentIsReleased, UsingCore
  <2>6. VerdictInv
    BY <2>2 DEF VerdictInv
  <2> QED
    BY <2>1, <2>3, <2>4, <2>5, <2>6 DEF Inv
<1> QED
  BY <1>1, InvStep, PTL DEF Spec

(* Whatever the interleaving of Finish and Close on copies of the value,   *)
(* one goroutine at most is past a successful claim.                       *)
THEOREM OneOwnerAlways == Spec => []OneOwner
<1>1. Inv => OneOwner
  BY DEF Inv, ClaimInv, OneOwner, Owns
<1> QED
  BY <1>1, Invariance, PTL

(* No goroutine's clear() wipes the core under a Finish that is using it.  *)
THEOREM NoReadAfterWipeAlways == Spec => []NoReadAfterWipe
<1>1. Inv => NoReadAfterWipe
  BY DEF Inv, CoreInv, NoReadAfterWipe
<1> QED
  BY <1>1, Invariance, PTL

(* Once the winner is through, a spent value holds no secret.              *)
THEOREM SpentIsReleasedAlways == Spec => []SpentIsReleased
<1>1. Inv => SpentIsReleased
  BY DEF Inv, CoreInv
<1> QED
  BY <1>1, Invariance, PTL

(* A winning Finish reports what its own message deserves.                 *)
THEOREM VerdictByMessageAlways == Spec => []VerdictByMessage
<1>1. Inv => VerdictByMessage
  BY DEF Inv, VerdictInv, VerdictByMessage
<1> QED
  BY <1>1, Invariance, PTL

(* A value without a core is never marked used.                            *)
THEOREM UninitializedNeverConsumedAlways == Spec => []UninitializedNeverConsumed
<1>1. Inv => UninitializedNeverConsumed
  BY DEF Inv, ClaimInv
<1> QED
  BY <1>1, Invariance, PTL

---------------------------------------------------------------------------
(* Refinement: the initial states are initial states of the one-shot       *)
(* object.                                                                 *)
LEMMA OnceInit == Init => Once!Init
BY DEF Init, Roles, Once!Init, Phase, Released

(* Every step is one step of the one-shot object taken by the same         *)
(* goroutine, or invisible to its callers: Claim loses or rejects, Take    *)
(* wins, Decode, Verify or NewSession finds the verdict, the last write of *)
(* clear() releases.                                                       *)
LEMMA OnceStep == Inv /\ [Next]_vars => [Once!Next]_(Once!vars)
<1> SUFFICES ASSUME Inv, [Next]_vars PROVE Once!Next \/ UNCHANGED Once!vars
  OBVIOUS
<1>0. TypeOK
  BY DEF Inv
<1> USE DEF Goto, Report
<1>1. CASE UNCHANGED vars
  BY <1>1 DEF vars, Once!vars, Phase, Released
<1>2. ASSUME NEW p \in Procs, NEW c \in Calls, Begin(p, c)
      PROVE  Once!Next
  <2>1. Once!Invoke(p, c.op)
    BY <1>2, <1>0 DEF TypeOK, Begin, Once!Invoke, Phase, Released
  <2>2. c.op \in Once!Kinds
    BY DEF Calls, Once!Kinds
  <2> QED
    BY <2>1, <2>2 DEF Once!Next
<1>3. ASSUME NEW p \in Procs, NEW c \in Calls, NEW h \in {"nil", "zero"},
             BeginUninitialized(p, c, h)
      PROVE  Once!Next
  <2> DEFINE r == IF h = "nil" /\ c.op = "Close" THEN "nil" ELSE "ErrInvalidInput"
  <2>1. Once!InvokeElsewhere(p, c.op, r)
    BY <1>3, <1>0 DEF TypeOK, BeginUninitialized, Once!InvokeElsewhere, Phase, Released
  <2>2. c.op \in Once!Kinds /\ r \in {"nil", "ErrInvalidInput"}
    BY DEF Calls, Once!Kinds
  <2> QED
    BY <2>1, <2>2 DEF Once!Next
<1>4. ASSUME NEW p \in Procs, Lock(p) PROVE UNCHANGED Once!vars
  BY <1>4, <1>0 DEF TypeOK, Lock, Once!vars, Phase, Released
<1>5. ASSUME NEW p \in Procs, Claim(p) PROVE Once!Next \/ UNCHANGED Once!vars
  <2>1. CASE pc' = [pc EXCEPT ![p] = "take"] /\ UNCHANGED res
    BY <1>5, <1>0, <2>1 DEF TypeOK, Claim, Once!vars, Phase, Released
  <2>2. CASE \E r \in Results : Lost(p, r)
    <3>1. Once!Lose(p) \/ Once!Reject(p)
      BY <1>5, <1>0, <2>2, OpKinds, ZenonT(60) DEF Inv, TypeOK, ClaimInv, Claim, claimFinish, claimClose,
         Lost, Once!Lose, Once!Reject, Phase, Released
    <3> QED
      BY <3>1 DEF Once!Next
  <2> QED
    BY <1>5, <2>1, <2>2 DEF Claim, claimFinish, claimClose, Results
<1>5a. ASSUME NEW p \in Procs, Take(p) PROVE Once!Next
  <2>1. Once!Win(p)
    BY <1>5a, <1>0, OpKinds DEF Inv, TypeOK, ClaimInv, ReportInv, Take, Once!Win, Phase, Released
  <2> QED
    BY <2>1 DEF Once!Next
<1>6. ASSUME NEW p \in Procs, Unlock(p) PROVE UNCHANGED Once!vars
  BY <1>6, <1>0 DEF TypeOK, Unlock, AfterClaim, Once!vars, Phase, Released
<1> DEFINE Verdicts(p) == \E v \in FinishVerdicts \ {"WipedSession"} : Once!Decide(p, v)
<1>7. ASSUME NEW p \in Procs, Decode(p) PROVE Verdicts(p) \/ UNCHANGED Once!vars
  <2>1. CASE call[p].msg = "malformed"
    <3>1. Once!Decide(p, "ErrMessage")
      BY <1>7, <1>0, <2>1 DEF Inv, TypeOK, ClaimInv, CoreInv, CoreIntact, ReportInv, UsingCore,
         Decode, FailStep, Once!Decide, Phase, Released
    <3> QED
      BY <3>1 DEF FinishVerdicts
  <2>2. CASE call[p].msg # "malformed"
    BY <1>7, <1>0, <2>2 DEF TypeOK, Decode, Once!vars, Phase, Released
  <2> QED
    BY <2>1, <2>2
<1>8. ASSUME NEW p \in Procs, Verify(p) PROVE Verdicts(p) \/ UNCHANGED Once!vars
  <2>1. CASE res' = res
    BY <1>8, <1>0, <2>1 DEF Inv, ClaimInv, UsingCore, Clearing, FailStep, TypeOK, Verify,
       Once!vars, Phase, Released
  <2>2. ASSUME NEW v \in {"ErrAbort", "ErrConfirmationFailed"}, res' = [res EXCEPT ![p] = v],
               pc' = [pc EXCEPT ![p] = FailStep]
        PROVE  Once!Decide(p, v)
    BY <1>8, <1>0, <2>2 DEF Inv, TypeOK, ClaimInv, CoreInv, CoreIntact, ReportInv, UsingCore,
       Verify, FailStep, Once!Decide, Phase, Released
  <2> QED
    BY <1>8, <2>1, <2>2 DEF Verify, FinishVerdicts
<1>9. ASSUME NEW p \in Procs, NewSession(p) PROVE Verdicts(p)
  <2>1. Once!Decide(p, "Session")
    BY <1>9, <1>0 DEF Inv, TypeOK, ClaimInv, CoreInv, CoreIntact, ReportInv, UsingCore,
       NewSession, Once!Decide, Phase, Released
  <2> QED
    BY <2>1 DEF FinishVerdicts
<1>10. ASSUME NEW p \in Procs, clear(p) PROVE Once!Release(p) \/ UNCHANGED Once!vars
  <2>1. won[p] /\ res[p] # "none" /\ pc[p] \in Clearing
    <3>1. pc[p] \in Clearing
      BY <1>10 DEF clear, Zero, Drop, ZeroTranscript, DropTranscript, Clearing
    <3>2. won[p]
      BY <3>1 DEF Inv, ClaimInv
    <3>3. CASE call[p].op = "Close"
      BY <3>1, <3>2, <3>3 DEF Inv, ReportInv
    <3>4. CASE call[p].op = "Finish"
      <4>1. res[p] = Verdict(call[p].msg)
        BY <3>1, <3>2, <3>4 DEF Inv, VerdictInv
      <4>2. call[p].msg \in {"malformed", "badshare", "badtag", "good"}
        BY <1>0, <3>4 DEF TypeOK, Calls, MessageKinds
      <4> QED
        BY <3>1, <3>2, <4>1, <4>2, VerdictTable
    <3> QED
      BY <1>0, <3>3, <3>4, OpKinds
  <2>2. /\ pc'[p] \in Clearing \cup {"ret"}
        /\ \A q \in Procs : q # p => pc'[q] = pc[q]
        /\ pc' \in [Procs -> Steps]
        /\ UNCHANGED <<role, hasCore, used, won, call, res>>
    BY <1>10, <1>0 DEF TypeOK, Steps, clear, Zero, Drop, ZeroTranscript, DropTranscript,
       AfterDrop, Clearing
  <2>3. [q \in Procs |-> Phase(q)]' = [q \in Procs |-> Phase(q)]
    BY <2>1, <2>2, <1>0 DEF Phase, TypeOK, Clearing
  <2>4. Released => Released'
    BY <1>10 DEF Released, clear, Zero, Drop, ZeroTranscript, DropTranscript
  <2>5. Phase(p) = "won"
    BY <2>1 DEF Phase, Clearing
  <2>6. CASE ~Released /\ Released'
    BY <2>1, <2>2, <2>3, <2>5, <2>6 DEF Once!Release
  <2>7. CASE Released' = Released
    BY <2>2, <2>3, <2>7 DEF Once!vars
  <2> QED
    BY <2>4, <2>6, <2>7 DEF Released
<1>11. ASSUME NEW p \in Procs, Return(p) PROVE Once!Return(p)
  <2>1. won[p] => Released
    BY <1>11 DEF Inv, ClaimInv, CoreInv, SpentIsReleased, Owns, Return, UsingCore, Clearing
  <2> QED
    BY <1>11, <1>0, <2>1 DEF TypeOK, Return, Once!Return, Phase, Released
<1> QED
  BY <1>1, <1>2, <1>3, <1>4, <1>5, <1>5a, <1>6, <1>7, <1>8, <1>9, <1>10, <1>11
     DEF Next, Step, Once!Next

(* Finish and Close on copies of a value are uses of the one-shot object   *)
(* of ADR-0008: linearizable, with one winner ever.                        *)
THEOREM ImplementsOnceAlways == Spec => ImplementsOnce
BY OnceInit, OnceStep, Invariance, PTL DEF Spec, ImplementsOnce, Once!Spec
=============================================================================
