--------------------------- MODULE SessionProofs ---------------------------
(***************************************************************************)
(* Proofs about Session for any set of goroutines and any set of requested *)
(* lengths.  Everything rests on the mutex: between Lock and Unlock a call *)
(* is alone, so what it saw of the flag is still true when it acts on it.  *)
(***************************************************************************)
EXTENDS Session, TLAPS

Locked == {"check", "derive", "zero", "drop", "mark", "unlock"}

(* The mutex is held exactly between Lock and Unlock.                      *)
MutexInv == \A p \in Procs : pc[p] \in Locked <=> mu = p

(* Only Close and Export of the session itself get as far as the lock.     *)
OpInv ==
  \A p \in Procs :
    /\ pc[p] \in Locked \cup {"lock"} => call[p].handle = "session" /\ call[p].op # "Metadata"
    /\ pc[p] = "derive" => call[p].op = "Export" /\ LengthOK(call[p].length)
    /\ pc[p] \in {"zero", "drop", "mark"} => call[p].op = "Close"

(* The flag, the key, and where the holder of the lock stands.             *)
KeyInv ==
  /\ closed => isk = "nil"
  /\ \A p \in Procs : pc[p] \in {"derive", "zero", "drop", "mark"} => ~closed
  /\ \A p \in Procs : pc[p] = "mark" => isk = "nil"
  /\ ~closed /\ (\A p \in Procs : pc[p] \notin {"drop", "mark"}) => isk = "live"

(* A Close that got through, or has returned, left the flag set, and an    *)
(* Export that began after that found it so.                               *)
FinalInv ==
  /\ closeReturned => closed
  /\ \A p \in Procs : late[p] => closed
  /\ \A p \in Procs : pc[p] \in {"unlock", "ret"} /\ SharedCall(p, "Close") => closed
  /\ \A p \in Procs : pc[p] \in {"unlock", "ret"} /\ SharedCall(p, "Export") /\ late[p] =>
       res[p] = "ErrSessionClosed"

(* A call has reported nothing before it takes effect.                     *)
ReportInv ==
  /\ \A p \in Procs : pc[p] \in {"lock", "check", "derive", "zero", "drop", "mark"} => res[p] = "none"
  /\ NoExportOfWipedKey

Inv == TypeOK /\ MutexInv /\ OpInv /\ KeyInv /\ FinalInv /\ ReportInv

---------------------------------------------------------------------------
(* Every call names an operation and an integer length.                    *)
LEMMA CallFields ==
  TypeOK => \A p \in Procs : /\ call[p].op \in {"Close", "Metadata", "Export"}
                             /\ call[p].length \in Int
<1> SUFFICES ASSUME TypeOK, NEW p \in Procs
             PROVE  /\ call[p].op \in {"Close", "Metadata", "Export"}
                    /\ call[p].length \in Int
  OBVIOUS
<1>1. call[p] \in Calls
  BY DEF TypeOK
<1>2. CASE call[p] \in [op : {"Close", "Metadata"}, handle : {"session", "nil", "zero"}, length : {0}]
  BY <1>2
<1>3. CASE call[p] \in [op : {"Export"}, handle : {"session", "nil", "zero"}, length : Lengths]
  BY <1>3, LengthsAssumption
<1> QED
  BY <1>1, <1>2, <1>3 DEF Calls

(* The initial state satisfies the invariant.                              *)
LEMMA InvInit == Init => Inv
<1> SUFFICES ASSUME Init PROVE Inv
  OBVIOUS
<1>1. \A p \in Procs : pc[p] = "idle" /\ late[p] = FALSE /\ res[p] = "none"
  BY DEF Init
<1>2. TypeOK
  <2>1. call \in [Procs -> Calls]
    BY DEF Init, Calls
  <2>2. late \in [Procs -> BOOLEAN] /\ closed \in BOOLEAN /\ closeReturned \in BOOLEAN
    BY DEF Init
  <2> QED
    BY <2>1, <2>2 DEF Init, TypeOK, Memory, Steps, Results
<1>3. MutexInv /\ OpInv
  BY <1>1, NoProcAssumption DEF Init, MutexInv, OpInv, Locked
<1>4. KeyInv /\ FinalInv
  BY <1>1 DEF Init, KeyInv, FinalInv
<1>5. ReportInv
  BY <1>1 DEF ReportInv, NoExportOfWipedKey
<1> QED
  BY <1>2, <1>3, <1>4, <1>5 DEF Inv

(* Every step preserves it.                                                *)
LEMMA InvStep == Inv /\ [Next]_vars => Inv'
<1> SUFFICES ASSUME Inv, [Next]_vars PROVE Inv'
  OBVIOUS
<1>0. /\ TypeOK /\ MutexInv /\ OpInv /\ KeyInv /\ FinalInv /\ ReportInv
      /\ \A p \in Procs : /\ call[p].op \in {"Close", "Metadata", "Export"}
                          /\ call[p].length \in Int
  BY CallFields DEF Inv
<1> USE DEF Goto, Report, History, Locked
<1>1. CASE UNCHANGED vars
  <2>1. TypeOK' /\ MutexInv' /\ OpInv'
    BY <1>0, <1>1 DEF vars, TypeOK, MutexInv, OpInv
  <2>2. KeyInv' /\ FinalInv' /\ ReportInv'
    BY <1>0, <1>1 DEF vars, KeyInv, FinalInv, SharedCall, ReportInv, NoExportOfWipedKey
  <2> QED
    BY <2>1, <2>2 DEF Inv
<1>2. ASSUME NEW p \in Procs, NEW c \in Calls, Begin(p, c)
      PROVE  Inv'
  <2>1. TypeOK'
    BY <1>2, <1>0 DEF TypeOK, OpInv, LengthOK, Memory, Steps, Results, Begin, AtOnce
  <2>2. MutexInv'
    BY <1>2, <1>0, NoProcAssumption DEF TypeOK, MutexInv, Begin, AtOnce
  <2>3. OpInv'
    BY <1>2, <1>0 DEF TypeOK, OpInv, Begin, AtOnce
  <2>4. KeyInv'
    BY <1>2, <1>0 DEF TypeOK, MutexInv, KeyInv, Begin, AtOnce
  <2>5. FinalInv'
    BY <1>2, <1>0 DEF TypeOK, OpInv, KeyInv, FinalInv, SharedCall, Begin, AtOnce
  <2>6. ReportInv'
    BY <1>2, <1>0, ZenonT(60) DEF TypeOK, MutexInv, KeyInv, ReportInv, NoExportOfWipedKey, Begin, AtOnce
  <2> QED
    BY <2>1, <2>2, <2>3, <2>4, <2>5, <2>6 DEF Inv
<1>3. ASSUME NEW p \in Procs, Lock(p)
      PROVE  Inv'
  <2>1. TypeOK'
    BY <1>3, <1>0 DEF TypeOK, OpInv, LengthOK, Memory, Steps, Results, Lock, LockFree
  <2>2. MutexInv'
    BY <1>3, <1>0, NoProcAssumption DEF TypeOK, MutexInv, Lock, LockFree
  <2>3. OpInv'
    BY <1>3, <1>0 DEF TypeOK, OpInv, Lock, LockFree
  <2>4. KeyInv'
    BY <1>3, <1>0 DEF TypeOK, MutexInv, KeyInv, Lock, LockFree
  <2>5. FinalInv'
    BY <1>3, <1>0 DEF TypeOK, OpInv, KeyInv, FinalInv, SharedCall, Lock, LockFree
  <2>6. ReportInv'
    BY <1>3, <1>0 DEF TypeOK, MutexInv, KeyInv, ReportInv, NoExportOfWipedKey, Lock, LockFree
  <2> QED
    BY <2>1, <2>2, <2>3, <2>4, <2>5, <2>6 DEF Inv
<1>4. ASSUME NEW p \in Procs, Check(p)
      PROVE  Inv'
  <2>1. TypeOK'
    BY <1>4, <1>0, ZenonT(60) DEF TypeOK, OpInv, LengthOK, Memory, Steps, Results, Check, CloseCheck, ExportCheck
  <2>2. MutexInv'
    BY <1>4, <1>0, NoProcAssumption DEF TypeOK, MutexInv, Check, CloseCheck, ExportCheck
  <2>3. OpInv'
    BY <1>4, <1>0 DEF TypeOK, OpInv, Check, CloseCheck, ExportCheck
  <2>4. KeyInv'
    BY <1>4, <1>0 DEF TypeOK, MutexInv, KeyInv, Check, CloseCheck, ExportCheck
  <2>5. FinalInv'
    BY <1>4, <1>0 DEF TypeOK, OpInv, KeyInv, FinalInv, SharedCall, Check, CloseCheck, ExportCheck
  <2>6. ReportInv'
    <3>1. \A q \in Procs : q # p => pc'[q] = pc[q] /\ res'[q] = res[q]
      BY <1>4, <1>0 DEF TypeOK, Check, CloseCheck, ExportCheck
    <3>2. /\ (pc'[p] \in {"zero", "derive"} /\ res'[p] = res[p]) \/ pc'[p] = "unlock"
          /\ res'[p] # "wiped key"
      <4>1. CASE CloseCheck(p)
        BY <1>4, <1>0, <4>1 DEF TypeOK, ReportInv, NoExportOfWipedKey, Check, CloseCheck
      <4>2. CASE ExportCheck(p)
        BY <1>4, <1>0, <4>2 DEF TypeOK, ReportInv, NoExportOfWipedKey, Check, ExportCheck
      <4> QED
        BY <1>4, <4>1, <4>2 DEF Check
    <3>3. res[p] = "none"
      BY <1>4, <1>0 DEF ReportInv, Check
    <3>4. \A q \in Procs : res'[q] # "wiped key"
      BY <1>0, <3>1, <3>2 DEF ReportInv, NoExportOfWipedKey
    <3>5. \A q \in Procs :
            pc'[q] \in {"lock", "check", "derive", "zero", "drop", "mark"} => res'[q] = "none"
      BY <1>0, <3>1, <3>2, <3>3 DEF ReportInv
    <3> QED
      BY <3>4, <3>5 DEF ReportInv, NoExportOfWipedKey
  <2> QED
    BY <2>1, <2>2, <2>3, <2>4, <2>5, <2>6 DEF Inv
<1>5. ASSUME NEW p \in Procs, Derive(p)
      PROVE  Inv'
  <2>1. TypeOK'
    <3>1. hkdfKey(isk, call[p].length) \in {"key", "wiped key"}
      <4>1. LengthOK(call[p].length) /\ call[p].length \in Int
        BY <1>5, <1>0 DEF OpInv, Derive
      <4> QED
        BY <4>1 DEF LengthOK, hkdfKey, maxHKDFOutput
    <3> QED
      BY <1>5, <1>0, <3>1 DEF TypeOK, Steps, Results, Derive
  <2>2. MutexInv'
    BY <1>5, <1>0, NoProcAssumption DEF TypeOK, MutexInv, Derive, hkdfKey
  <2>3. OpInv'
    BY <1>5, <1>0 DEF TypeOK, OpInv, Derive, hkdfKey
  <2>4. KeyInv'
    BY <1>5, <1>0 DEF TypeOK, MutexInv, KeyInv, Derive, hkdfKey
  <2>5. FinalInv'
    BY <1>5, <1>0 DEF TypeOK, OpInv, KeyInv, FinalInv, SharedCall, Derive, hkdfKey
  <2>6. ReportInv'
    BY <1>5, <1>0, ZenonT(60) DEF TypeOK, MutexInv, KeyInv, ReportInv, NoExportOfWipedKey, Derive, hkdfKey
  <2> QED
    BY <2>1, <2>2, <2>3, <2>4, <2>5, <2>6 DEF Inv
<1>6. ASSUME NEW p \in Procs, Zero(p)
      PROVE  Inv'
  <2>1. TypeOK'
    BY <1>6, <1>0 DEF TypeOK, OpInv, LengthOK, Memory, Steps, Results, Zero
  <2>2. MutexInv'
    BY <1>6, <1>0, NoProcAssumption DEF TypeOK, MutexInv, Zero
  <2>3. OpInv'
    BY <1>6, <1>0 DEF TypeOK, OpInv, Zero
  <2>4. KeyInv'
    BY <1>6, <1>0 DEF TypeOK, MutexInv, KeyInv, Zero
  <2>5. FinalInv'
    BY <1>6, <1>0 DEF TypeOK, OpInv, KeyInv, FinalInv, SharedCall, Zero
  <2>6. ReportInv'
    BY <1>6, <1>0 DEF TypeOK, MutexInv, KeyInv, ReportInv, NoExportOfWipedKey, Zero
  <2> QED
    BY <2>1, <2>2, <2>3, <2>4, <2>5, <2>6 DEF Inv
<1>7. ASSUME NEW p \in Procs, Drop(p)
      PROVE  Inv'
  <2>1. TypeOK'
    BY <1>7, <1>0 DEF TypeOK, OpInv, LengthOK, Memory, Steps, Results, Drop
  <2>2. MutexInv'
    BY <1>7, <1>0, NoProcAssumption DEF TypeOK, MutexInv, Drop
  <2>3. OpInv'
    BY <1>7, <1>0 DEF TypeOK, OpInv, Drop
  <2>4. KeyInv'
    BY <1>7, <1>0 DEF TypeOK, MutexInv, KeyInv, Drop
  <2>5. FinalInv'
    BY <1>7, <1>0 DEF TypeOK, OpInv, KeyInv, FinalInv, SharedCall, Drop
  <2>6. ReportInv'
    BY <1>7, <1>0 DEF TypeOK, MutexInv, KeyInv, ReportInv, NoExportOfWipedKey, Drop
  <2> QED
    BY <2>1, <2>2, <2>3, <2>4, <2>5, <2>6 DEF Inv
<1>8. ASSUME NEW p \in Procs, Mark(p)
      PROVE  Inv'
  <2>1. TypeOK'
    BY <1>8, <1>0 DEF TypeOK, OpInv, LengthOK, Memory, Steps, Results, Mark, MarkClosed
  <2>2. MutexInv'
    BY <1>8, <1>0, NoProcAssumption DEF TypeOK, MutexInv, Mark, MarkClosed
  <2>3. OpInv'
    BY <1>8, <1>0 DEF TypeOK, OpInv, Mark, MarkClosed
  <2>4. KeyInv'
    BY <1>8, <1>0 DEF TypeOK, MutexInv, KeyInv, Mark, MarkClosed
  <2>5. FinalInv'
    BY <1>8, <1>0 DEF TypeOK, OpInv, KeyInv, FinalInv, SharedCall, Mark, MarkClosed
  <2>6. ReportInv'
    BY <1>8, <1>0 DEF TypeOK, MutexInv, KeyInv, ReportInv, NoExportOfWipedKey, Mark, MarkClosed
  <2> QED
    BY <2>1, <2>2, <2>3, <2>4, <2>5, <2>6 DEF Inv
<1>9. ASSUME NEW p \in Procs, Unlock(p)
      PROVE  Inv'
  <2>1. TypeOK'
    BY <1>9, <1>0 DEF TypeOK, OpInv, LengthOK, Memory, Steps, Results, Unlock, Unlocked
  <2>2. MutexInv'
    BY <1>9, <1>0, NoProcAssumption DEF TypeOK, MutexInv, Unlock, Unlocked
  <2>3. OpInv'
    BY <1>9, <1>0 DEF TypeOK, OpInv, Unlock, Unlocked
  <2>4. KeyInv'
    BY <1>9, <1>0 DEF TypeOK, MutexInv, KeyInv, Unlock, Unlocked
  <2>5. FinalInv'
    BY <1>9, <1>0 DEF TypeOK, OpInv, KeyInv, FinalInv, SharedCall, Unlock, Unlocked
  <2>6. ReportInv'
    BY <1>9, <1>0 DEF TypeOK, MutexInv, KeyInv, ReportInv, NoExportOfWipedKey, Unlock, Unlocked
  <2> QED
    BY <2>1, <2>2, <2>3, <2>4, <2>5, <2>6 DEF Inv
<1>10. ASSUME NEW p \in Procs, Return(p)
      PROVE  Inv'
  <2>1. TypeOK'
    BY <1>10, <1>0 DEF TypeOK, OpInv, LengthOK, Memory, Steps, Results, Return
  <2>2. MutexInv'
    BY <1>10, <1>0, NoProcAssumption DEF TypeOK, MutexInv, Return
  <2>3. OpInv'
    BY <1>10, <1>0 DEF TypeOK, OpInv, Return
  <2>4. KeyInv'
    BY <1>10, <1>0 DEF TypeOK, MutexInv, KeyInv, Return
  <2>5. FinalInv'
    BY <1>10, <1>0 DEF TypeOK, OpInv, KeyInv, FinalInv, SharedCall, Return
  <2>6. ReportInv'
    BY <1>10, <1>0 DEF TypeOK, MutexInv, KeyInv, ReportInv, NoExportOfWipedKey, Return
  <2> QED
    BY <2>1, <2>2, <2>3, <2>4, <2>5, <2>6 DEF Inv
<1> QED
  BY <1>1, <1>2, <1>3, <1>4, <1>5, <1>6, <1>7, <1>8, <1>9, <1>10 DEF Next, Step

(* The invariant holds throughout.                                         *)
THEOREM Invariance == Spec => []Inv
BY InvInit, InvStep, PTL DEF Spec

(* Types, and with them that Export never panics, for every set of         *)
(* requested lengths.                                                      *)
THEOREM TypeCorrect == Spec => []TypeOK
<1>1. Inv => TypeOK
  BY DEF Inv
<1> QED
  BY <1>1, Invariance, PTL

(* No Export ever derives from a zeroed or dropped ISK.                    *)
THEOREM NoExportOfWipedKeyAlways == Spec => []NoExportOfWipedKey
<1>1. Inv => NoExportOfWipedKey
  BY DEF Inv, ReportInv
<1> QED
  BY <1>1, Invariance, PTL

(* Whichever Close returns, the ISK is gone.                               *)
THEOREM CloseReturnsWipedAlways == Spec => []CloseReturnsWiped
<1>1. Inv => CloseReturnsWiped
  BY DEF Inv, FinalInv, KeyInv, CloseReturnsWiped
<1> QED
  BY <1>1, Invariance, PTL

(* After a Close has returned, every new Export reports ErrSessionClosed.  *)
THEOREM CloseIsFinalAlways == Spec => []CloseIsFinal
<1>1. Inv => CloseIsFinal
  BY DEF Inv, FinalInv, CloseIsFinal
<1> QED
  BY <1>1, Invariance, PTL

---------------------------------------------------------------------------
(* Refinement: the initial state maps to the initial state of the handle.  *)
LEMMA HandleInit == Init => Handle!Init
BY DEF Init, Handle!Init, Phase

(* What a call asks for is a request of the handle.                        *)
LEMMA RequestOf ==
  ASSUME NEW c \in Calls
  PROVE  [op |-> c.op, length |-> c.length] \in Handle!Requests
<1>1. CASE c \in [op : {"Close", "Metadata"}, handle : {"session", "nil", "zero"}, length : {0}]
  BY <1>1 DEF Handle!Requests
<1>2. CASE c \in [op : {"Export"}, handle : {"session", "nil", "zero"}, length : Lengths]
  BY <1>2 DEF Handle!Requests
<1> QED
  BY <1>1, <1>2 DEF Calls

(* The length check is the range of lengths HKDF-SHA512 can produce, and   *)
(* within it a live key gives output.                                      *)
LEMMA LengthRange ==
  /\ \A n \in Int : LengthOK(n) <=> n \in 0 .. maxHKDFOutput
  /\ \A n \in 0 .. maxHKDFOutput : hkdfKey("live", n) = "key"
<1>1. ASSUME NEW n \in Int PROVE LengthOK(n) <=> n \in 0 .. maxHKDFOutput
  BY SMTT(60) DEF LengthOK, maxHKDFOutput
<1>2. ASSUME NEW n \in 0 .. maxHKDFOutput PROVE hkdfKey("live", n) = "key"
  BY DEF hkdfKey, maxHKDFOutput
<1> QED
  BY <1>1, <1>2

(* Every step is a step of the handle by the same goroutine, or invisible: *)
(* Export takes effect at the check that fails it or at the derivation,    *)
(* Close when it finds or sets the flag.                                   *)
LEMMA HandleStep == Inv /\ [Next]_vars => [Handle!Next]_(Handle!vars)
<1> SUFFICES ASSUME Inv, [Next]_vars PROVE Handle!Next \/ UNCHANGED Handle!vars
  OBVIOUS
<1>0. /\ TypeOK /\ OpInv /\ KeyInv
      /\ \A p \in Procs : /\ call[p].op \in {"Close", "Metadata", "Export"}
                          /\ call[p].length \in Int
  BY CallFields DEF Inv
<1> USE DEF Goto, Report, History
<1>1. CASE UNCHANGED vars
  BY <1>1 DEF vars, Handle!vars, Phase
<1>2. ASSUME NEW p \in Procs, NEW c \in Calls, Begin(p, c) PROVE Handle!Next
  <2> DEFINE r == [op |-> c.op, length |-> c.length]
  <2>1. r \in Handle!Requests
    BY RequestOf
  <2>2. CASE AtOnce(c) = "none"
    <3>1. c.op # "Metadata"
      BY <2>2 DEF AtOnce
    <3>2. Handle!Invoke(p, r)
      BY <1>0, <1>2, <2>2, <3>1 DEF TypeOK, Begin, Handle!Invoke, Phase
    <3> QED
      BY <2>1, <3>2 DEF Handle!Next
  <2>3. CASE AtOnce(c) # "none"
    <3>1. AtOnce(c) \in {"nil", "ErrInvalidInput", "metadata"}
      BY <2>3 DEF AtOnce
    <3>2. Handle!InvokeElsewhere(p, r, AtOnce(c))
      BY <1>0, <1>2, <2>3 DEF TypeOK, Begin, Handle!InvokeElsewhere, Phase
    <3> QED
      BY <2>1, <3>1, <3>2 DEF Handle!Next
  <2> QED
    BY <2>2, <2>3
<1>3. ASSUME NEW p \in Procs, Lock(p) PROVE UNCHANGED Handle!vars
  BY <1>0, <1>3 DEF TypeOK, Lock, Handle!vars, Phase
<1>4. ASSUME NEW p \in Procs, CloseCheck(p), Check(p)
      PROVE  Handle!TakeClose(p) \/ UNCHANGED Handle!vars
  BY <1>0, <1>4, ZenonT(60) DEF TypeOK, Check, CloseCheck, Handle!TakeClose, Handle!Takes, Handle!vars, Phase
<1>5. ASSUME NEW p \in Procs, ExportCheck(p), Check(p)
      PROVE  Handle!TakeExport(p) \/ UNCHANGED Handle!vars
  <2>1. LengthOK(call[p].length) <=> call[p].length \in 0 .. maxHKDFOutput
    BY <1>0, LengthRange
  <2> QED
    BY <1>0, <1>5, <2>1, ZenonT(60) DEF TypeOK, Check, ExportCheck, Handle!TakeExport, Handle!Takes,
       Handle!vars, Phase
<1>6. ASSUME NEW p \in Procs, Derive(p) PROVE Handle!TakeExport(p)
  <2>1. call[p].length \in 0 .. maxHKDFOutput /\ call[p].op = "Export" /\ ~closed
    BY <1>0, <1>6, LengthRange DEF OpInv, KeyInv, Derive
  <2>2. isk = "live"
    BY <1>6, <2>1 DEF Inv, KeyInv, MutexInv, Locked, Derive
  <2>3. hkdfKey(isk, call[p].length) = "key"
    BY <2>1, <2>2, LengthRange
  <2> QED
    BY <1>0, <1>6, <2>1, <2>3 DEF TypeOK, Derive, Handle!TakeExport, Handle!Takes, Phase
<1>7. ASSUME NEW p \in Procs, Zero(p) \/ Drop(p) \/ Unlock(p) PROVE UNCHANGED Handle!vars
  BY <1>0, <1>7 DEF TypeOK, Zero, Drop, Unlock, Handle!vars, Phase
<1>8. ASSUME NEW p \in Procs, Mark(p) PROVE Handle!TakeClose(p)
  BY <1>0, <1>8 DEF TypeOK, OpInv, Mark, MarkClosed, Handle!TakeClose, Handle!Takes, Phase
<1>9. ASSUME NEW p \in Procs, Return(p) PROVE Handle!Return(p)
  BY <1>0, <1>9 DEF TypeOK, Return, Handle!Return, Phase
<1> QED
  BY <1>1, <1>2, <1>3, <1>4, <1>5, <1>6, <1>7, <1>8, <1>9 DEF Next, Step, Check, Handle!Next

(* Close and Export on a shared Session are linearizable.                  *)
THEOREM ImplementsHandleAlways == Spec => ImplementsHandle
BY HandleInit, HandleStep, Invariance, PTL DEF Spec, ImplementsHandle, Handle!Spec
=============================================================================
