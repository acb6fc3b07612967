---------------------------- MODULE TerminalOnce ----------------------------
(***************************************************************************)
(* What single-use protocol state promises its callers, without saying how *)
(* (docs/adr/0008-single-use-state-close.md, "Decision"): Finish and Close *)
(* are terminal operations, exactly one of them ever wins, a losing Finish *)
(* reports ErrStateUsed, a losing Close reports nil, only the winner       *)
(* touches the secrets, and the winner does not return before it has       *)
(* released them.                                                          *)
(*                                                                         *)
(* Each call has one instant (Win, Lose or Reject) between its invocation  *)
(* and its return at which it takes effect, so an implementation of this   *)
(* module is linearizable.                                                 *)
(***************************************************************************)
CONSTANTS Procs,          \* goroutines holding copies of one value
          FinishVerdicts  \* what a winning Finish may report

VARIABLES ready,  \* the value was built by Start or Respond
          spent,  \* some terminal operation has won
          held,   \* the value still holds secret material
          phase,  \* phase[p]: where p's current call stands
          kind,   \* kind[p]: which operation p is calling
          out     \* out[p]: what the call will report, "none" while undecided

vars == <<ready, spent, held, phase, kind, out>>

Kinds    == {"Finish", "Close"}
Outcomes == FinishVerdicts \cup {"none", "nil", "ErrStateUsed", "ErrInvalidInput"}

TypeOK ==
  /\ ready \in BOOLEAN
  /\ spent \in BOOLEAN
  /\ held \in BOOLEAN
  /\ phase \in [Procs -> {"idle", "pending", "won", "over"}]
  /\ kind \in [Procs -> Kinds]
  /\ out \in [Procs -> Outcomes]

Init ==
  /\ ready \in BOOLEAN
  /\ spent = FALSE
  /\ held = ready
  /\ phase = [p \in Procs |-> "idle"]
  /\ kind = [p \in Procs |-> "Close"]
  /\ out = [p \in Procs |-> "none"]

(* A call on a copy of the value begins.                                   *)
Invoke(p, k) ==
  /\ phase[p] = "idle"
  /\ phase' = [phase EXCEPT ![p] = "pending"]
  /\ kind' = [kind EXCEPT ![p] = k]
  /\ out' = [out EXCEPT ![p] = "none"]
  /\ UNCHANGED <<ready, spent, held>>

(* A call on a nil pointer or a zero value never reaches the shared state. *)
InvokeElsewhere(p, k, r) ==
  /\ phase[p] = "idle"
  /\ r = "nil" => k = "Close"
  /\ phase' = [phase EXCEPT ![p] = "over"]
  /\ kind' = [kind EXCEPT ![p] = k]
  /\ out' = [out EXCEPT ![p] = r]
  /\ UNCHANGED <<ready, spent, held>>

Win(p) ==
  /\ phase[p] = "pending" /\ ready /\ ~spent
  /\ spent' = TRUE
  /\ phase' = [phase EXCEPT ![p] = "won"]
  /\ out' = [out EXCEPT ![p] = IF kind[p] = "Close" THEN "nil" ELSE "none"]
  /\ UNCHANGED <<ready, held, kind>>

Lose(p) ==
  /\ phase[p] = "pending" /\ spent
  /\ phase' = [phase EXCEPT ![p] = "over"]
  /\ out' = [out EXCEPT ![p] = IF kind[p] = "Close" THEN "nil" ELSE "ErrStateUsed"]
  /\ UNCHANGED <<ready, spent, held, kind>>

(* The value was never built: report it and consume nothing.               *)
Reject(p) ==
  /\ phase[p] = "pending" /\ ~ready /\ ~spent
  /\ phase' = [phase EXCEPT ![p] = "over"]
  /\ out' = [out EXCEPT ![p] = "ErrInvalidInput"]
  /\ UNCHANGED <<ready, spent, held, kind>>

(* The winning Finish reaches its verdict while the secrets are still there. *)
Decide(p, v) ==
  /\ phase[p] = "won" /\ out[p] = "none" /\ held
  /\ out' = [out EXCEPT ![p] = v]
  /\ UNCHANGED <<ready, spent, held, phase, kind>>

Release(p) ==
  /\ phase[p] = "won" /\ out[p] # "none" /\ held
  /\ held' = FALSE
  /\ UNCHANGED <<ready, spent, phase, kind, out>>

Return(p) ==
  /\ \/ phase[p] = "over"
     \/ phase[p] = "won" /\ ~held
  /\ phase' = [phase EXCEPT ![p] = "idle"]
  /\ UNCHANGED <<ready, spent, held, kind, out>>

Next ==
  \E p \in Procs :
    \/ \E k \in Kinds : Invoke(p, k)
    \/ \E k \in Kinds, r \in {"nil", "ErrInvalidInput"} : InvokeElsewhere(p, k, r)
    \/ Win(p) \/ Lose(p) \/ Reject(p)
    \/ \E v \in FinishVerdicts : Decide(p, v)
    \/ Release(p) \/ Return(p)

Spec == Init /\ [][Next]_vars
=============================================================================
