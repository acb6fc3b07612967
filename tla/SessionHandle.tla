--------------------------- MODULE SessionHandle ---------------------------
(***************************************************************************)
(* What a confirmed Session promises the goroutines that share it: Close   *)
(* and Export each take effect at one instant between call and return; the *)
(* key is usable until the first Close takes effect and gone afterwards;   *)
(* an Export that takes effect later reports ErrSessionClosed whatever its *)
(* other arguments are, an earlier one succeeds exactly when the length    *)
(* is one HKDF-SHA512 can produce.                                         *)
(***************************************************************************)
EXTENDS Integers

CONSTANTS Procs,     \* goroutines sharing the session
          Lengths,   \* the lengths they ask for
          MaxLength  \* the longest HKDF-SHA512 output

VARIABLES open,   \* no Close has taken effect
          phase,  \* phase[p]: "idle", "pending" or "over"
          req,    \* req[p]: the call p makes
          out     \* out[p]: what it reports, "none" while pending

vars == <<open, phase, req, out>>

Requests == [op : {"Close", "Metadata"}, length : {0}] \cup [op : {"Export"}, length : Lengths]

Init ==
  /\ open = TRUE
  /\ phase = [p \in Procs |-> "idle"]
  /\ req = [p \in Procs |-> [op |-> "Close", length |-> 0]]
  /\ out = [p \in Procs |-> "none"]

Invoke(p, c) ==
  /\ phase[p] = "idle"
  /\ c.op # "Metadata"
  /\ phase' = [phase EXCEPT ![p] = "pending"]
  /\ req' = [req EXCEPT ![p] = c]
  /\ out' = [out EXCEPT ![p] = "none"]
  /\ UNCHANGED open

(* A call on a nil pointer or a zero Session touches no shared state, and  *)
(* neither do the metadata accessors.                                      *)
InvokeElsewhere(p, c, r) ==
  /\ phase[p] = "idle"
  /\ phase' = [phase EXCEPT ![p] = "over"]
  /\ req' = [req EXCEPT ![p] = c]
  /\ out' = [out EXCEPT ![p] = r]
  /\ UNCHANGED open

Takes(p, r) ==
  /\ phase[p] = "pending"
  /\ phase' = [phase EXCEPT ![p] = "over"]
  /\ out' = [out EXCEPT ![p] = r]
  /\ UNCHANGED req

TakeClose(p) == req[p].op = "Close" /\ Takes(p, "nil") /\ open' = FALSE

TakeExport(p) ==
  /\ req[p].op = "Export"
  /\ UNCHANGED open
  /\ \/ ~open /\ Takes(p, "ErrSessionClosed")
     \/ open /\ req[p].length \in 0 .. MaxLength /\ Takes(p, "key")
     \/ open /\ req[p].length \notin 0 .. MaxLength /\ Takes(p, "ErrInvalidInput")

Return(p) ==
  /\ phase[p] = "over"
  /\ phase' = [phase EXCEPT ![p] = "idle"]
  /\ UNCHANGED <<open, req, out>>

Next ==
  \E p \in Procs :
    \/ \E c \in Requests : Invoke(p, c)
    \/ \E c \in Requests, r \in {"nil", "ErrInvalidInput", "metadata"} : InvokeElsewhere(p, c, r)
    \/ TakeClose(p) \/ TakeExport(p) \/ Return(p)

Spec == Init /\ [][Next]_vars
=============================================================================
