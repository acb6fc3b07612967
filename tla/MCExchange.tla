---------------------------- MODULE MCExchange ----------------------------
(***************************************************************************)
(* Small instances of Exchange.                                            *)
(***************************************************************************)
EXTENDS Exchange, TLC

Symmetry == Permutations(Inits) \cup Permutations(Resps)

(* alice starts, bob responds; every shared field has one other value.     *)
AliceInput ==
  [Password |-> Bytes(8, "pw"), SelfID |-> Bytes(5, "alice"), PeerID |-> Bytes(3, "bob"),
   Context |-> Bytes(0, "empty"), SessionID |-> Bytes(16, "sid"),
   LocalAssociatedData |-> Bytes(3, "ADa"), AllowEmptySessionID |-> FALSE]

BobInput ==
  [Password |-> Bytes(8, "pw"), SelfID |-> Bytes(3, "bob"), PeerID |-> Bytes(5, "alice"),
   Context |-> Bytes(0, "empty"), SessionID |-> Bytes(16, "sid"),
   LocalAssociatedData |-> Bytes(3, "ADb"), AllowEmptySessionID |-> FALSE]

With(in, f, v) == [in EXCEPT ![f] = v]

(* For the network runs: compatible inputs, and a second password.         *)
AliceInputs == {AliceInput}
BobInputs   == {BobInput, With(BobInput, "Password", Bytes(8, "other"))}

(* For the input runs: one field at a time at another value, at its cap,   *)
(* above it, and empty.                                                    *)
Variants(in) ==
  {in}
  \cup {With(in, f, Bytes(5, "other")) : f \in FieldNames}
  \cup {With(in, f, Bytes(0, "empty")) : f \in FieldNames}
  \cup {With(in, f, Bytes(Cap[f], "long")) : f \in FieldNames}
  \cup {With(in, f, Bytes(Cap[f] + 1, "too long")) : f \in FieldNames}
  \cup {With(With(in, "SessionID", Bytes(0, "empty")), "AllowEmptySessionID", TRUE)}

AliceVariants == Variants(AliceInput)
BobVariants   == Variants(BobInput)
=============================================================================
