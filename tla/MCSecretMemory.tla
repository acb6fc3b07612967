-------------------------- MODULE MCSecretMemory ---------------------------
(***************************************************************************)
(* Where secrets go in memory, at two grains.  BufferLifetime follows the  *)
(* byte slices of a whole call and takes the making of a hash input for    *)
(* one statement on one array; HashInput is that statement, append by      *)
(* append, and shows that there is no second array.  A behaviour is either *)
(* a call of the first or the making of one hash input of the second, at   *)
(* the edges of the caps, of the length prefix and of the hash block;      *)
(* every argument is one byte repeated.                                    *)
(***************************************************************************)
EXTENDS BufferLifetime, HashInput

Fill(n, b) == [i \in 1 .. n |-> b]

EdgeLengths == {0, 1, 127, 128, 1024}

Sids == {Fill(n, 33) : n \in EdgeLengths}

GeneratorCalls ==
  [kind : {"generator"}, prs : {Fill(n, 1) : n \in (1 .. 140) \cup {4095, 4096}},
   ci : {Fill(n, 129) : n \in {1, 128, 300}}, sid : {Fill(n, 33) : n \in {0, 128}}]

Ads == {Fill(n, 32) : n \in {0, 1, 127, 128}}

IskCalls ==
  [kind : {"isk"}, sid : Sids, k : {Fill(scalarSize, 255)}, ya : {Fill(32, 32)},
   ada : Ads, yb : {Fill(32, 0)}, adb : Ads]

MacCalls == [kind : {"mac"}, sid : Sids, isk : {Fill(iskSize, 33), Fill(iskSize, 67)}]

CiCalls ==
  [kind : {"ci"}, initiatorID : {Fill(n, 9) : n \in {1, 9, 128}},
   responderID : {Fill(n, 9) : n \in {1, 9, 4096}}, context : {Fill(n, 7) : n \in {0, 7, 1024}}]

EdgeCalls == GeneratorCalls \cup IskCalls \cup MacCalls \cup CiCalls

---------------------------------------------------------------------------
MemoryInit == Init /\ (HashIdle \/ (role = "initiator" /\ HashInit))

MemoryNext ==
  \/ call = NoCall /\ Next /\ UNCHANGED hashVars
  \/ call # NoCall /\ HashNext /\ UNCHANGED vars

MemorySpec == MemoryInit /\ [][MemoryNext]_<<vars, hashVars>>
=============================================================================
