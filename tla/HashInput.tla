----------------------------- MODULE HashInput -----------------------------
(***************************************************************************)
(* The byte strings the package hashes (crypto.go, transcript.go,          *)
(* input.go), with the real sizes: how they are put together, in which     *)
(* backing arrays, and what can be read back from them.  CPaceCore takes   *)
(* each of them for the tuple of its arguments.                            *)
(*                                                                         *)
(* A call appends pieces to a slice.  When the capacity does not suffice,  *)
(* append moves to a new array and leaves the old one as it is; nobody can *)
(* clear it any more.                                                      *)
(***************************************************************************)
EXTENDS LengthValue

CONSTANT Calls  \* the calls to consider: records with a kind and arguments

sha512BlockSize == 128
scalarSize      == 32
iskSize         == 64
maxLengthBytes  == 3    \* no field of a call has a longer length prefix

(* Base is 0x80: one digit holds the length of the longest padding.        *)
ASSUME BlockAssumption == Base >= sha512BlockSize

IsField(b) == b \in Seq(0 .. 2 * Base - 1) /\ Len(b) < Power[maxLengthBytes]

(* The calls the package makes: byte strings within the caps of caps.go,   *)
(* and an ISK that is a SHA-512 sum.                                       *)
ASSUME CallsAssumption ==
  \A c \in Calls :
    \/ c.kind = "generator" /\ \A b \in {c.prs, c.ci, c.sid} : IsField(b)
    \/ c.kind = "isk" /\ \A b \in {c.sid, c.k, c.ya, c.ada, c.yb, c.adb} : IsField(b)
    \/ c.kind = "ci" /\ \A b \in {c.initiatorID, c.responderID, c.context} : IsField(b)
    \/ c.kind = "mac" /\ IsField(c.sid) /\ IsField(c.isk) /\ Len(c.isk) = iskSize

VARIABLES call,    \* the call in progress
          todo,    \* pieces still to append
          slice,   \* what has been appended so far
          cap,     \* capacity of its backing array
          held,    \* a secret has been written to that array
          spilled  \* an array was left behind with a secret in it

hashVars == <<call, todo, slice, cap, held, spilled>>

dsiX25519 == <<67, 80, 97, 99, 101, 50, 53, 53>>
dsiISK    == dsiX25519 \o <<95, 73, 83, 75>>
MacLabel  == <<67, 80, 97, 99, 101, 77, 97, 99>>

Zeros(n) == [i \in 1 .. n |-> 0]

Plain(b) == [bytes |-> b, secret |-> FALSE]
Sensitive(b) == [bytes |-> b, secret |-> TRUE]

---------------------------------------------------------------------------
(* The zero padding of the generator string; -1 for its own length byte.   *)
zpadLenMutant(prs) ==
  Max({sha512BlockSize - lengthValueLen(Len(prs)) - lengthValueLen(Len(dsiX25519)), 0})

zpadLen(prs) ==
  Max({sha512BlockSize - lengthValueLen(Len(prs)) - lengthValueLen(Len(dsiX25519)) - 1, 0})

generatorString(c) ==
  <<Plain(dsiX25519), Sensitive(c.prs), Plain(Zeros(zpadLen(c.prs))), Plain(c.ci),
    Plain(c.sid)>>

iskPrefix(c) == <<Plain(dsiISK), Plain(c.sid), Sensitive(c.k)>>

(* newIRTranscript.                                                        *)
irTranscriptMutant(c) == c.ya \o c.ada \o c.yb \o c.adb
irTranscript(c) == lvCat(<<c.ya, c.ada>>) \o lvCat(<<c.yb, c.adb>>)

(* buildCI: six fixed labels, of which only the length is kept, around     *)
(* identities and context.                                                 *)
Label(n) == Plain([i \in 1 .. n |-> 67])

buildCI(c) ==
  <<Label(11), Label(24), Label(19), Label(9), Plain(c.initiatorID),
    Label(9), Plain(c.responderID), Label(7), Plain(c.context)>>

lvArgs(c) ==
  CASE c.kind = "generator" -> generatorString(c)
    [] c.kind = "isk"       -> iskPrefix(c)
    [] c.kind = "ci"        -> buildCI(c)

(* lvCat: the length first, then every argument after its length.          *)
lvPieces(args) ==
  [j \in 1 .. 2 * Len(args) |->
     IF j % 2 = 1 THEN Plain(appendLEB128[Len(args[(j + 1) \div 2].bytes)]) ELSE args[j \div 2]]

lvCapacityMutant(args) ==
  LET n[i \in 0 .. Len(args)] == IF i = 0 THEN 0 ELSE n[i - 1] + 1 + Len(args[i].bytes)
  IN  n[Len(args)]

lvCapacity(args) ==
  LET n[i \in 0 .. Len(args)] ==
        IF i = 0 THEN 0 ELSE n[i - 1] + lengthValueLen(Len(args[i].bytes))
  IN  n[Len(args)]

(* confirmationTag appends to the label, which fills its array.            *)
macPieces(c) == <<Plain(c.sid), Sensitive(c.isk)>>

HashInit ==
  /\ call \in Calls
  /\ held = FALSE
  /\ spilled = FALSE
  /\ IF call.kind = "mac"
     THEN todo = macPieces(call) /\ slice = MacLabel /\ cap = Len(MacLabel)
     ELSE /\ todo = lvPieces(lvArgs(call)) \o
                    (IF call.kind = "isk" THEN <<Plain(irTranscript(call))>> ELSE <<>>)
          /\ slice = <<>>
          /\ cap = lvCapacity(lvArgs(call))

(* Nothing is being put together.                                          *)
NoCall == [kind |-> "none"]

HashIdle ==
  /\ call = NoCall
  /\ todo = <<>> /\ slice = <<>> /\ cap = 0
  /\ held = FALSE /\ spilled = FALSE

(* deriveISK's last piece, the raw transcript, goes elsewhere.             *)
TranscriptNext == call.kind = "isk" /\ Len(todo) = 1

(* The runtime chooses the capacity of a new array.                        *)
AppendPiece ==
  /\ todo # <<>> /\ ~TranscriptNext
  /\ LET piece == Head(todo)
         need  == Len(slice) + Len(piece.bytes)
     IN  /\ IF need <= cap
            THEN UNCHANGED <<cap, spilled>>
            ELSE /\ cap' \in {need, 2 * need}
                 /\ spilled' = (spilled \/ held)
         /\ slice' = slice \o piece.bytes
         /\ held' = (held \/ piece.secret)
  /\ todo' = Tail(todo)
  /\ UNCHANGED call

(* deriveISK copies the prefix and the raw transcript into one array of    *)
(* the right size and clears the prefix.                                   *)
AppendTranscript ==
  /\ TranscriptNext
  /\ slice' = slice \o Head(todo).bytes
  /\ cap' = Len(slice')
  /\ todo' = <<>>
  /\ UNCHANGED <<call, held, spilled>>

HashNext == AppendPiece \/ AppendTranscript

HashSpec == HashInit /\ [][HashNext]_hashVars

---------------------------------------------------------------------------
(* No array is left behind once a password, shared secret or ISK has been  *)
(* written to it: lvCat and deriveISK size their arrays exactly, and       *)
(* confirmationTag grows its slice only before the ISK comes.  So the      *)
(* clearBytes of the caller reaches every copy.                            *)
NothingSpilled == ~spilled

(* Reading n length-value fields back from the start of a byte string.     *)
ReadFields(b, n) ==
  LET read[i \in 0 .. n] ==
        IF i = 0 THEN [next |-> 0, fields |-> <<>>]
        ELSE LET r == readLEB128(b, read[i - 1].next, maxLengthBytes)
             IN  [next |-> r.next + r.n,
                  fields |-> Append(read[i - 1].fields, SubSeq(b, r.next + 1, r.next + r.n))]
  IN  read[n].fields

Complete == call # NoCall /\ todo = <<>>

(* What was hashed can be read back from the finished string: its fields   *)
(* have boundaries, the ISK at the end of the MAC key input has a fixed    *)
(* size.  So two hash inputs are equal only if everything that went into   *)
(* them is, although the transcript and the MAC key input are concatenated *)
(* raw.                                                                    *)
ReadsBack ==
  Complete =>
    CASE call.kind = "generator" ->
           LET f == ReadFields(slice, 5)
           IN  <<f[1], f[2], f[4], f[5]>> = <<dsiX25519, call.prs, call.ci, call.sid>>
      [] call.kind = "isk" ->
           ReadFields(slice, 7) = <<dsiISK, call.sid, call.k, call.ya, call.ada, call.yb, call.adb>>
      [] call.kind = "ci" ->
           LET f == ReadFields(slice, 9)
           IN  <<f[5], f[7], f[9]>> = <<call.initiatorID, call.responderID, call.context>>
      [] call.kind = "mac" ->
           LET n == Len(slice) - iskSize
           IN  /\ SubSeq(slice, n + 1, Len(slice)) = call.isk
               /\ SubSeq(slice, Len(MacLabel) + 1, n) = call.sid

(* No byte of the channel identifier, nor of its length, is in the first   *)
(* hash block: separator, password and padding, each with its length, fill *)
(* at least that block, and no more than that if there is any padding; the *)
(* padding's length takes the one byte that was reckoned for it.  Only the *)
(* first block is spoken of: the end of a password that does not fit into  *)
(* it shares a later one with the identifier.                              *)
BlockFilled ==
  Complete /\ call.kind = "generator" =>
    LET f    == ReadFields(slice, 5)
        upTo == lengthValueLen(Len(f[1])) + lengthValueLen(Len(f[2])) + lengthValueLen(Len(f[3]))
    IN  /\ upTo >= sha512BlockSize
        /\ Len(f[3]) > 0 => upTo = sha512BlockSize
        /\ leb128LenInt[Len(f[3])] = 1
=============================================================================
