----------------------------- MODULE DigestSpec -----------------------------
(***************************************************************************)
(* What a digest context promises its callers (spec.md 4.2, 4.4 and 7),   *)
(* independent of how the engine buffers bytes:                            *)
(*                                                                         *)
(*   msg   the bytes appended since the context was created or last reset  *)
(*   bits  the message bit count the padding will carry: 8 * Len(msg)      *)
(*         modulo 2^64, unless set_option("sizeHi"/"sizeLo") overwrote one *)
(*         of its 32-bit halves; appends keep adding to it                  *)
(*   out   what the last call returned (nothing, for the void calls)       *)
(*                                                                         *)
(* A successful digest returns the Merkle-Damgard hash of msg and leaves   *)
(* the context as if freshly reset; a call refused for a too small buffer  *)
(* returns FALSE and changes nothing.  The compression function is left    *)
(* free: Hash(m) is the sequence of 64-byte blocks the compression function *)
(* is applied to, which determines the digest of every compression         *)
(* function.  Padding follows FIPS 180: one 0x80 byte, zeros up to offset  *)
(* 56 of a block, then the bit count as a big-endian 64-bit number.       *)
(***************************************************************************)
EXTENDS Naturals, Sequences

CONSTANTS
  DigestLen,    \* bytes of a digest: 20 (SHA-1) or 32 (SHA-256)
  DataBytes,    \* byte values callers append
  Chunks,       \* lengths of one append call
  MaxMsgBytes,  \* bound on the bytes appended between two resets
  InLens,       \* buffer sizes passed to digest
  StrLens,      \* buffer sizes passed to digest_to_str
  Word,         \* the bit count is taken modulo Word * Word (2^64)
  OptValues     \* values callers pass to set_option("sizeHi"/"sizeLo")

VARIABLES msg, bits, out

absVars == <<msg, bits, out>>

(* Big-endian encoding of x in n bytes. *)
BigEndian(x, n) == [i \in 1..n |-> (x \div 2^(8 * (n - i))) % 256]

(* Number of zero bytes that bring a message of L bytes plus the 0x80     *)
(* byte to offset 56 of a 64-byte block.                                  *)
ZeroPad(L) == (119 - (L % 64)) % 64

(* A bit count as two big-endian 32-bit halves. *)
LengthBytes(b) == BigEndian(b \div Word, 4) \o BigEndian(b % Word, 4)

Padded(m, b) ==
  m \o <<128>> \o [i \in 1..ZeroPad(Len(m)) |-> 0] \o LengthBytes(b)

Blocks(s) == [b \in 1..(Len(s) \div 64) |-> SubSeq(s, 64 * (b - 1) + 1, 64 * b)]

Hash(m, b) == Blocks(Padded(m, b))

NoResult == [res |-> "none"]
Refused  == [res |-> "false"]

Init ==
  /\ msg = <<>>
  /\ bits = 0
  /\ out = NoResult

AppendData(d, n) ==
  /\ Len(msg) + n <= MaxMsgBytes
  /\ msg' = msg \o [i \in 1..n |-> d]
  /\ bits' = (bits + 8 * n) % (Word * Word)
  /\ out' = NoResult

Digest(inLen) ==
  \/ /\ inLen >= DigestLen
     /\ out' = [res |-> "digest", d |-> Hash(msg, bits)]
     /\ msg' = <<>> /\ bits' = 0
  \/ /\ inLen < DigestLen
     /\ out' = Refused
     /\ UNCHANGED <<msg, bits>>

(* Hex needs 2 * DigestLen characters and the terminating NUL. *)
DigestToStr(inLen) ==
  \/ /\ inLen > 2 * DigestLen
     /\ out' = [res |-> "hex", d |-> Hash(msg, bits)]
     /\ msg' = <<>> /\ bits' = 0
  \/ /\ inLen <= 2 * DigestLen
     /\ out' = Refused
     /\ UNCHANGED <<msg, bits>>

Reset ==
  /\ msg' = <<>> /\ bits' = 0
  /\ out' = NoResult

(* set_option("sizeHi"/"sizeLo") replaces one half of the bit count. *)
SetBitsHi(v) ==
  /\ bits' = (v % Word) * Word + (bits % Word)
  /\ out' = NoResult
  /\ UNCHANGED msg

SetBitsLo(v) ==
  /\ bits' = (bits \div Word) * Word + (v % Word)
  /\ out' = NoResult
  /\ UNCHANGED msg

Next ==
  \/ \E d \in DataBytes, n \in Chunks : AppendData(d, n)
  \/ \E l \in InLens : Digest(l)
  \/ \E l \in StrLens : DigestToStr(l)
  \/ Reset
  \/ \E v \in OptValues : SetBitsHi(v) \/ SetBitsLo(v)

Spec == Init /\ [][Next]_absVars
=============================================================================
