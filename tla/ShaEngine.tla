------------------------------ MODULE ShaEngine ------------------------------
(***************************************************************************)
(* The streaming SHA-1 / SHA-256 engine of libpurple/cipher.c (the         *)
(* hand-written path: sha1_* and sha256_*, identical but for the number of *)
(* words), driven through the generic context API.                         *)
(*                                                                         *)
(*   lenW            bytes of the current 64-byte block received so far    *)
(*   W               those bytes, in order (the code packs them big-endian  *)
(*                   into the words W[0..15])                               *)
(*   H               the blocks handed to sha1_hash_block since the last    *)
(*                   reset: the accumulator H[] is a function of exactly   *)
(*                   this sequence, so the model keeps the sequence        *)
(*   sizeHi, sizeLo  the 64-bit bit count as two 32-bit halves             *)
(*   out             the value the last call returned (none for void ones)  *)
(*                                                                         *)
(* Every append goes byte by byte through AppendByte, as the loop of       *)
(* sha1_append does, and digest feeds its padding through the same path.   *)
(***************************************************************************)
EXTENDS Naturals, Sequences, SequencesExt

CONSTANTS DigestLen, DataBytes, Chunks, MaxMsgBytes, InLens, StrLens,
          Word,       \* 2^32 in the code: the range of sizeHi and sizeLo
          OptValues   \* values callers pass to set_option("sizeHi"/"sizeLo")

VARIABLES lenW, W, H, sizeHi, sizeLo, out

vars == <<lenW, W, H, sizeHi, sizeLo, out>>

(* The engine state as a record, so the per-byte loop can be a function.  *)
Cur == [lenW |-> lenW, W |-> W, H |-> H, hi |-> sizeHi, lo |-> sizeLo]

Assign(st) ==
  /\ lenW' = st.lenW
  /\ W' = st.W
  /\ H' = st.H
  /\ sizeHi' = st.hi
  /\ sizeLo' = st.lo

(* sha1_reset: lenW, sizeHi, sizeLo to 0, H[] to the initial constants,   *)
(* W[] to zero.                                                           *)
ResetState == [lenW |-> 0, W |-> <<>>, H |-> <<>>, hi |-> 0, lo |-> 0]

(* Mutant of AppendByte: lenW is not set back to 0 after hash_block.      *)
AppendByteNoWrap(st, b) ==
  LET lo1 == (st.lo + 8) % Word
      hi1 == (st.hi + (IF lo1 < 8 THEN 1 ELSE 0)) % Word
  IN IF (st.lenW + 1) % 64 = 0
     THEN [st EXCEPT !.lenW = st.lenW + 1, !.W = <<>>,
                     !.H = Append(st.H, Append(st.W, b)), !.hi = hi1, !.lo = lo1]
     ELSE [st EXCEPT !.lenW = st.lenW + 1, !.W = Append(st.W, b),
                     !.hi = hi1, !.lo = lo1]

(* Mutant of AppendByte: the carry test reads sizeLo <= 8.                *)
AppendByteCarryLe(st, b) ==
  LET lo1 == (st.lo + 8) % Word
      hi1 == (st.hi + (IF lo1 <= 8 THEN 1 ELSE 0)) % Word
  IN IF (st.lenW + 1) % 64 = 0
     THEN [lenW |-> 0, W |-> <<>>, H |-> Append(st.H, Append(st.W, b)),
           hi |-> hi1, lo |-> lo1]
     ELSE [st EXCEPT !.lenW = st.lenW + 1, !.W = Append(st.W, b),
                     !.hi = hi1, !.lo = lo1]

(* One iteration of the loop in sha1_append: shift the byte into W, hash  *)
(* the block when the 64th byte arrives and restart it, add 8 to sizeLo   *)
(* and carry into sizeHi when sizeLo wrapped.                             *)
AppendByte(st, b) ==
  LET lo1 == (st.lo + 8) % Word
      hi1 == (st.hi + (IF lo1 < 8 THEN 1 ELSE 0)) % Word
  IN IF (st.lenW + 1) % 64 = 0
     THEN [lenW |-> 0, W |-> <<>>, H |-> Append(st.H, Append(st.W, b)),
           hi |-> hi1, lo |-> lo1]
     ELSE [st EXCEPT !.lenW = st.lenW + 1, !.W = Append(st.W, b),
                     !.hi = hi1, !.lo = lo1]

(* The loop of sha1_append: AppendByte for each byte of data, in order,  *)
(* from index i on, while lenW is an offset W[lenW / 4] can hold.         *)
RECURSIVE AppendFrom(_, _, _)
AppendFrom(st, data, i) ==
  IF i <= Len(data) /\ st.lenW \in 0..63
  THEN AppendFrom(AppendByte(st, data[i]), data, i + 1)
  ELSE st

AppendBytes(st, data) == AppendFrom(st, data, 1)

Zeros(k) == [i \in 1..k |-> 0]

(* while (lenW != 56) append(0x00): as many zeros as bring lenW to 56.    *)
PadZeros(st) == AppendBytes(st, Zeros((56 - st.lenW + 64) % 64))

BigEndian32(x) == [i \in 1..4 |-> (x \div 2^(8 * (4 - i))) % 256]

(* Mutant of Finalize: padlen is read after the padding was appended.     *)
FinalizeLateLength(st) ==
  LET padded == PadZeros(AppendByte(st, 128))
  IN AppendBytes(padded, BigEndian32(padded.hi) \o BigEndian32(padded.lo)).H

(* sha1_digest after its length check: capture padlen from sizeHi:sizeLo, *)
(* append 0x80, zeros up to offset 56, then padlen; the blocks hashed are  *)
(* what H[] is serialised from.                                           *)
Finalize(st) ==
  LET padlen == BigEndian32(st.hi) \o BigEndian32(st.lo)
  IN AppendBytes(PadZeros(AppendByte(st, 128)), padlen).H

BytesIn == 64 * Len(H) + lenW

(* sha1_init allocates the context and calls sha1_reset. *)
Init ==
  /\ lenW = 0 /\ W = <<>> /\ H = <<>> /\ sizeHi = 0 /\ sizeLo = 0
  /\ out = [res |-> "none"]

(* purple_cipher_context_append -> sha1_append *)
AppendData(d, n) ==
  /\ BytesIn + n <= MaxMsgBytes
  /\ Assign(AppendBytes(Cur, [i \in 1..n |-> d]))
  /\ out' = [res |-> "none"]

(* purple_cipher_context_digest -> sha1_digest: refuses a buffer shorter  *)
(* than the digest, else finalises and resets the context.                *)
Digest(inLen) ==
  \/ /\ inLen >= DigestLen
     /\ out' = [res |-> "digest", d |-> Finalize(Cur)]
     /\ Assign(ResetState)
  \/ /\ inLen < DigestLen
     /\ out' = [res |-> "false"]
     /\ UNCHANGED <<lenW, W, H, sizeHi, sizeLo>>

(* purple_cipher_context_digest_to_str: digests into an 8 KiB buffer      *)
(* (which always succeeds and resets the context), and only then checks   *)
(* that in_len leaves room for the hex string and its NUL.                *)
DigestToStr(inLen) ==
  /\ Assign(ResetState)
  /\ \/ inLen <= 2 * DigestLen /\ out' = [res |-> "false"]
     \/ inLen > 2 * DigestLen /\ out' = [res |-> "hex", d |-> Finalize(Cur)]

(* purple_cipher_context_reset -> sha1_reset *)
Reset ==
  /\ Assign(ResetState)
  /\ out' = [res |-> "none"]

(* purple_cipher_context_set_option -> sha1_set_opt: the "sizeHi" and     *)
(* "sizeLo" branches store the (guint32) value unchecked.                 *)
SetSizeHi(v) ==
  /\ sizeHi' = v % Word
  /\ out' = [res |-> "none"]
  /\ UNCHANGED <<lenW, W, H, sizeLo>>

SetSizeLo(v) ==
  /\ sizeLo' = v % Word
  /\ out' = [res |-> "none"]
  /\ UNCHANGED <<lenW, W, H, sizeHi>>

Next ==
  \/ \E d \in DataBytes, n \in Chunks : AppendData(d, n)
  \/ \E l \in InLens : Digest(l)
  \/ \E l \in StrLens : DigestToStr(l)
  \/ Reset
  \/ \E v \in OptValues : SetSizeHi(v)
  \/ \E v \in OptValues : SetSizeLo(v)

Spec == Init /\ [][Next]_vars

-----------------------------------------------------------------------------
TypeOK ==
  /\ lenW \in 0..63
  /\ W \in Seq(0..255) /\ Len(W) = lenW
  /\ H \in Seq(Seq(0..255))
  /\ sizeHi \in 0..(Word - 1)
  /\ sizeLo \in 0..(Word - 1)
  /\ out.res \in {"none", "false", "digest", "hex"}

(* The engine implements DigestSpec: every digest the code returns is the *)
(* FIPS 180 hash of exactly the bytes appended since the last reset, with *)
(* the 64-bit bit count (8 per byte, carried from sizeLo into sizeHi and  *)
(* wrapping, from whatever set_option stored); the context is reset       *)
(* afterwards, and a refused call changes nothing.                        *)
Abs == INSTANCE DigestSpec WITH msg <- FlattenSeq(H) \o W,
                                bits <- sizeHi * Word + sizeLo

RefinesDigestSpec == Abs!Spec
=============================================================================
