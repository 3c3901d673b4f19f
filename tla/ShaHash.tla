------------------------------- MODULE ShaHash -------------------------------
(***************************************************************************)
(* The hand-written SHA-1 and SHA-256 engines of libpurple/cipher.c (the   *)
(* !GLIB_CHECK_VERSION(2,16,0) build) at the bit level, as pure operators  *)
(* over a context record                                                   *)
(*   [H, W, lenW, sizeHi, sizeLo]                                          *)
(* that is struct SHA1Context / struct SHA256Context.  The two engines    *)
(* share append and digest line for line and differ in hash_block, the    *)
(* initial H and the digest length; alg ("sha1" or "sha256") selects.     *)
(*                                                                         *)
(* A guint32 is a pair of 16-bit halves (module Word32).                  *)
(***************************************************************************)
EXTENDS Integers, Sequences, Word32

-----------------------------------------------------------------------------
(* SHA-1 *)

(* Mutant of Sha1Expand: the schedule without the rotate (SHA-0). *)
RECURSIVE Sha1ExpandNoRotate(_, _)
Sha1ExpandNoRotate(w, i) ==
  IF i = 80 \/ w[i - 1] = <<-1, -1>> THEN w
  ELSE Sha1ExpandNoRotate([w EXCEPT ![i] =
         XorW(XorW(w[i - 3], w[i - 8]), XorW(w[i - 14], w[i - 16]))], i + 1)

(* sha1_hash_block, message schedule: W[i] = ROTL(W[i-3] ^ W[i-8] ^       *)
(* W[i-14] ^ W[i-16], 1) for i = 16..79, in place.                         *)
RECURSIVE Sha1Expand(_, _)
Sha1Expand(w, i) ==
  IF i = 80 \/ w[i - 1] = <<-1, -1>> THEN w
  ELSE Sha1Expand([w EXCEPT ![i] =
         RotL(XorW(XorW(w[i - 3], w[i - 8]), XorW(w[i - 14], w[i - 16])), 1)],
         i + 1)

(* The round function and constant of SHA-1 round i. *)
Sha1F(i, b, c, d) ==
  CASE i < 20 -> XorW(AndW(XorW(c, d), b), d)
    [] i < 40 -> XorW(XorW(b, c), d)
    [] i < 60 -> OrW(AndW(b, c), AndW(d, OrW(b, c)))
    [] OTHER  -> XorW(XorW(b, c), d)

Sha1K(i) ==
  CASE i < 20 -> U32(\h5A82, \h7999)
    [] i < 40 -> U32(\h6ED9, \hEBA1)
    [] i < 60 -> U32(\h8F1B, \hBCDC)
    [] OTHER  -> U32(\hCA62, \hC1D6)

(* Rounds i..79 on v = <<A, B, C, D, E>>. *)
RECURSIVE Sha1Rounds(_, _, _)
Sha1Rounds(v, w, i) ==
  IF i = 80 \/ v[1] = <<-1, -1>> THEN v
  ELSE LET t == Add32(Add32(Add32(RotL(v[1], 5), Sha1F(i, v[2], v[3], v[4])),
                            Add32(v[5], w[i])), Sha1K(i))
       IN Sha1Rounds(<<t, v[1], RotL(v[2], 30), v[3], v[4]>>, w, i + 1)

(* sha1_hash_block: expand W, run the eighty rounds from H, add back. *)
Sha1HashBlock(ctx) ==
  LET w == Sha1Expand(ctx.W, 16)
      v == Sha1Rounds(ctx.H, w, 0)
  IN [ctx EXCEPT !.W = w, !.H = [k \in 1..5 |-> Add32(ctx.H[k], v[k])]]

(* sha1_reset. *)
Sha1Reset ==
  [H |-> <<U32(\h6745, \h2301), U32(\hEFCD, \hAB89), U32(\h98BA, \hDCFE),
           U32(\h1032, \h5476), U32(\hC3D2, \hE1F0)>>,
   W |-> [i \in 0..79 |-> Zero32],
   lenW |-> 0, sizeHi |-> Zero32, sizeLo |-> Zero32]

-----------------------------------------------------------------------------
(* SHA-256 *)

(* sha256_K. *)
Sha256K == <<
  U32(\h428a, \h2f98), U32(\h7137, \h4491), U32(\hb5c0, \hfbcf), U32(\he9b5, \hdba5),
  U32(\h3956, \hc25b), U32(\h59f1, \h11f1), U32(\h923f, \h82a4), U32(\hab1c, \h5ed5),
  U32(\hd807, \haa98), U32(\h1283, \h5b01), U32(\h2431, \h85be), U32(\h550c, \h7dc3),
  U32(\h72be, \h5d74), U32(\h80de, \hb1fe), U32(\h9bdc, \h06a7), U32(\hc19b, \hf174),
  U32(\he49b, \h69c1), U32(\hefbe, \h4786), U32(\h0fc1, \h9dc6), U32(\h240c, \ha1cc),
  U32(\h2de9, \h2c6f), U32(\h4a74, \h84aa), U32(\h5cb0, \ha9dc), U32(\h76f9, \h88da),
  U32(\h983e, \h5152), U32(\ha831, \hc66d), U32(\hb003, \h27c8), U32(\hbf59, \h7fc7),
  U32(\hc6e0, \h0bf3), U32(\hd5a7, \h9147), U32(\h06ca, \h6351), U32(\h1429, \h2967),
  U32(\h27b7, \h0a85), U32(\h2e1b, \h2138), U32(\h4d2c, \h6dfc), U32(\h5338, \h0d13),
  U32(\h650a, \h7354), U32(\h766a, \h0abb), U32(\h81c2, \hc92e), U32(\h9272, \h2c85),
  U32(\ha2bf, \he8a1), U32(\ha81a, \h664b), U32(\hc24b, \h8b70), U32(\hc76c, \h51a3),
  U32(\hd192, \he819), U32(\hd699, \h0624), U32(\hf40e, \h3585), U32(\h106a, \ha070),
  U32(\h19a4, \hc116), U32(\h1e37, \h6c08), U32(\h2748, \h774c), U32(\h34b0, \hbcb5),
  U32(\h391c, \h0cb3), U32(\h4ed8, \haa4a), U32(\h5b9c, \hca4f), U32(\h682e, \h6ff3),
  U32(\h748f, \h82ee), U32(\h78a5, \h636f), U32(\h84c8, \h7814), U32(\h8cc7, \h0208),
  U32(\h90be, \hfffa), U32(\ha450, \h6ceb), U32(\hbef9, \ha3f7), U32(\hc671, \h78f2)>>

(* Mutant of Sha256Expand: sigma1 rotates by 10 where it must shift. *)
RECURSIVE Sha256ExpandRotate10(_, _)
Sha256ExpandRotate10(w, i) ==
  IF i = 64 \/ w[i - 1] = <<-1, -1>> THEN w
  ELSE LET s1 == XorW(XorW(RotR(w[i - 2], 17), RotR(w[i - 2], 19)), RotR(w[i - 2], 10))
           s0 == XorW(XorW(RotR(w[i - 15], 7), RotR(w[i - 15], 18)), ShR(w[i - 15], 3))
       IN Sha256ExpandRotate10([w EXCEPT ![i] =
            Add32(Add32(s1, w[i - 7]), Add32(s0, w[i - 16]))], i + 1)

(* sha256_hash_block, message schedule for i = 16..63, in place. *)
RECURSIVE Sha256Expand(_, _)
Sha256Expand(w, i) ==
  IF i = 64 \/ w[i - 1] = <<-1, -1>> THEN w
  ELSE LET s1 == XorW(XorW(RotR(w[i - 2], 17), RotR(w[i - 2], 19)), ShR(w[i - 2], 10))
           s0 == XorW(XorW(RotR(w[i - 15], 7), RotR(w[i - 15], 18)), ShR(w[i - 15], 3))
       IN Sha256Expand([w EXCEPT ![i] =
            Add32(Add32(s1, w[i - 7]), Add32(s0, w[i - 16]))], i + 1)

(* Rounds i..63 on v = <<A, B, C, D, E, F, G, H>>. *)
RECURSIVE Sha256Rounds(_, _, _)
Sha256Rounds(v, w, i) ==
  IF i = 64 \/ v[1] = <<-1, -1>> THEN v
  ELSE LET e  == v[5]
           a  == v[1]
           t1 == Add32(Add32(Add32(v[8],
                   XorW(XorW(RotR(e, 6), RotR(e, 11)), RotR(e, 25))),
                   XorW(AndW(e, v[6]), AndW(NotW(e), v[7]))),
                   Add32(Sha256K[i + 1], w[i]))
           t2 == Add32(XorW(XorW(RotR(a, 2), RotR(a, 13)), RotR(a, 22)),
                       XorW(XorW(AndW(a, v[2]), AndW(a, v[3])), AndW(v[2], v[3])))
       IN Sha256Rounds(<<Add32(t1, t2), a, v[2], v[3], Add32(v[4], t1),
                         e, v[6], v[7]>>, w, i + 1)

(* sha256_hash_block: expand W, run the 64 rounds from H, add back. *)
Sha256HashBlock(ctx) ==
  LET w == Sha256Expand(ctx.W, 16)
      v == Sha256Rounds(ctx.H, w, 0)
  IN [ctx EXCEPT !.W = w, !.H = [k \in 1..8 |-> Add32(ctx.H[k], v[k])]]

(* sha256_reset. *)
Sha256Reset ==
  [H |-> <<U32(\h6a09, \he667), U32(\hbb67, \hae85), U32(\h3c6e, \hf372),
           U32(\ha54f, \hf53a), U32(\h510e, \h527f), U32(\h9b05, \h688c),
           U32(\h1f83, \hd9ab), U32(\h5be0, \hcd19)>>,
   W |-> [i \in 0..63 |-> Zero32],
   lenW |-> 0, sizeHi |-> Zero32, sizeLo |-> Zero32]

-----------------------------------------------------------------------------
(* Shared by both engines. *)

HashBlock(alg, ctx) ==
  IF alg = "sha1" THEN Sha1HashBlock(ctx) ELSE Sha256HashBlock(ctx)

(* One iteration of the loop of sha1_append / sha256_append: shift the   *)
(* byte into W[lenW / 4], hash a full block and restart lenW, then add 8 *)
(* to the 64-bit bit count sizeHi:sizeLo.                                 *)
AppendByte(alg, ctx, byte) ==
  LET j   == ctx.lenW \div 4
      wj  == ctx.W[j]
      c1  == [ctx EXCEPT !.W[j] = <<((wj[1] * 256) % Half) + wj[2] \div 256,
                                     ((wj[2] * 256) % Half) + byte>>,
                         !.lenW = @ + 1]
      c2  == IF c1.lenW % 64 = 0 THEN [HashBlock(alg, c1) EXCEPT !.lenW = 0] ELSE c1
      lo  == Add32(c2.sizeLo, U32(0, 8))
  IN [c2 EXCEPT !.sizeLo = lo,
                !.sizeHi = IF lo[1] = 0 /\ lo[2] < 8 THEN Add32(@, U32(0, 1)) ELSE @]

(* sha1_append / sha256_append over the bytes d[i..]. *)
RECURSIVE AppendFrom(_, _, _, _)
AppendFrom(alg, ctx, d, i) ==
  IF i > Len(d) \/ ctx.lenW < 0 THEN ctx
  ELSE AppendFrom(alg, AppendByte(alg, ctx, d[i]), d, i + 1)

(* while (lenW != 56) append 0x00. *)
RECURSIVE PadTo56(_, _)
PadTo56(alg, ctx) ==
  IF ctx.lenW = 56 THEN ctx ELSE PadTo56(alg, AppendByte(alg, ctx, 0))

(* sha1_digest / sha256_digest: capture the bit count, append 0x80, zeros *)
(* up to lenW = 56 and the count, then read out the first n bytes of H   *)
(* big-endian (H[i / 4] >> 24, then H[i / 4] <<= 8).                      *)
DigestOf(alg, ctx, n) ==
  LET padlen == BytesOf(ctx.sizeHi) \o BytesOf(ctx.sizeLo)
      c      == AppendFrom(alg, PadTo56(alg, AppendByte(alg, ctx, \h80)), padlen, 1)
  IN [i \in 1..n |-> BytesOf(c.H[(i - 1) \div 4 + 1])[((i - 1) % 4) + 1]]

(* A fresh context, the data appended, and the digest. *)
Sha1Of(d)   == DigestOf("sha1", AppendFrom("sha1", Sha1Reset, d, 1), 20)
Sha256Of(d) == DigestOf("sha256", AppendFrom("sha256", Sha256Reset, d, 1), 32)
=============================================================================
