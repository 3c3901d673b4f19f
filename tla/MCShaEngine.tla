---------------------------- MODULE MCShaEngine ----------------------------
(***************************************************************************)
(* The SHA engine for TLC.  One data byte value ('a') is enough: the      *)
(* padding bytes 0x80, 0x00 and the length bytes differ from it, and the   *)
(* block boundaries depend only on lengths.  Chunks of 1, 7 and 56 bytes   *)
(* reach every offset in a block, in particular 55 (padding fits in the    *)
(* block) and 56..63 (padding spills into a second block), within two     *)
(* blocks of message.                                                      *)
(***************************************************************************)
EXTENDS ShaEngine

MCDataBytes == {97}
MCChunks == {1, 7, 56}
MCMaxMsgBytes == 72

-----------------------------------------------------------------------------
(* The bit-level engines of ShaHash against the FIPS 180-2 test vectors:  *)
(* the 56-byte "abcdbcde...nopq" for SHA-1 and "" for SHA-256 (whose     *)
(* append and digest are the same code).  The 56-byte message puts        *)
(* lenW at 56 when the 0x80 is appended, so the zero padding runs to the  *)
(* end of the block, hash_block runs inside the padding loop, and the     *)
(* length goes into a second block.  They are stated of the states in     *)
(* which the context is fresh (just created, reset, or reset by a         *)
(* digest): hashing a vector from there must give its FIPS value.         *)
SH == INSTANCE ShaHash

Fresh == lenW = 0 /\ W = <<>> /\ H = <<>> /\ sizeHi = 0 /\ sizeLo = 0

Msg56 == [i \in 1..56 |-> 97 + ((i - 1) \div 4) + ((i - 1) % 4)]

(* The digests a caller gets from a fresh context (constant: evaluated   *)
(* once).                                                                  *)
Sha1Msg56    == SH!Sha1Of(Msg56)
Sha256Empty  == SH!Sha256Of(<<>>)

(* The FIPS 180-2 values of the two vectors.                              *)
Sha1Msg56Expected ==
  <<\h84, \h98, \h3e, \h44, \h1c, \h3b, \hd2, \h6e, \hba, \hae,
    \h4a, \ha1, \hf9, \h51, \h29, \he5, \he5, \h46, \h70, \hf1>>
Sha256EmptyExpected ==
  <<\he3, \hb0, \hc4, \h42, \h98, \hfc, \h1c, \h14, \h9a, \hfb, \hf4,
    \hc8, \h99, \h6f, \hb9, \h24, \h27, \hae, \h41, \he4, \h64, \h9b,
    \h93, \h4c, \ha4, \h95, \h99, \h1b, \h78, \h52, \hb8, \h55>>

(* sha1_hash_block, sha1_append and sha1_digest compute SHA-1: the digest *)
(* of the 56-byte message, from a fresh context, is the FIPS 180-2 value, *)
(* through two calls of hash_block.                                        *)
Sha1KnownVectors == Fresh => Sha1Msg56 = Sha1Msg56Expected

(* sha256_hash_block, sha256_append and sha256_digest compute SHA-256:   *)
(* the digest of "", from a fresh context, is the FIPS 180-2 value.      *)
Sha256KnownVectors == Fresh => Sha256Empty = Sha256EmptyExpected


=============================================================================
