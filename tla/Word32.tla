-------------------------------- MODULE Word32 --------------------------------
(***************************************************************************)
(* guint32 arithmetic of libpurple/cipher.c for TLC, whose integers are    *)
(* signed 32-bit: a guint32 is a pair <<high 16 bits, low 16 bits>>, and    *)
(* every operation wraps modulo 2^32 as the C code's does.  The bitwise     *)
(* operators of the community module Bitwise act on each half.             *)
(***************************************************************************)
EXTENDS Integers, Bitwise

Half == 65536

U32(h, l) == <<h, l>>
Zero32 == U32(0, 0)

(* a + b, modulo 2^32. *)
Add32(a, b) ==
  LET lo == a[2] + b[2]
  IN <<(a[1] + b[1] + lo \div Half) % Half, lo % Half>>

XorW(a, b) == <<a[1] ^^ b[1], a[2] ^^ b[2]>>
AndW(a, b) == <<a[1] & b[1], a[2] & b[2]>>
OrW(a, b)  == <<a[1] | b[1], a[2] | b[2]>>
NotW(a)    == <<Half - 1 - a[1], Half - 1 - a[2]>>

(* The same ^, & and | through tables of their values on 4-bit operands,   *)
(* computed once.  Bitwise recurses once per bit, and TLC's evaluation of  *)
(* the long compositions of DES runs out of stack with it; these do not   *)
(* recurse.                                                                *)
Nibble == 0..15
XorTab == [p \in Nibble \X Nibble |-> p[1] ^^ p[2]]
AndTab == [p \in Nibble \X Nibble |-> p[1] & p[2]]
OrTab  == [p \in Nibble \X Nibble |-> p[1] | p[2]]

ByNibble(tab, x, y) ==
         tab[<<x % 16, y % 16>>]
  + 16 * tab[<<(x \div 16) % 16, (y \div 16) % 16>>]
  + 256 * tab[<<(x \div 256) % 16, (y \div 256) % 16>>]
  + 4096 * tab[<<x \div 4096, y \div 4096>>]

XorT(a, b) == <<ByNibble(XorTab, a[1], b[1]), ByNibble(XorTab, a[2], b[2])>>
AndT(a, b) == <<ByNibble(AndTab, a[1], b[1]), ByNibble(AndTab, a[2], b[2])>>
OrT(a, b)  == <<ByNibble(OrTab, a[1], b[1]), ByNibble(OrTab, a[2], b[2])>>

(* SHA1_ROTL(X, n), 0 < n < 32: a rotation by 16 swaps the halves. *)
RotL(a, n) ==
  LET b == IF n >= 16 THEN <<a[2], a[1]>> ELSE a
      m == n % 16
  IN IF m = 0 THEN b
     ELSE <<((b[1] * 2^m) % Half) + b[2] \div 2^(16 - m),
            ((b[2] * 2^m) % Half) + b[1] \div 2^(16 - m)>>

(* SHA256_ROTR(X, n). *)
RotR(a, n) == RotL(a, 32 - n)

(* X >> n for 0 < n < 16. *)
ShR(a, n) ==
  <<a[1] \div 2^n, a[2] \div 2^n + ((a[1] % 2^n) * 2^(16 - n))>>

(* X >> n and X << n for 0 <= n < 32. *)
ShrW(a, n) ==
  IF n >= 16 THEN <<0, a[1] \div 2^(n - 16)>>
  ELSE <<a[1] \div 2^n, a[2] \div 2^n + ((a[1] % 2^n) * 2^(16 - n))>>

ShlW(a, n) ==
  IF n >= 16 THEN <<(a[2] * 2^(n - 16)) % Half, 0>>
  ELSE <<((a[1] * 2^n) % Half) + a[2] \div 2^(16 - n), (a[2] * 2^n) % Half>>

(* The bytes of a guint32, most significant first, and back. *)
BytesOf(w) == <<w[1] \div 256, w[1] % 256, w[2] \div 256, w[2] % 256>>

WordOf(b) == <<b[1] * 256 + b[2], b[3] * 256 + b[4]>>
=============================================================================
