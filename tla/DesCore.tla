------------------------------- MODULE DesCore -------------------------------
(***************************************************************************)
(* The DES block function of libpurple/cipher.c at the bit level, as pure  *)
(* operators: the key schedule (des_key_schedule), the context of encrypt  *)
(* and decrypt subkeys (des_set_key) and one 8-byte block in either        *)
(* direction (des_ecb_crypt).  The code's tables are copied value for      *)
(* value; a guint32 is a pair of 16-bit halves (module Word32).           *)
(*                                                                         *)
(* TLC evaluates definitions lazily, and an intermediate word first needed *)
(* deep inside the next stage is computed there, on top of it; the sixteen *)
(* rounds on top of the key schedule then exceed its stack.  A guard       *)
(* IsWord(x), true of every word here, makes TLC compute x where it        *)
(* stands; the guards carry no other meaning.                              *)
(***************************************************************************)
EXTENDS Integers, Sequences, Word32

(* f[lo] | ... | f[hi] for a sequence f of guint32s, halving the range,  *)
(* so that the recursion stays shallow.                                    *)
RECURSIVE OrRange(_, _, _)
OrRange(f, lo, hi) ==
  IF lo = hi THEN f[lo]
  ELSE LET mid == (lo + hi) \div 2
       IN OrT(OrRange(f, lo, mid), OrRange(f, mid + 1, hi))

OrAll(f, n) == OrRange(f, 1, n)

(* A guint32 constant below 2^31 as a pair of halves. *)
Word(n) == <<n \div Half, n % Half>>

(* x is a guint32. *)
IsWord(x) == x[1] < Half /\ x[2] < Half

(* sbox1 .. sbox8: the S-boxes with the primitive function P applied. *)
SBox ==
  << << <<\h0080,\h8200>>, <<\h0000,\h0000>>, <<\h0000,\h8000>>, <<\h0080,\h8202>>,
       <<\h0080,\h8002>>, <<\h0000,\h8202>>, <<\h0000,\h0002>>, <<\h0000,\h8000>>,
       <<\h0000,\h0200>>, <<\h0080,\h8200>>, <<\h0080,\h8202>>, <<\h0000,\h0200>>,
       <<\h0080,\h0202>>, <<\h0080,\h8002>>, <<\h0080,\h0000>>, <<\h0000,\h0002>>,
       <<\h0000,\h0202>>, <<\h0080,\h0200>>, <<\h0080,\h0200>>, <<\h0000,\h8200>>,
       <<\h0000,\h8200>>, <<\h0080,\h8000>>, <<\h0080,\h8000>>, <<\h0080,\h0202>>,
       <<\h0000,\h8002>>, <<\h0080,\h0002>>, <<\h0080,\h0002>>, <<\h0000,\h8002>>,
       <<\h0000,\h0000>>, <<\h0000,\h0202>>, <<\h0000,\h8202>>, <<\h0080,\h0000>>,
       <<\h0000,\h8000>>, <<\h0080,\h8202>>, <<\h0000,\h0002>>, <<\h0080,\h8000>>,
       <<\h0080,\h8200>>, <<\h0080,\h0000>>, <<\h0080,\h0000>>, <<\h0000,\h0200>>,
       <<\h0080,\h8002>>, <<\h0000,\h8000>>, <<\h0000,\h8200>>, <<\h0080,\h0002>>,
       <<\h0000,\h0200>>, <<\h0000,\h0002>>, <<\h0080,\h0202>>, <<\h0000,\h8202>>,
       <<\h0080,\h8202>>, <<\h0000,\h8002>>, <<\h0080,\h8000>>, <<\h0080,\h0202>>,
       <<\h0080,\h0002>>, <<\h0000,\h0202>>, <<\h0000,\h8202>>, <<\h0080,\h8200>>,
       <<\h0000,\h0202>>, <<\h0080,\h0200>>, <<\h0080,\h0200>>, <<\h0000,\h0000>>,
       <<\h0000,\h8002>>, <<\h0000,\h8200>>, <<\h0000,\h0000>>, <<\h0080,\h8002>> >>
   , << <<\h4008,\h4010>>, <<\h4000,\h4000>>, <<\h0000,\h4000>>, <<\h0008,\h4010>>,
       <<\h0008,\h0000>>, <<\h0000,\h0010>>, <<\h4008,\h0010>>, <<\h4000,\h4010>>,
       <<\h4000,\h0010>>, <<\h4008,\h4010>>, <<\h4008,\h4000>>, <<\h4000,\h0000>>,
       <<\h4000,\h4000>>, <<\h0008,\h0000>>, <<\h0000,\h0010>>, <<\h4008,\h0010>>,
       <<\h0008,\h4000>>, <<\h0008,\h0010>>, <<\h4000,\h4010>>, <<\h0000,\h0000>>,
       <<\h4000,\h0000>>, <<\h0000,\h4000>>, <<\h0008,\h4010>>, <<\h4008,\h0000>>,
       <<\h0008,\h0010>>, <<\h4000,\h0010>>, <<\h0000,\h0000>>, <<\h0008,\h4000>>,
       <<\h0000,\h4010>>, <<\h4008,\h4000>>, <<\h4008,\h0000>>, <<\h0000,\h4010>>,
       <<\h0000,\h0000>>, <<\h0008,\h4010>>, <<\h4008,\h0010>>, <<\h0008,\h0000>>,
       <<\h4000,\h4010>>, <<\h4008,\h0000>>, <<\h4008,\h4000>>, <<\h0000,\h4000>>,
       <<\h4008,\h0000>>, <<\h4000,\h4000>>, <<\h0000,\h0010>>, <<\h4008,\h4010>>,
       <<\h0008,\h4010>>, <<\h0000,\h0010>>, <<\h0000,\h4000>>, <<\h4000,\h0000>>,
       <<\h0000,\h4010>>, <<\h4008,\h4000>>, <<\h0008,\h0000>>, <<\h4000,\h0010>>,
       <<\h0008,\h0010>>, <<\h4000,\h4010>>, <<\h4000,\h0010>>, <<\h0008,\h0010>>,
       <<\h0008,\h4000>>, <<\h0000,\h0000>>, <<\h4000,\h4000>>, <<\h0000,\h4010>>,
       <<\h4000,\h0000>>, <<\h4008,\h0010>>, <<\h4008,\h4010>>, <<\h0008,\h4000>> >>
   , << <<\h0000,\h0104>>, <<\h0401,\h0100>>, <<\h0000,\h0000>>, <<\h0401,\h0004>>,
       <<\h0400,\h0100>>, <<\h0000,\h0000>>, <<\h0001,\h0104>>, <<\h0400,\h0100>>,
       <<\h0001,\h0004>>, <<\h0400,\h0004>>, <<\h0400,\h0004>>, <<\h0001,\h0000>>,
       <<\h0401,\h0104>>, <<\h0001,\h0004>>, <<\h0401,\h0000>>, <<\h0000,\h0104>>,
       <<\h0400,\h0000>>, <<\h0000,\h0004>>, <<\h0401,\h0100>>, <<\h0000,\h0100>>,
       <<\h0001,\h0100>>, <<\h0401,\h0000>>, <<\h0401,\h0004>>, <<\h0001,\h0104>>,
       <<\h0400,\h0104>>, <<\h0001,\h0100>>, <<\h0001,\h0000>>, <<\h0400,\h0104>>,
       <<\h0000,\h0004>>, <<\h0401,\h0104>>, <<\h0000,\h0100>>, <<\h0400,\h0000>>,
       <<\h0401,\h0100>>, <<\h0400,\h0000>>, <<\h0001,\h0004>>, <<\h0000,\h0104>>,
       <<\h0001,\h0000>>, <<\h0401,\h0100>>, <<\h0400,\h0100>>, <<\h0000,\h0000>>,
       <<\h0000,\h0100>>, <<\h0001,\h0004>>, <<\h0401,\h0104>>, <<\h0400,\h0100>>,
       <<\h0400,\h0004>>, <<\h0000,\h0100>>, <<\h0000,\h0000>>, <<\h0401,\h0004>>,
       <<\h0400,\h0104>>, <<\h0001,\h0000>>, <<\h0400,\h0000>>, <<\h0401,\h0104>>,
       <<\h0000,\h0004>>, <<\h0001,\h0104>>, <<\h0001,\h0100>>, <<\h0400,\h0004>>,
       <<\h0401,\h0000>>, <<\h0400,\h0104>>, <<\h0000,\h0104>>, <<\h0401,\h0000>>,
       <<\h0001,\h0104>>, <<\h0000,\h0004>>, <<\h0401,\h0004>>, <<\h0001,\h0100>> >>
   , << <<\h8040,\h1000>>, <<\h8000,\h1040>>, <<\h8000,\h1040>>, <<\h0000,\h0040>>,
       <<\h0040,\h1040>>, <<\h8040,\h0040>>, <<\h8040,\h0000>>, <<\h8000,\h1000>>,
       <<\h0000,\h0000>>, <<\h0040,\h1000>>, <<\h0040,\h1000>>, <<\h8040,\h1040>>,
       <<\h8000,\h0040>>, <<\h0000,\h0000>>, <<\h0040,\h0040>>, <<\h8040,\h0000>>,
       <<\h8000,\h0000>>, <<\h0000,\h1000>>, <<\h0040,\h0000>>, <<\h8040,\h1000>>,
       <<\h0000,\h0040>>, <<\h0040,\h0000>>, <<\h8000,\h1000>>, <<\h0000,\h1040>>,
       <<\h8040,\h0040>>, <<\h8000,\h0000>>, <<\h0000,\h1040>>, <<\h0040,\h0040>>,
       <<\h0000,\h1000>>, <<\h0040,\h1040>>, <<\h8040,\h1040>>, <<\h8000,\h0040>>,
       <<\h0040,\h0040>>, <<\h8040,\h0000>>, <<\h0040,\h1000>>, <<\h8040,\h1040>>,
       <<\h8000,\h0040>>, <<\h0000,\h0000>>, <<\h0000,\h0000>>, <<\h0040,\h1000>>,
       <<\h0000,\h1040>>, <<\h0040,\h0040>>, <<\h8040,\h0040>>, <<\h8000,\h0000>>,
       <<\h8040,\h1000>>, <<\h8000,\h1040>>, <<\h8000,\h1040>>, <<\h0000,\h0040>>,
       <<\h8040,\h1040>>, <<\h8000,\h0040>>, <<\h8000,\h0000>>, <<\h0000,\h1000>>,
       <<\h8040,\h0000>>, <<\h8000,\h1000>>, <<\h0040,\h1040>>, <<\h8040,\h0040>>,
       <<\h8000,\h1000>>, <<\h0000,\h1040>>, <<\h0040,\h0000>>, <<\h8040,\h1000>>,
       <<\h0000,\h0040>>, <<\h0040,\h0000>>, <<\h0000,\h1000>>, <<\h0040,\h1040>> >>
   , << <<\h0000,\h0080>>, <<\h0104,\h0080>>, <<\h0104,\h0000>>, <<\h2100,\h0080>>,
       <<\h0004,\h0000>>, <<\h0000,\h0080>>, <<\h2000,\h0000>>, <<\h0104,\h0000>>,
       <<\h2004,\h0080>>, <<\h0004,\h0000>>, <<\h0100,\h0080>>, <<\h2004,\h0080>>,
       <<\h2100,\h0080>>, <<\h2104,\h0000>>, <<\h0004,\h0080>>, <<\h2000,\h0000>>,
       <<\h0100,\h0000>>, <<\h2004,\h0000>>, <<\h2004,\h0000>>, <<\h0000,\h0000>>,
       <<\h2000,\h0080>>, <<\h2104,\h0080>>, <<\h2104,\h0080>>, <<\h0100,\h0080>>,
       <<\h2104,\h0000>>, <<\h2000,\h0080>>, <<\h0000,\h0000>>, <<\h2100,\h0000>>,
       <<\h0104,\h0080>>, <<\h0100,\h0000>>, <<\h2100,\h0000>>, <<\h0004,\h0080>>,
       <<\h0004,\h0000>>, <<\h2100,\h0080>>, <<\h0000,\h0080>>, <<\h0100,\h0000>>,
       <<\h2000,\h0000>>, <<\h0104,\h0000>>, <<\h2100,\h0080>>, <<\h2004,\h0080>>,
       <<\h0100,\h0080>>, <<\h2000,\h0000>>, <<\h2104,\h0000>>, <<\h0104,\h0080>>,
       <<\h2004,\h0080>>, <<\h0000,\h0080>>, <<\h0100,\h0000>>, <<\h2104,\h0000>>,
       <<\h2104,\h0080>>, <<\h0004,\h0080>>, <<\h2100,\h0000>>, <<\h2104,\h0080>>,
       <<\h0104,\h0000>>, <<\h0000,\h0000>>, <<\h2004,\h0000>>, <<\h2100,\h0000>>,
       <<\h0004,\h0080>>, <<\h0100,\h0080>>, <<\h2000,\h0080>>, <<\h0004,\h0000>>,
       <<\h0000,\h0000>>, <<\h2004,\h0000>>, <<\h0104,\h0080>>, <<\h2000,\h0080>> >>
   , << <<\h1000,\h0008>>, <<\h1020,\h0000>>, <<\h0000,\h2000>>, <<\h1020,\h2008>>,
       <<\h1020,\h0000>>, <<\h0000,\h0008>>, <<\h1020,\h2008>>, <<\h0020,\h0000>>,
       <<\h1000,\h2000>>, <<\h0020,\h2008>>, <<\h0020,\h0000>>, <<\h1000,\h0008>>,
       <<\h0020,\h0008>>, <<\h1000,\h2000>>, <<\h1000,\h0000>>, <<\h0000,\h2008>>,
       <<\h0000,\h0000>>, <<\h0020,\h0008>>, <<\h1000,\h2008>>, <<\h0000,\h2000>>,
       <<\h0020,\h2000>>, <<\h1000,\h2008>>, <<\h0000,\h0008>>, <<\h1020,\h0008>>,
       <<\h1020,\h0008>>, <<\h0000,\h0000>>, <<\h0020,\h2008>>, <<\h1020,\h2000>>,
       <<\h0000,\h2008>>, <<\h0020,\h2000>>, <<\h1020,\h2000>>, <<\h1000,\h0000>>,
       <<\h1000,\h2000>>, <<\h0000,\h0008>>, <<\h1020,\h0008>>, <<\h0020,\h2000>>,
       <<\h1020,\h2008>>, <<\h0020,\h0000>>, <<\h0000,\h2008>>, <<\h1000,\h0008>>,
       <<\h0020,\h0000>>, <<\h1000,\h2000>>, <<\h1000,\h0000>>, <<\h0000,\h2008>>,
       <<\h1000,\h0008>>, <<\h1020,\h2008>>, <<\h0020,\h2000>>, <<\h1020,\h0000>>,
       <<\h0020,\h2008>>, <<\h1020,\h2000>>, <<\h0000,\h0000>>, <<\h1020,\h0008>>,
       <<\h0000,\h0008>>, <<\h0000,\h2000>>, <<\h1020,\h0000>>, <<\h0020,\h2008>>,
       <<\h0000,\h2000>>, <<\h0020,\h0008>>, <<\h1000,\h2008>>, <<\h0000,\h0000>>,
       <<\h1020,\h2000>>, <<\h1000,\h0000>>, <<\h0020,\h0008>>, <<\h1000,\h2008>> >>
   , << <<\h0010,\h0000>>, <<\h0210,\h0001>>, <<\h0200,\h0401>>, <<\h0000,\h0000>>,
       <<\h0000,\h0400>>, <<\h0200,\h0401>>, <<\h0010,\h0401>>, <<\h0210,\h0400>>,
       <<\h0210,\h0401>>, <<\h0010,\h0000>>, <<\h0000,\h0000>>, <<\h0200,\h0001>>,
       <<\h0000,\h0001>>, <<\h0200,\h0000>>, <<\h0210,\h0001>>, <<\h0000,\h0401>>,
       <<\h0200,\h0400>>, <<\h0010,\h0401>>, <<\h0010,\h0001>>, <<\h0200,\h0400>>,
       <<\h0200,\h0001>>, <<\h0210,\h0000>>, <<\h0210,\h0400>>, <<\h0010,\h0001>>,
       <<\h0210,\h0000>>, <<\h0000,\h0400>>, <<\h0000,\h0401>>, <<\h0210,\h0401>>,
       <<\h0010,\h0400>>, <<\h0000,\h0001>>, <<\h0200,\h0000>>, <<\h0010,\h0400>>,
       <<\h0200,\h0000>>, <<\h0010,\h0400>>, <<\h0010,\h0000>>, <<\h0200,\h0401>>,
       <<\h0200,\h0401>>, <<\h0210,\h0001>>, <<\h0210,\h0001>>, <<\h0000,\h0001>>,
       <<\h0010,\h0001>>, <<\h0200,\h0000>>, <<\h0200,\h0400>>, <<\h0010,\h0000>>,
       <<\h0210,\h0400>>, <<\h0000,\h0401>>, <<\h0010,\h0401>>, <<\h0210,\h0400>>,
       <<\h0000,\h0401>>, <<\h0200,\h0001>>, <<\h0210,\h0401>>, <<\h0210,\h0000>>,
       <<\h0010,\h0400>>, <<\h0000,\h0000>>, <<\h0000,\h0001>>, <<\h0210,\h0401>>,
       <<\h0000,\h0000>>, <<\h0010,\h0401>>, <<\h0210,\h0000>>, <<\h0000,\h0400>>,
       <<\h0200,\h0001>>, <<\h0200,\h0400>>, <<\h0000,\h0400>>, <<\h0010,\h0001>> >>
   , << <<\h0800,\h0820>>, <<\h0000,\h0800>>, <<\h0002,\h0000>>, <<\h0802,\h0820>>,
       <<\h0800,\h0000>>, <<\h0800,\h0820>>, <<\h0000,\h0020>>, <<\h0800,\h0000>>,
       <<\h0002,\h0020>>, <<\h0802,\h0000>>, <<\h0802,\h0820>>, <<\h0002,\h0800>>,
       <<\h0802,\h0800>>, <<\h0002,\h0820>>, <<\h0000,\h0800>>, <<\h0000,\h0020>>,
       <<\h0802,\h0000>>, <<\h0800,\h0020>>, <<\h0800,\h0800>>, <<\h0000,\h0820>>,
       <<\h0002,\h0800>>, <<\h0002,\h0020>>, <<\h0802,\h0020>>, <<\h0802,\h0800>>,
       <<\h0000,\h0820>>, <<\h0000,\h0000>>, <<\h0000,\h0000>>, <<\h0802,\h0020>>,
       <<\h0800,\h0020>>, <<\h0800,\h0800>>, <<\h0002,\h0820>>, <<\h0002,\h0000>>,
       <<\h0002,\h0820>>, <<\h0002,\h0000>>, <<\h0802,\h0800>>, <<\h0000,\h0800>>,
       <<\h0000,\h0020>>, <<\h0802,\h0020>>, <<\h0000,\h0800>>, <<\h0002,\h0820>>,
       <<\h0800,\h0800>>, <<\h0000,\h0020>>, <<\h0800,\h0020>>, <<\h0802,\h0000>>,
       <<\h0802,\h0020>>, <<\h0800,\h0000>>, <<\h0002,\h0000>>, <<\h0800,\h0820>>,
       <<\h0000,\h0000>>, <<\h0802,\h0820>>, <<\h0002,\h0020>>, <<\h0800,\h0020>>,
       <<\h0802,\h0000>>, <<\h0800,\h0800>>, <<\h0800,\h0820>>, <<\h0000,\h0000>>,
       <<\h0802,\h0820>>, <<\h0002,\h0800>>, <<\h0002,\h0800>>, <<\h0000,\h0820>>,
       <<\h0000,\h0820>>, <<\h0002,\h0020>>, <<\h0800,\h0000>>, <<\h0802,\h0800>> >>
   >>

(* leftkey_swap[16]. *)
LeftkeySwap ==
  << <<\h0000,\h0000>>, <<\h0000,\h0001>>, <<\h0000,\h0100>>, <<\h0000,\h0101>>,
     <<\h0001,\h0000>>, <<\h0001,\h0001>>, <<\h0001,\h0100>>, <<\h0001,\h0101>>,
     <<\h0100,\h0000>>, <<\h0100,\h0001>>, <<\h0100,\h0100>>, <<\h0100,\h0101>>,
     <<\h0101,\h0000>>, <<\h0101,\h0001>>, <<\h0101,\h0100>>, <<\h0101,\h0101>> >>

(* rightkey_swap[16]. *)
RightkeySwap ==
  << <<\h0000,\h0000>>, <<\h0100,\h0000>>, <<\h0001,\h0000>>, <<\h0101,\h0000>>,
     <<\h0000,\h0100>>, <<\h0100,\h0100>>, <<\h0001,\h0100>>, <<\h0101,\h0100>>,
     <<\h0000,\h0001>>, <<\h0100,\h0001>>, <<\h0001,\h0001>>, <<\h0101,\h0001>>,
     <<\h0000,\h0101>>, <<\h0100,\h0101>>, <<\h0001,\h0101>>, <<\h0101,\h0101>> >>

(* encrypt_rotate_tab[16]: left shifts of the key halves per round. *)
EncryptRotateTab == <<1, 1, 2, 2, 2, 2, 2, 2, 1, 2, 2, 2, 2, 2, 2, 1>>

-----------------------------------------------------------------------------
(* DO_PERMUTATION(a, temp, b, offset, mask) on the pair <<a, b>>:          *)
(*   temp = ((a >> offset) ^ b) & mask;  b ^= temp;  a ^= temp << offset;  *)
DoPermutation(ab, offset, mask) ==
  LET t == AndT(XorT(ShrW(ab[1], offset), ab[2]), Word(mask))
  IN <<XorT(ab[1], ShlW(t, offset)), XorT(ab[2], t)>>

(* DO_PERMUTATION(b, temp, a, offset, mask) on the pair <<a, b>>. *)
DoPermutationRev(ab, offset, mask) ==
  LET ba == DoPermutation(<<ab[2], ab[1]>>, offset, mask) IN <<ba[2], ba[1]>>

(* INITIAL_PERMUTATION(left, temp, right) on <<left, right>>. *)
InitialPermutation(lr) ==
  LET p1 == DoPermutation(lr, 4, \h0f0f0f0f)
      p2 == DoPermutation(p1, 16, \h0000ffff)
      p3 == DoPermutationRev(p2, 2, \h33333333)
      p4 == DoPermutationRev(p3, 8, \h00ff00ff)
  IN DoPermutation(p4, 1, \h55555555)

(* FINAL_PERMUTATION(left, temp, right) on <<left, right>>. *)
FinalPermutation(lr) ==
  LET p1 == DoPermutation(lr, 1, \h55555555)
      p2 == DoPermutationRev(p1, 8, \h00ff00ff)
      p3 == DoPermutationRev(p2, 2, \h33333333)
      p4 == DoPermutation(p3, 16, \h0000ffff)
  IN DoPermutation(p4, 4, \h0f0f0f0f)

(* READ_64BIT_DATA and WRITE_64BIT_DATA. *)
Read64(d) == <<WordOf(SubSeq(d, 1, 4)), WordOf(SubSeq(d, 5, 8))>>

Write64(lr) == BytesOf(lr[1]) \o BytesOf(lr[2])

-----------------------------------------------------------------------------
(* Mutant of DesRound: the second half of the expansion rotates right by   *)
(* 4 instead of 3.                                                         *)
DesRoundRotr4(from, to, k1, k2) ==
  LET w1 == XorT(RotL(from, 1), k1)
      w2 == XorT(RotR(from, 4), k2)
      S(k, w, n) == SBox[k][(ShrW(w, n)[2] % 64) + 1]
  IN XorT(to, XorT(XorT(XorT(S(8, w1, 0), S(6, w1, 8)), XorT(S(4, w1, 16), S(2, w1, 24))),
                   XorT(XorT(S(7, w2, 0), S(5, w2, 8)), XorT(S(3, w2, 16), S(1, w2, 24)))))

(* DES_ROUND(from, to, work, subkey): the new value of `to`, for the two  *)
(* subkeys the macro consumes.                                             *)
DesRound(from, to, k1, k2) ==
  LET w1 == XorT(RotL(from, 1), k1)
      w2 == XorT(RotR(from, 3), k2)
      S(k, w, n) == SBox[k][(ShrW(w, n)[2] % 64) + 1]
  IN XorT(to, XorT(XorT(XorT(S(8, w1, 0), S(6, w1, 8)), XorT(S(4, w1, 16), S(2, w1, 24))),
                   XorT(XorT(S(7, w2, 0), S(5, w2, 8)), XorT(S(3, w2, 16), S(1, w2, 24)))))

(* DES_ROUND(right, left, ...) then DES_ROUND(left, right, ...), the r-th *)
(* pair of the sixteen rounds of des_ecb_crypt, on <<left, right>>.       *)
DoubleRound(lr, keys, r) ==
  LET l == DesRound(lr[2], lr[1], keys[4 * r + 1], keys[4 * r + 2])
  IN <<l, DesRound(l, lr[2], keys[4 * r + 3], keys[4 * r + 4])>>

(* The sixteen rounds from pair r on. *)
RECURSIVE DesRounds(_, _, _)
DesRounds(lr, keys, r) ==
  IF r = 8 \/ ~IsWord(lr[1]) THEN lr
  ELSE LET next == DoubleRound(lr, keys, r) IN DesRounds(next, keys, r + 1)

(* des_ecb_crypt(ctx, from, to, mode): the 8 bytes written to `to`.  (The *)
(* comparison keys # <<>>, true of the 32 subkeys, makes TLC compute them  *)
(* all before the rounds.)                                                 *)
DesEcbCrypt(ctx, from, mode) ==
  LET keys == IF mode # 0 THEN ctx.dec ELSE ctx.enc
      ip   == InitialPermutation(Read64(from))
      lr   == DesRounds(ip, keys, 0)
  IN IF keys # <<>> /\ IsWord(ip[1]) /\ IsWord(lr[1])
     THEN Write64(FinalPermutation(<<lr[2], lr[1]>>)) ELSE <<>>

-----------------------------------------------------------------------------
(* The key schedule. *)

(* (x >> s) for s < 0, (x << s) for s >= 0. *)
Shift(x, s) == IF s >= 0 THEN ShlW(x, s) ELSE ShrW(x, -s)

(* OR of (x shifted by s) & mask over the <<s, mask>> terms. *)
Gather(x, terms) ==
  OrAll([i \in DOMAIN terms |-> AndT(Shift(x, terms[i][1]), Word(terms[i][2]))],
        Len(terms))

(* OR of (swap[(x >> s) & 0xf] << t) over the <<s, t>> terms, & 0x0fffffff. *)
SwapBits(swap, x, terms) ==
  AndT(Word(\h0fffffff),
       OrAll([i \in DOMAIN terms |->
                ShlW(swap[(ShrW(x, terms[i][1])[2] % 16) + 1], terms[i][2])],
             Len(terms)))

LeftTerms  == <<<<0, 3>>, <<8, 2>>, <<16, 1>>, <<24, 0>>,
               <<5, 7>>, <<13, 6>>, <<21, 5>>, <<29, 4>>>>
RightTerms == <<<<1, 3>>, <<9, 2>>, <<17, 1>>, <<25, 0>>,
               <<4, 7>>, <<12, 6>>, <<20, 5>>, <<28, 4>>>>

(* The terms of the two subkeys of a round, from left and from right. *)
Subkey1Left  == <<<<4, \h24000000>>, <<28, \h10000000>>, <<14, \h08000000>>,
                 <<18, \h02080000>>, <<6, \h01000000>>, <<9, \h00200000>>,
                 <<-1, \h00100000>>, <<10, \h00040000>>, <<2, \h00020000>>,
                 <<-10, \h00010000>>>>
Subkey1Right == <<<<-13, \h00002000>>, <<-4, \h00001000>>, <<6, \h00000800>>,
                 <<-1, \h00000400>>, <<-14, \h00000200>>, <<0, \h00000100>>,
                 <<-5, \h00000020>>, <<-10, \h00000010>>, <<-3, \h00000008>>,
                 <<-18, \h00000004>>, <<-26, \h00000002>>, <<-24, \h00000001>>>>
Subkey2Left  == <<<<15, \h20000000>>, <<17, \h10000000>>, <<10, \h08000000>>,
                 <<22, \h04000000>>, <<-2, \h02000000>>, <<1, \h01000000>>,
                 <<16, \h00200000>>, <<11, \h00100000>>, <<3, \h00080000>>,
                 <<-6, \h00040000>>, <<15, \h00020000>>, <<-4, \h00010000>>>>
Subkey2Right == <<<<-2, \h00002000>>, <<8, \h00001000>>, <<-14, \h00000808>>,
                 <<-9, \h00000400>>, <<0, \h00000200>>, <<7, \h00000100>>,
                 <<-7, \h00000020>>, <<-3, \h00000011>>, <<2, \h00000004>>,
                 <<-21, \h00000002>>>>

(* The loop of des_key_schedule: in round k (0-based) both 28-bit halves  *)
(* are rotated left by encrypt_rotate_tab[k], then the two subkeys are     *)
(* gathered from them.  After rounds 0..k the halves have been rotated by  *)
(* the sum of encrypt_rotate_tab[0..k] (less than 28 until the last round, *)
(* where it is 28, a full turn), so subkeys 2k and 2k+1 are gathered from  *)
(* the initial halves rotated that far.                                   *)
Rot28(x, n) == AndT(OrT(ShlW(x, n), ShrW(x, 28 - n)), Word(\h0fffffff))

RECURSIVE Rotated(_)
Rotated(k) == EncryptRotateTab[k + 1] + (IF k = 0 THEN 0 ELSE Rotated(k - 1))

KeyRounds(l, r) ==
  [j \in 1..32 |->
     LET k  == (j - 1) \div 2
         l2 == Rot28(l, Rotated(k))
         r2 == Rot28(r, Rotated(k))
         g1 == Gather(l2, IF j % 2 = 1 THEN Subkey1Left ELSE Subkey2Left)
         g2 == Gather(r2, IF j % 2 = 1 THEN Subkey1Right ELSE Subkey2Right)
     IN IF IsWord(l2) /\ IsWord(r2) /\ IsWord(g1) /\ IsWord(g2)
        THEN OrT(g1, g2) ELSE Zero32]

(* des_key_schedule(rawkey, subkey): the 32 encrypt subkeys. *)
DesKeySchedule(rawkey) ==
  LET lr == DoPermutationRev(DoPermutationRev(Read64(rawkey), 4, \h0f0f0f0f),
                             0, \h10101010)
      l  == SwapBits(LeftkeySwap, lr[1], LeftTerms)
      r  == SwapBits(RightkeySwap, lr[2], RightTerms)
  IN IF IsWord(lr[1]) /\ IsWord(l) /\ IsWord(r) THEN KeyRounds(l, r) ELSE <<>>

(* Mutant of DesSetKey: the decrypt subkeys in plain reverse order, so    *)
(* each round's two subkeys are swapped.                                   *)
DesSetKeyReversed(key) ==
  LET enc == DesKeySchedule(key)
  IN [enc |-> enc, dec |-> [j \in 1..32 |-> enc[33 - j]]]

(* des_set_key: decrypt_subkeys[i] = encrypt_subkeys[30 - i] and          *)
(* decrypt_subkeys[i + 1] = encrypt_subkeys[31 - i] for even i.           *)
DesSetKey(key) ==
  LET enc == DesKeySchedule(key)
  IN [enc |-> enc,
      dec |-> [j \in 1..32 |-> IF j % 2 = 1 THEN enc[32 - j] ELSE enc[34 - j]]]
=============================================================================
