-------------------------------- MODULE Rc4 --------------------------------
(***************************************************************************)
(* The RC4 context of libpurple/cipher.c: struct RC4Context and the rc4_ *)
(*                                                                         *)
(*   state     the permutation table state[256]                            *)
(*   x, y      the running indices stored in the context                   *)
(*   keyLen    key_len, the number of key bytes set_key cycles through     *)
(*   out       output of the last rc4_encrypt call                         *)
(*                                                                         *)
(* History (not in the code, for the properties and the refinement):      *)
(*   keyed     the key last passed to set_key, with the key_len then used  *)
(*   pt, ct    the data encrypted since then and its ciphertext            *)
(***************************************************************************)
EXTENDS Naturals, Sequences, Bitwise

CONSTANTS N, Keys, KeyLens, Msgs, MaxStream

ASSUME N % 16 = 0

VARIABLES state, x, y, keyLen, out, keyed, pt, ct

vars == <<state, x, y, keyLen, out, keyed, pt, ct>>

NoKey == [k |-> <<>>, len |-> 0]

(* Mutant of Swap: state[i] = state[y]; state[y] = state[i], no temp.    *)
SwapNoTemp(t, a, b) == [t EXCEPT ![a] = t[b], ![b] = t[b]]

(* temp_swap = state[a]; state[a] = state[b]; state[b] = temp_swap. *)
Swap(t, a, b) == [t EXCEPT ![a] = t[b], ![b] = t[a]]

(* rc4_reset: state[i] = i, x = y = 0, key_len = 5. *)
ResetTable == [i \in 0..(N - 1) |-> i]

(* One iteration of the loop of rc4_set_key on c = [t, kx, ky]: the key   *)
(* index kx (a guchar) cycles modulo key_len, the local y accumulates.    *)
SetKeyStep(c, k, kl, i) ==
  LET y1 == (k[c.kx + 1] + c.t[i] + c.ky) % N
  IN [t |-> Swap(c.t, i, y1), kx |-> ((c.kx + 1) % kl) % 256, ky |-> y1]

(* Iterations i..hi-1 of that loop. *)
RECURSIVE SetKeyRun(_, _, _, _, _)
SetKeyRun(c, k, kl, i, hi) ==
  IF i = hi \/ c.ky \notin 0..(N - 1) THEN c
  ELSE SetKeyRun(SetKeyStep(c, k, kl, i), k, kl, i + 1, hi)

(* The whole loop, i = 0..N-1, over the CURRENT table, from kx = y = 0,   *)
(* run sixteen iterations at a time; ctx->x and ctx->y are untouched.     *)
RECURSIVE SetKeyLoop(_, _, _, _)
SetKeyLoop(c, k, kl, i) ==
  IF i >= N \/ c.ky \notin 0..(N - 1) THEN c.t
  ELSE SetKeyLoop(SetKeyRun(c, k, kl, i, i + 16), k, kl, i + 16)

(* Mutant of EncryptLoop: y is advanced by state[x] before x is.         *)
RECURSIVE EncryptLoopLateX(_, _, _)
EncryptLoopLateX(c, d, i) ==
  IF i > Len(d) \/ c.y \notin 0..(N - 1) THEN c
  ELSE LET x1 == (c.x + 1) % N
           y1 == (c.t[c.x] + c.y) % N
           t1 == Swap(c.t, x1, y1)
           z  == (t1[x1] + t1[y1]) % N
       IN EncryptLoopLateX([t |-> t1, x |-> x1, y |-> y1,
                            o |-> Append(c.o, d[i] ^^ t1[z])], d, i + 1)

(* The loop of rc4_encrypt on c = [t, x, y, o] from byte i: advance x,    *)
(* y += state[x], swap, z = state[x] + state[y] (a guchar, so mod 256),   *)
(* output data[i] ^ state[z].                                             *)
RECURSIVE EncryptLoop(_, _, _)
EncryptLoop(c, d, i) ==
  IF i > Len(d) \/ c.y \notin 0..(N - 1) THEN c
  ELSE LET x1 == (c.x + 1) % N
           y1 == (c.t[x1] + c.y) % N
           t1 == Swap(c.t, x1, y1)
           z  == (t1[x1] + t1[y1]) % N
       IN EncryptLoop([t |-> t1, x |-> x1, y |-> y1,
                       o |-> Append(c.o, d[i] ^^ t1[z])], d, i + 1)

(* rc4_init: g_new0 and rc4_reset. *)
Init ==
  /\ state = ResetTable
  /\ x = 0 /\ y = 0
  /\ keyLen = 5
  /\ out = <<>>
  /\ keyed = NoKey /\ pt = <<>> /\ ct = <<>>

(* rc4_set_opt("key_len"). *)
SetKeyLen(l) ==
  /\ keyLen' = l
  /\ UNCHANGED <<state, x, y, out, keyed, pt, ct>>

(* rc4_set_key, called (as every caller does) with a key buffer of at    *)
(* least key_len bytes.                                                   *)
SetKey(k) ==
  /\ Len(k) >= keyLen
  /\ state' = SetKeyLoop([t |-> state, kx |-> 0, ky |-> 0], k, keyLen, 0)
  /\ keyed' = [k |-> k, len |-> keyLen]
  /\ pt' = <<>> /\ ct' = <<>>
  /\ UNCHANGED <<x, y, keyLen, out>>

(* Mutant of Encrypt: ctx->x and ctx->y are not written back.             *)
EncryptNoSave(d) ==
  LET c == EncryptLoop([t |-> state, x |-> x, y |-> y, o |-> <<>>], d, 1)
  IN /\ Len(pt) + Len(d) <= MaxStream
     /\ state' = c.t
     /\ out' = c.o
     /\ pt' = pt \o d /\ ct' = ct \o c.o
     /\ UNCHANGED <<x, y, keyLen, keyed>>

(* rc4_encrypt: run the loop from the stored x, y and table, store x, y. *)
Encrypt(d) ==
  LET c == EncryptLoop([t |-> state, x |-> x, y |-> y, o |-> <<>>], d, 1)
  IN /\ Len(pt) + Len(d) <= MaxStream
     /\ state' = c.t
     /\ x' = c.x /\ y' = c.y
     /\ out' = c.o
     /\ pt' = pt \o d /\ ct' = ct \o c.o
     /\ UNCHANGED <<keyLen, keyed>>

(* purple_cipher_context_reset -> rc4_reset. *)
Reset ==
  /\ state' = ResetTable
  /\ x' = 0 /\ y' = 0
  /\ keyLen' = 5
  /\ keyed' = NoKey /\ pt' = <<>> /\ ct' = <<>>
  /\ UNCHANGED out

Next ==
  \/ \E l \in KeyLens : SetKeyLen(l)
  \/ \E k \in Keys : SetKey(k)
  \/ \E d \in Msgs : Encrypt(d)
  \/ Reset

Spec == Init /\ [][Next]_vars

(* Callers that follow spec.md 4.5 and key only a new or reset context.  *)
Fresh == keyed = NoKey /\ pt = <<>>

NextFreshKey ==
  \/ \E l \in KeyLens : SetKeyLen(l)
  \/ Fresh /\ \E k \in Keys : SetKey(k)
  \/ \E d \in Msgs : Encrypt(d)
  \/ Reset

SpecFreshKey == Init /\ [][NextFreshKey]_vars

-----------------------------------------------------------------------------
(* The table is always a permutation of 0..255: every step of set_key  *)
(* and encrypt only exchanges two entries.                              *)
TypeOK ==
  /\ state \in [0..(N - 1) -> 0..(N - 1)]
  /\ {state[i] : i \in 0..(N - 1)} = 0..(N - 1)
  /\ x \in 0..(N - 1) /\ y \in 0..(N - 1)
  /\ keyLen \in KeyLens \cup {5}
  /\ Len(ct) = Len(pt)

(* The context implements Rc4Spec: every encrypt output is the plaintext *)
(* XORed with the standard RC4 keystream of the scheduled key, continued *)
(* from where the previous encrypt call stopped.                         *)
Abs == INSTANCE Rc4Spec WITH key <- keyed, pos <- Len(pt)

RefinesRc4Spec == Abs!Spec
=============================================================================
