------------------------------ MODULE Rc4Spec ------------------------------
(***************************************************************************)
(* What an RC4 context promises (spec.md 3 "RC4 state", 4.5): set_key     *)
(* schedules the key over the identity permutation, and from then on the  *)
(* context emits one continuous keystream across however many encrypt     *)
(* calls it receives; reset returns to the unkeyed identity table and the *)
(* default key length of 5.                                                *)
(*                                                                         *)
(*   keyLen  the key length set_key will use                               *)
(*   key     the key last scheduled, with its length, or NoKey             *)
(*   pos     keystream bytes consumed since the key was scheduled          *)
(*   out     output of the last encrypt call                               *)
(*                                                                         *)
(* The keystream is recomputed from scratch, following the text of 4.5.    *)
(***************************************************************************)
EXTENDS Naturals, Sequences, Bitwise

CONSTANTS
  N,          \* size of the permutation (256)
  Keys,       \* key buffers callers pass to set_key
  KeyLens,    \* values callers set through set_option("key_len")
  Msgs,       \* data passed to encrypt
  MaxStream   \* bound on the keystream bytes consumed per key

VARIABLES keyLen, key, pos, out

specVars == <<keyLen, key, pos, out>>

NoKey == [k |-> <<>>, len |-> 0]

IdentityTable == [i \in 0..(N - 1) |-> i]

Exchange(t, a, b) == [t EXCEPT ![a] = t[b], ![b] = t[a]]

(* Key scheduling over the identity: for i in 0..N-1,                      *)
(* y = (key[i mod key_len] + table[i] + y) mod N, swap table[i], table[y]. *)
(* KeyRounds does rounds i..hi-1 on c = [t, y]; KeySchedule all N, in     *)
(* runs of sixteen.                                                       *)
RECURSIVE KeyRounds(_, _, _, _, _)
KeyRounds(c, k, kl, i, hi) ==
  IF i = hi \/ c.y \notin 0..(N - 1) THEN c
  ELSE LET y1 == (k[(i % kl) + 1] + c.t[i] + c.y) % N
       IN KeyRounds([t |-> Exchange(c.t, i, y1), y |-> y1], k, kl, i + 1, hi)

RECURSIVE KeySchedule(_, _, _, _)
KeySchedule(c, k, kl, i) ==
  IF i >= N \/ c.y \notin 0..(N - 1) THEN c.t
  ELSE KeySchedule(KeyRounds(c, k, kl, i, i + 16), k, kl, i + 16)

KeyedTable(kr) == IF kr = NoKey THEN IdentityTable
                  ELSE KeySchedule([t |-> IdentityTable, y |-> 0], kr.k, kr.len, 0)

(* The first n keystream bytes generated from table t with x = y = 0.    *)
RECURSIVE Stream(_, _, _, _)
Stream(t, x, y, n) ==
  IF n = 0 \/ y \notin 0..(N - 1) THEN <<>>
  ELSE LET x1 == (x + 1) % N
           y1 == (t[x1] + y) % N
           t1 == Exchange(t, x1, y1)
       IN <<t1[(t1[x1] + t1[y1]) % N]>> \o Stream(t1, x1, y1, n - 1)

Init ==
  /\ keyLen = 5
  /\ key = NoKey
  /\ pos = 0
  /\ out = <<>>

SetKeyLen(l) ==
  /\ keyLen' = l
  /\ UNCHANGED <<key, pos, out>>

SetKey(k) ==
  /\ key' = [k |-> k, len |-> keyLen]
  /\ pos' = 0
  /\ UNCHANGED <<keyLen, out>>

Encrypt(d) ==
  LET ks == Stream(KeyedTable(key), 0, 0, pos + Len(d))
  IN /\ out' = [m \in 1..Len(d) |-> d[m] ^^ ks[pos + m]]
     /\ pos' = pos + Len(d)
     /\ UNCHANGED <<keyLen, key>>

Reset ==
  /\ keyLen' = 5
  /\ key' = NoKey
  /\ pos' = 0
  /\ UNCHANGED out

Next ==
  \/ \E l \in KeyLens : SetKeyLen(l)
  \/ \E k \in Keys : SetKey(k)
  \/ \E d \in Msgs : Encrypt(d)
  \/ Reset

Spec == Init /\ [][Next]_specVars
=============================================================================
