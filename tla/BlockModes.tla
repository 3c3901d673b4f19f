----------------------------- MODULE BlockModes -----------------------------
(***************************************************************************)
(* The DES and Triple-DES contexts of libpurple/cipher.c: key schedules,  *)
(* des_ecb_crypt, the ECB and CBC block loops with their zero-padded last  *)
(* block, the reported output length, set_iv and the batch mode.           *)
(*                                                                         *)
(* Data abstraction.  A byte of data is a bit (the code only copies bytes, *)
(* XORs them and feeds them to des_ecb_crypt), so a block is 8 bits and    *)
(* its two halves (left, right) are 4 bits.  des_ecb_crypt keeps its real  *)
(* structure: sixteen DES_ROUNDs alternating between the halves, each      *)
(* using two consecutive subkeys, then the halves written swapped.  The   *)
(* S-box stage and the bit-level key schedule are replaced by small        *)
(* functions of the same inputs; any function makes the Feistel network   *)
(* invertible, so what is checked is everything the code does around     *)
(* them.                                                                   *)
(*                                                                         *)
(*   desKs      encrypt/decrypt subkeys of the DES context                 *)
(*   des3       mode, iv and the three subkey pairs of the 3DES context    *)
(*   encLast    per cipher, the last encrypt call and the keys it used     *)
(*   last       the last encrypt or decrypt call of either context         *)
(***************************************************************************)
EXTENDS Naturals, Sequences, SequencesExt

CONSTANTS
  Contexts,   \* the contexts in use: a subset of {"des", "des3"}
  Keys,       \* keys callers pass to des set_key
  KeyTriples, \* 24-byte keys passed to des3 set_key, as three DES keys
  Msgs,       \* data passed to encrypt / decrypt (sequences of bits)
  IVs         \* buffers passed to set_iv; len is their length

VARIABLES desKs, des3, encLast, last

vars == <<desKs, des3, encLast, last>>

Ciphers == {"des", "des3"}
Modes == {"ECB", "CBC"}

Xor(a, b) == [i \in DOMAIN a |-> (a[i] + b[i]) % 2]
Num4(h) == 8 * h[1] + 4 * h[2] + 2 * h[3] + h[4]
Bits4(v) == <<(v \div 8) % 2, (v \div 4) % 2, (v \div 2) % 2, v % 2>>

(* S-box substitution (row 0 of DES S1) standing for the eight sboxN.     *)
SBox(h) == Bits4(<<14, 4, 13, 1, 2, 15, 11, 8, 3, 10, 6, 12, 5, 9, 0, 7>>[Num4(h) + 1])

RotL(h) == <<h[2], h[3], h[4], h[1]>>
RotR(h) == <<h[4], h[1], h[2], h[3]>>

(* DES_ROUND(from, to, work, subkey): to ^= S(rotl(from) ^ subkey[0])     *)
(* ^ S(rotr(from) ^ subkey[1]).                                           *)
DesRound(from, to, ka, kb) ==
  Xor(to, Xor(SBox(Xor(RotL(from), Bits4(ka))), SBox(Xor(RotR(from), Bits4(kb)))))

(* The sixteen rounds of des_ecb_crypt, two at a time; i subkeys used.    *)
RECURSIVE Rounds(_, _, _, _)
Rounds(left, right, keys, i) ==
  IF i = 32 THEN right \o left
  ELSE LET l1 == DesRound(right, left, keys[i + 1], keys[i + 2])
           r1 == DesRound(l1, right, keys[i + 3], keys[i + 4])
       IN Rounds(l1, r1, keys, i + 4)

(* des_ecb_crypt with the subkey array selected by mode. *)
DesEcbCrypt(keys, blk) == Rounds(SubSeq(blk, 1, 4), SubSeq(blk, 5, 8), keys, 0)

(* des_key_schedule: 32 subkeys from a key (bit selection abstracted).    *)
KeySchedule(k) == [i \in 1..32 |-> (k * (2 * i + 1) + i) % 16]

(* Mutant of DecryptSubkeys: the subkeys reversed one by one, not in pairs. *)
DecryptSubkeysReversed(e) == [j \in 1..32 |-> e[33 - j]]

(* The loop of des_set_key / des3_set_key: decrypt_subkeys[i] =          *)
(* encrypt_subkeys[30 - i], [i + 1] = [31 - i] for even i (0-based).     *)
DecryptSubkeys(e) == [j \in 1..32 |-> IF j % 2 = 1 THEN e[32 - j] ELSE e[34 - j]]

Schedule(k) == [enc |-> KeySchedule(k), dec |-> DecryptSubkeys(KeySchedule(k))]

(* A g_new0'd struct _des_ctx: all subkeys zero. *)
ZeroKs == [enc |-> [i \in 1..32 |-> 0], dec |-> [i \in 1..32 |-> 0]]

(* The blocks the loops process: full blocks, then the remaining bytes    *)
(* copied into a zeroed 8-byte buffer.                                    *)
NBlocks(d) == (Len(d) + 7) \div 8
BlocksOf(d) ==
  [b \in 1..NBlocks(d) |->
     [i \in 1..8 |-> IF 8 * (b - 1) + i <= Len(d) THEN d[8 * (b - 1) + i] ELSE 0]]
Padded(d) == FlattenSeq(BlocksOf(d))

(* *outlen = len; if (offset < len) *outlen += len - offset;              *)
OutLen(d) == Len(d) + (Len(d) - 8 * (Len(d) \div 8))

(* The block loop of des_encrypt / des_decrypt: each block on its own. *)
DesEcb(keys, d) == FlattenSeq([b \in 1..NBlocks(d) |-> DesEcbCrypt(keys, BlocksOf(d)[b])])

(* Encrypt-decrypt-encrypt with key1, key2, key3, and its reverse. *)
Ede(s, blk) == DesEcbCrypt(s.key3.enc, DesEcbCrypt(s.key2.dec, DesEcbCrypt(s.key1.enc, blk)))
Ded(s, blk) == DesEcbCrypt(s.key1.dec, DesEcbCrypt(s.key2.enc, DesEcbCrypt(s.key3.dec, blk)))

(* des3_ecb_encrypt / des3_ecb_decrypt: the same loop, three passes a block. *)
Des3EcbEnc(s, d) == FlattenSeq([b \in 1..NBlocks(d) |-> Ede(s, BlocksOf(d)[b])])
Des3EcbDec(s, d) == FlattenSeq([b \in 1..NBlocks(d) |-> Ded(s, BlocksOf(d)[b])])

(* des3_cbc_encrypt: buf starts as the iv, each block is XORed into it,   *)
(* encrypted, and the ciphertext becomes the next buf.                    *)
RECURSIVE CbcEnc(_, _, _, _)
CbcEnc(s, bs, chain, b) ==
  IF b > Len(bs) THEN <<>>
  ELSE LET c == Ede(s, Xor(chain, bs[b])) IN c \o CbcEnc(s, bs, c, b + 1)

(* Mutant of CbcDec: link is taken from the output instead of the input.  *)
RECURSIVE CbcDecLinkOutput(_, _, _, _)
CbcDecLinkOutput(s, bs, link, b) ==
  IF b > Len(bs) THEN <<>>
  ELSE LET p == Xor(Ded(s, bs[b]), link) IN p \o CbcDecLinkOutput(s, bs, p, b + 1)

(* des3_cbc_decrypt: each block is decrypted and XORed with link, which  *)
(* starts as the iv and then is the previous ciphertext block.           *)
RECURSIVE CbcDec(_, _, _, _)
CbcDec(s, bs, link, b) ==
  IF b > Len(bs) THEN <<>>
  ELSE Xor(Ded(s, bs[b]), link) \o CbcDec(s, bs, bs[b], b + 1)

(* des3_encrypt / des3_decrypt dispatch on the batch mode. *)
Des3EncryptOut(s, d) ==
  CASE s.mode = "ECB" -> Des3EcbEnc(s, d)
    [] s.mode = "CBC" -> CbcEnc(s, BlocksOf(d), s.iv, 1)

Des3DecryptOut(s, d) ==
  CASE s.mode = "ECB" -> Des3EcbDec(s, d)
    [] s.mode = "CBC" -> CbcDec(s, BlocksOf(d), s.iv, 1)

NoCall == [op |-> "none"]

Call(op, c, d, out, conf) ==
  [op |-> op, cipher |-> c, input |-> d, output |-> out, outlen |-> OutLen(d), conf |-> conf]

(* Record an encrypt call, and remember it as the cipher's last one. *)
Encrypted(c, d, out, conf) ==
  /\ last' = Call("enc", c, d, out, conf)
  /\ encLast' = [encLast EXCEPT ![c] = Call("enc", c, d, out, conf)]

Decrypted(c, d, out, conf) ==
  /\ last' = Call("dec", c, d, out, conf)
  /\ UNCHANGED encLast

(* What a caller may decrypt: any data, or the last ciphertext. *)
DecInputs(c) == Msgs \cup {encLast[c].output : x \in {y \in {encLast[c]} : y.op = "enc"}}

(* des_init / des3_init: g_new0, so mode 0 (ECB), iv and subkeys zero. *)
Init ==
  /\ desKs = ZeroKs
  /\ des3 = [mode |-> "ECB", iv |-> [i \in 1..8 |-> 0],
             key1 |-> ZeroKs, key2 |-> ZeroKs, key3 |-> ZeroKs]
  /\ encLast = [c \in Ciphers |-> NoCall]
  /\ last = NoCall

DesSetKey(k) ==
  /\ desKs' = Schedule(k)
  /\ UNCHANGED <<des3, encLast, last>>

DesEncrypt(d) ==
  /\ Encrypted("des", d, DesEcb(desKs.enc, d), desKs)
  /\ UNCHANGED <<desKs, des3>>

DesDecrypt(d) ==
  /\ Decrypted("des", d, DesEcb(desKs.dec, d), desKs)
  /\ UNCHANGED <<desKs, des3>>

(* des3_set_key: the 24-byte key is three 8-byte DES keys. *)
Des3SetKey(k1, k2, k3) ==
  /\ des3' = [des3 EXCEPT !.key1 = Schedule(k1), !.key2 = Schedule(k2),
                          !.key3 = Schedule(k3)]
  /\ UNCHANGED <<desKs, encLast, last>>

(* Mutant of Des3SetIV: the len == 8 check is dropped. *)
Des3SetIVUnchecked(iv) ==
  /\ des3' = [des3 EXCEPT !.iv = iv]
  /\ UNCHANGED <<desKs, encLast, last>>

(* des3_set_iv: g_return_if_fail(len == 8), then memcpy. *)
Des3SetIV(iv) ==
  /\ Len(iv) = 8
  /\ des3' = [des3 EXCEPT !.iv = iv]
  /\ UNCHANGED <<desKs, encLast, last>>

Des3SetBatch(m) ==
  /\ des3' = [des3 EXCEPT !.mode = m]
  /\ UNCHANGED <<desKs, encLast, last>>

Des3Encrypt(d) ==
  /\ Encrypted("des3", d, Des3EncryptOut(des3, d), des3)
  /\ UNCHANGED <<desKs, des3>>

Des3Decrypt(d) ==
  /\ Decrypted("des3", d, Des3DecryptOut(des3, d), des3)
  /\ UNCHANGED <<desKs, des3>>

Next ==
  \/ /\ "des" \in Contexts
     /\ \/ \E k \in Keys : DesSetKey(k)
        \/ \E d \in Msgs : DesEncrypt(d)
        \/ \E d \in DecInputs("des") : DesDecrypt(d)
  \/ /\ "des3" \in Contexts
     /\ \/ \E k \in KeyTriples : Des3SetKey(k[1], k[2], k[3])
        \/ \E iv \in IVs : Des3SetIV(iv)
        \/ \E m \in Modes : Des3SetBatch(m)
        \/ \E d \in Msgs : Des3Encrypt(d)
        \/ \E d \in DecInputs("des3") : Des3Decrypt(d)

Spec == Init /\ [][Next]_vars

-----------------------------------------------------------------------------
TypeOK ==
  /\ des3.mode \in Modes
  /\ des3.iv \in [1..8 -> {0, 1}]
  /\ \A c \in Ciphers : encLast[c].op \in {"none", "enc"}
  /\ last.op \in {"none", "enc", "dec"}
  /\ last.op # "none" => last.cipher \in Contexts

(* Decrypting exactly the output of the last encrypt call, under the same *)
(* keys (and, for 3DES, the same mode and iv), gives back the plaintext   *)
(* zero-padded to whole blocks: the decrypt subkeys are the encrypt       *)
(* subkeys in reversed round order, 3DES applies key3, key2, key1 in the *)
(* inverse roles, and CBC decryption links to the previous ciphertext.    *)
RoundTrip ==
  \A c \in Ciphers :
    (/\ last.op = "dec" /\ last.cipher = c /\ encLast[c].op = "enc"
     /\ last.conf = encLast[c].conf /\ last.input = encLast[c].output)
      => last.output = Padded(encLast[c].input)

(* The length reported through outlen is either the input length (what   *)
(* spec.md 4.3 documents) or the number of bytes written (a whole number *)
(* of blocks), for every DES and 3DES encrypt and decrypt call.           *)
OutLenReported ==
  last.op # "none" => last.outlen \in {Len(last.input), Len(last.output)}
=============================================================================
