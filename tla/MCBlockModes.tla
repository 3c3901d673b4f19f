---------------------------- MODULE MCBlockModes ----------------------------
(***************************************************************************)
(* DES and 3DES contexts for TLC.  Messages of 0, 5 and 13 bytes: an      *)
(* empty call, a lone partial block, and a full block followed by a        *)
(* partial one (so CBC chains from a full block into the padded block).    *)
(* Two DES keys; 3DES key triples with three distinct roles and with     *)
(* key1 = key2 (EDE collapsing to single DES under key3).  One 8-byte IV  *)
(* and a 7-byte buffer set_iv must refuse.                                 *)
(*                                                                         *)
(* The two contexts share no state in the code, so MCSpec lets each       *)
(* behaviour drive one of them (the one named by use): both are checked   *)
(* without the product of their states.                                    *)
(***************************************************************************)
EXTENDS BlockModes

VARIABLE use

MCMsgs == {<<>>, <<1, 0, 1, 1, 0>>,
           <<1, 1, 0, 1, 0, 0, 1, 0, 1, 1, 1, 0, 1>>}

MCKeyTriples == {<<1, 2, 3>>, <<2, 2, 1>>}

MCIVs == {<<1, 0, 1, 1, 0, 0, 1, 0>>, <<1, 1, 1, 1, 1, 1, 1>>}
(* A step of the context in use: the other context's state and its      *)
(* calls are left alone.                                                  *)
OneContext ==
  /\ use = "des" => UNCHANGED des3
  /\ use = "des3" => UNCHANGED desKs
  /\ last' # last => last'.cipher = use
  /\ UNCHANGED use

MCSpec ==
  /\ use \in Contexts /\ Init
  /\ [][Next /\ OneContext]_<<vars, use>>

-----------------------------------------------------------------------------
(* The block function itself, at the bit level (module DesCore), on the   *)
(* worked example of FIPS 46 that spec.md quotes: key 133457799BBCDFF1,   *)
(* plaintext 0123456789ABCDEF, ciphertext 85E813540F0AB405.  The         *)
(* results are constants, computed once.                                   *)
DC == INSTANCE DesCore

DesKey    == <<\h13, \h34, \h57, \h79, \h9b, \hbc, \hdf, \hf1>>
DesPlain  == <<\h01, \h23, \h45, \h67, \h89, \hab, \hcd, \hef>>
DesCipher == <<\h85, \he8, \h13, \h54, \h0f, \h0a, \hb4, \h05>>

DesEncrypted == DC!DesEcbCrypt(DC!DesSetKey(DesKey), DesPlain, 0)
DesDecrypted == DC!DesEcbCrypt(DC!DesSetKey(DesKey), DesCipher, 1)

(* des_set_key followed by des_ecb_crypt in mode 0 turns the FIPS 46      *)
(* plaintext into its ciphertext, and in mode 1 (the decrypt subkeys that *)
(* des_set_key reorders) turns the ciphertext back: the S-boxes, the      *)
(* permutations, the key schedule and the subkey order of the code are    *)
(* DES.  Stated of the states where the DES context is in use.            *)
DesKnownVector ==
  use = "des" => DesEncrypted = DesCipher /\ DesDecrypted = DesPlain
=============================================================================
