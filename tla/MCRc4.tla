------------------------------- MODULE MCRc4 -------------------------------
(***************************************************************************)
(* The RC4 context for TLC, at its real size (N = 256), with the test     *)
(* vector of spec.md 8: key "Key" (so key_len must be set to 3 first) and  *)
(* plaintext "Plaintext", here fed as "Plain" and "text" in any order   *)
(* and number of calls, up to nine bytes per key.  A second, 5-byte key    *)
(* works with the default key_len.                                         *)
(***************************************************************************)
EXTENDS Rc4

KeyStr    == <<75, 101, 121>>
Plaintext == <<80, 108, 97, 105, 110, 116, 101, 120, 116>>

MCKeys == {KeyStr, <<1, 2, 3, 4, 5>>}
MCMsgs == {SubSeq(Plaintext, 1, 5), SubSeq(Plaintext, 6, 9)}

(* spec.md 8: RC4 with key "Key" and plaintext "Plaintext" gives          *)
(* BB F3 16 E8 D9 40 AF 0A D3 when it is fed as "Plain" then "text" to    *)
(* two rc4_encrypt calls after rc4_set_key.                               *)
KnownVector ==
  (keyed = [k |-> KeyStr, len |-> 3] /\ pt = Plaintext)
    => ct = <<187, 243, 22, 232, 217, 64, 175, 10, 211>>
=============================================================================
