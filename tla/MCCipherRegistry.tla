------------------------- MODULE MCCipherRegistry -------------------------
(***************************************************************************)
(* Model of the registry for TLC: two built-in ciphers, a plugin name that *)
(* clashes with a built-in up to case, three heap slots for ciphers and    *)
(* two for contexts.  The ops tables differ, so dispatch meets both      *)
(* supported and missing entries.                                          *)
(***************************************************************************)
EXTENDS CipherRegistry

MCNames == {"md5", "MD5", "des"}

MCNameKey == [n \in MCNames |-> IF n = "des" THEN "des" ELSE "md5"]

MCBuiltins == <<"md5", "des">>

(* The tables registered under each name: des as DESOps; md5 as a digest *)
(* (append, digest, reset); the plugin's "MD5" supports encryption only. *)
MCOpsOf == [n \in MCNames |->
              CASE n = "des" -> {"init", "uninit", "encrypt", "decrypt", "set_key"}
                [] n = "md5" -> {"init", "reset", "append", "digest"}
                [] n = "MD5" -> {"encrypt"}]

MCDispatchOps == {"set_key", "get_block_size"}
=============================================================================
