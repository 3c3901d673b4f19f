---------------------------- MODULE MCSnacCache ----------------------------
(* Two chains and ids modulo 3, so that four sends wrap the counter, give *)
(* two SNACs the same id, and put two SNACs on one chain.                 *)
EXTENDS SnacCache

MCFamilies == {"icbm"}
MCFlagSets == {{}, {"destructor"}}
=============================================================================
