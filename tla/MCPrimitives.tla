---------------------------- MODULE MCPrimitives ----------------------------
(***************************************************************************)
(* The block and stream contexts of cipher.c, which share no state,       *)
(* checked in one run: the DES and Triple-DES contexts (MCBlockModes) and  *)
(* the RC4 context keyed fresh (MCRc4).  The initial state picks the       *)
(* context in use and only that one moves; the other stays in its initial  *)
(* state, so the run explores the state spaces side by side rather than    *)
(* their product.  Each context's constants are those of its MC module.    *)
(***************************************************************************)
CONSTANTS Contexts, DesKeys, N, KeyLens, MaxStream

VARIABLES use,
          desKs, des3, encLast, last,
          state, x, y, keyLen, out, keyed, pt, ct

(* The MC modules' data definitions do not depend on the constants they *)
(* are given here; the first instance of each is only read for them.    *)
BD  == INSTANCE MCBlockModes WITH Keys <- DesKeys, KeyTriples <- {},
                                  Msgs <- {}, IVs <- {}
C4D == INSTANCE MCRc4 WITH Keys <- {}, Msgs <- {}

B  == INSTANCE MCBlockModes WITH Keys <- DesKeys, KeyTriples <- BD!MCKeyTriples,
                                 Msgs <- BD!MCMsgs, IVs <- BD!MCIVs
C4 == INSTANCE MCRc4 WITH Keys <- C4D!MCKeys, Msgs <- C4D!MCMsgs

desVars == <<desKs, des3, encLast, last>>
rc4Vars == <<state, x, y, keyLen, out, keyed, pt, ct>>
allVars == <<use, desVars, rc4Vars>>

Init ==
  /\ use \in Contexts \cup {"rc4"}
  /\ B!Init /\ C4!Init

Next ==
  \/ use \in Contexts /\ B!Next /\ B!OneContext /\ UNCHANGED rc4Vars
  \/ use = "rc4" /\ C4!NextFreshKey /\ UNCHANGED <<use, desVars>>

Spec == Init /\ [][Next]_allVars

TypeOK                == B!TypeOK
RoundTrip             == B!RoundTrip
DesKnownVector        == B!DesKnownVector
Rc4TableIsPermutation == C4!TypeOK
KnownVector           == C4!KnownVector
RefinesRc4Spec        == C4!RefinesRc4Spec
=============================================================================
