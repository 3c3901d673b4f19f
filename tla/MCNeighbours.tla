---------------------------- MODULE MCNeighbours ----------------------------
(***************************************************************************)
(* The three components outside the cipher framework checked in one run:   *)
(* the OSCAR SNAC cache, the BOSH client and the listening sockets of      *)
(* network.c.  They share no state; the initial state picks one of them    *)
(* (use) and only that one moves, so the run explores the three state      *)
(* spaces side by side rather than their product.  Each component's       *)
(* constants are those of its own MC module.                               *)
(***************************************************************************)
EXTENDS Integers

CONSTANTS Null, IdMod, HashSize, DataLens, MaxAges, MaxTime, MaxSent,
          MaxRid, MaxAnswers, Busy, Ephemeral, MaxFds, ListenPorts, PrefPorts

VARIABLES use,
          hash, snacidNext, now, result, sent,
          hc, cb, ready, sid, useBosh, authing, rid, requests, buf, hdr,
          inbox, wire, written, answered, handled, match,
          prefs, listening, pc, cur, hi, lo, ret, returned

(* The MC modules' data definitions do not depend on the constants they *)
(* are given here; the first instance of each is only read for them.    *)
SD == INSTANCE MCSnacCache WITH Families <- {}, FlagSets <- {}
BD == INSTANCE MCBosh WITH Versions <- {}, BootReplies <- {}, BodyReplies <- {}
ND == INSTANCE MCNetwork WITH Requests <- {}

S == INSTANCE MCSnacCache WITH Families <- SD!MCFamilies, FlagSets <- SD!MCFlagSets
B == INSTANCE MCBosh WITH Versions <- BD!MCVersions,
                          BootReplies <- BD!MCBootReplies,
                          BodyReplies <- BD!MCBodyReplies
N == INSTANCE MCNetwork WITH Requests <- ND!MCRequests

snacVars == <<hash, snacidNext, now, result, sent>>
boshVars == <<hc, cb, ready, sid, useBosh, authing, rid, requests, buf, hdr,
              inbox, wire, written, answered, handled, match>>
netVars  == <<prefs, listening, pc, cur, hi, lo, ret, returned>>
allVars  == <<use, snacVars, boshVars, netVars>>

Init ==
  /\ use \in {"snac", "bosh", "net"}
  /\ S!Init /\ B!Init /\ N!Init

Next ==
  \/ use = "snac" /\ S!Next /\ UNCHANGED <<use, boshVars, netVars>>
  \/ use = "bosh" /\ B!Next /\ UNCHANGED <<use, snacVars, netVars>>
  \/ use = "net"  /\ N!Next /\ UNCHANGED <<use, snacVars, boshVars>>

Spec == Init /\ [][Next]_allVars

RefinesSnacCacheSpec == S!RefinesSnacCacheSpec
RidConsecutive       == B!RidConsecutive
ResponsePairing      == B!ResponsePairing
ListenResult         == N!ListenResult
=============================================================================
