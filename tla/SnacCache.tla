------------------------------ MODULE SnacCache ------------------------------
(***************************************************************************)
(* The outstanding-SNAC cache of oscar/snac.c: sess->snac_hash, an array   *)
(* of FAIM_SNAC_HASH_SIZE singly linked chains, and sess->snacid_next.     *)
(*                                                                         *)
(*   hash        chain i as a sequence, head first (new SNACs are pushed  *)
(*               at the head)                                              *)
(*   snacidNext  sess->snacid_next, a 32-bit counter                       *)
(*   now         time(NULL)                                                *)
(*   result      what the last call returned                               *)
(*               ([snacid |-> id] for the id aim_cachesnac returns)        *)
(*   sent        history: SNACs sent so far (numbers the data buffers)     *)
(*                                                                         *)
(* The session starts with snacid_next = 1 (aim_session_init, not under    *)
(* src/).                                                                  *)
(***************************************************************************)
EXTENDS Naturals, Sequences, SequencesExt

CONSTANTS Null, IdMod, Families, FlagSets, DataLens, MaxAges, MaxTime,
          MaxSent,
          HashSize    \* FAIM_SNAC_HASH_SIZE

VARIABLES hash, snacidNext, now, result, sent

vars == <<hash, snacidNext, now, result, sent>>

Buckets == 0..(HashSize - 1)

(* The SNACs on all chains. *)
Cached == UNION {ToSet(hash[i]) : i \in Buckets}

(* aim_initsnachash: every chain empty. *)
Init ==
  /\ hash = [i \in Buckets |-> <<>>]
  /\ snacidNext = 1
  /\ now = 0
  /\ result = Null
  /\ sent = 0

(* aim_cachesnac: take snacid_next++, copy the data (malloc may fail:    *)
(* return 0), then aim_newsnac: malloc the node (may fail: return 0, the  *)
(* data copy is lost), stamp issuetime, push on chain id % size.          *)
CacheSnac(f, fl, dl) ==
  LET id   == snacidNext
      snac == [id |-> id, family |-> f, flags |-> fl,
               data |-> IF dl = 0 THEN Null ELSE sent, t |-> now, n |-> sent]
      i    == id % HashSize
  IN /\ sent < MaxSent
     /\ snacidNext' = (snacidNext + 1) % IdMod
     /\ sent' = sent + 1
     /\ \/ /\ dl # 0
           /\ result' = [snacid |-> 0]
           /\ UNCHANGED hash
        \/ /\ result' = [snacid |-> 0]
           /\ UNCHANGED hash
        \/ /\ hash' = [hash EXCEPT ![i] = <<snac>> \o @]
           /\ result' = [snacid |-> id]
     /\ UNCHANGED now

(* aim_remsnac: walk chain id % size to the first SNAC with the id,       *)
(* unlink it through prev, free its data if it has the destructor flag,  *)
(* and return it; NULL if the walk ends.                                  *)
RemSnac(id) ==
  LET i == id % HashSize
      k == SelectInSeq(hash[i], LAMBDA s : s.id = id)
  IN /\ \/ /\ k # 0
           /\ hash' = [hash EXCEPT ![i] = RemoveAt(@, k)]
           /\ result' = IF "destructor" \in hash[i][k].flags
                        THEN [hash[i][k] EXCEPT !.data = Null] ELSE hash[i][k]
        \/ /\ k = 0
           /\ result' = Null
           /\ UNCHANGED hash
     /\ UNCHANGED <<snacidNext, now, sent>>

(* Mutant of Sweep: after unlinking a SNAC, prev also advances, so the   *)
(* SNAC that followed the removed one is never examined.                  *)
RECURSIVE SweepSkip(_, _, _)
SweepSkip(c, ct, maxage) ==
  IF c = <<>> THEN <<>>
  ELSE IF ct - Head(c).t > maxage
       THEN IF Tail(c) = <<>> THEN <<>>
            ELSE <<Head(Tail(c))>> \o SweepSkip(Tail(Tail(c)), ct, maxage)
       ELSE <<Head(c)>> \o SweepSkip(Tail(c), ct, maxage)

(* The inner loop of aim_cleansnacs over one chain: unlink and free every *)
(* SNAC with curtime - issuetime > maxage, keep prev on the others.       *)
RECURSIVE Sweep(_, _, _)
Sweep(c, ct, maxage) ==
  IF c = <<>> THEN <<>>
  ELSE IF ct - Head(c).t > maxage
       THEN Sweep(Tail(c), ct, maxage)
       ELSE <<Head(c)>> \o Sweep(Tail(c), ct, maxage)

(* aim_cleansnacs: for each non-empty chain, in order, read time(NULL)   *)
(* (which may have moved on since the previous chain) and sweep it.      *)
CleanSnacs(maxage) ==
  /\ \E ct \in [Buckets -> {now, now + 1}] :
       /\ \A i, j \in Buckets : i < j => ct[i] <= ct[j]
       /\ ct[HashSize - 1] <= MaxTime
       /\ hash' = [i \in Buckets |-> Sweep(hash[i], ct[i], maxage)]
       /\ now' = ct[HashSize - 1]
  /\ result' = Null
  /\ UNCHANGED <<snacidNext, sent>>

Tick ==
  /\ now < MaxTime
  /\ now' = now + 1
  /\ UNCHANGED <<hash, snacidNext, result, sent>>

Next ==
  \/ \E f \in Families, fl \in FlagSets, dl \in DataLens : CacheSnac(f, fl, dl)
  \/ \E id \in 0..(IdMod - 1) : RemSnac(id)
  \/ \E a \in MaxAges : CleanSnacs(a)
  \/ Tick

Spec == Init /\ [][Next]_vars

-----------------------------------------------------------------------------
(* The hashed chains implement SnacCacheSpec: a reply finds a SNAC that  *)
(* was sent with its id and is still outstanding (whichever chain it was *)
(* put on), removes exactly that one, and the clean-up removes exactly   *)
(* the SNACs that are older than maxage.                                 *)
Abs == INSTANCE SnacCacheSpec WITH outstanding <- Cached, nextId <- snacidNext

RefinesSnacCacheSpec == Abs!Spec
=============================================================================
