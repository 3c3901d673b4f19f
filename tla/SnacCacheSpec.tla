---------------------------- MODULE SnacCacheSpec ----------------------------
(***************************************************************************)
(* What the OSCAR outstanding-SNAC cache promises (the comment at the top  *)
(* of oscar/snac.c): a SNAC is added when it is sent and stays until its   *)
(* reply removes it by id, or until it has aged out.                        *)
(*                                                                         *)
(*   outstanding  the SNACs sent and neither answered nor aged out         *)
(*   nextId       the id the next SNAC gets                                *)
(*   now          the clock                                                *)
(*   result       what the last call returned                              *)
(*               ([snacid |-> id] for the id aim_cachesnac returns)        *)
(*                                                                         *)
(* A SNAC is a record [id, family, flags, data, t, n]: t its issue time,   *)
(* n its position in the order of sends (which tells apart two SNACs that *)
(* received the same id after the counter wrapped).                        *)
(***************************************************************************)
EXTENDS Naturals, FiniteSets

CONSTANTS
  Null,        \* the NULL pointer / no SNAC
  IdMod,       \* ids are taken modulo IdMod (2^32 for aim_snacid_t)
  Families,    \* SNAC family/type pairs callers send
  FlagSets,    \* flags callers pass, a subset of {"destructor"}
  DataLens,    \* lengths of the data a SNAC carries
  MaxAges,     \* maxage arguments to the periodic clean-up
  MaxTime,     \* bound on the clock
  MaxSent      \* bound on the SNACs sent

VARIABLES outstanding, nextId, now, result, sent

specVars == <<outstanding, nextId, now, result, sent>>

Init ==
  /\ outstanding = {}
  /\ nextId = 1
  /\ now = 0
  /\ result = Null
  /\ sent = 0

(* Send: the SNAC gets the next id; the call may fail (out of memory),   *)
(* returning 0 with the id used up and nothing cached.                    *)
Cache(f, fl, dl) ==
  /\ sent < MaxSent
  /\ nextId' = (nextId + 1) % IdMod
  /\ sent' = sent + 1
  /\ \/ /\ outstanding' = outstanding \cup
             {[id |-> nextId, family |-> f, flags |-> fl,
               data |-> IF dl = 0 THEN Null ELSE sent, t |-> now, n |-> sent]}
        /\ result' = [snacid |-> nextId]
     \/ /\ result' = [snacid |-> 0]
        /\ UNCHANGED outstanding
  /\ UNCHANGED now

(* Reply: one outstanding SNAC with the id is removed and handed to the  *)
(* caller (its data already freed if it carries the destructor flag);     *)
(* NULL when none is outstanding.                                         *)
Released(s) == IF "destructor" \in s.flags THEN [s EXCEPT !.data = Null] ELSE s

Rem(id) ==
  /\ \/ \E s \in outstanding :
          /\ s.id = id
          /\ outstanding' = outstanding \ {s}
          /\ result' = Released(s)
     \/ /\ \A s \in outstanding : s.id # id
        /\ result' = Null
        /\ UNCHANGED outstanding
  /\ UNCHANGED <<nextId, now, sent>>

(* Clean-up: every SNAC older than maxage at the time of the call goes;  *)
(* one that turns old while the call runs may go as well.                 *)
Clean(maxage) ==
  /\ \E later \in {now, now + 1} :
       /\ later <= MaxTime
       /\ now' = later
       /\ \E gone \in SUBSET outstanding :
            /\ \A s \in outstanding : now - s.t > maxage => s \in gone
            /\ \A s \in gone : later - s.t > maxage
            /\ outstanding' = outstanding \ gone
  /\ result' = Null
  /\ UNCHANGED <<nextId, sent>>

Tick ==
  /\ now < MaxTime
  /\ now' = now + 1
  /\ UNCHANGED <<outstanding, nextId, result, sent>>

Next ==
  \/ \E f \in Families, fl \in FlagSets, dl \in DataLens : Cache(f, fl, dl)
  \/ \E id \in 0..(IdMod - 1) : Rem(id)
  \/ \E a \in MaxAges : Clean(a)
  \/ Tick

Spec == Init /\ [][Next]_specVars
=============================================================================
