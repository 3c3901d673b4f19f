------------------------------- MODULE MCNexus -------------------------------
(***************************************************************************)
(* The nexus login for TLC.  Challenge tables from the notification       *)
(* server: complete, without fs (the old servers the code defaults it     *)
(* for), without rn (not among the checked keys), and without lc (a       *)
(* checked key).  Replies with t and p, with p given without '=', and     *)
(* without t.                                                              *)
(***************************************************************************)
EXTENDS Nexus

AllKeys == Checked \cup {"fs", "rn"}

MCChallengeTables ==
  {AllKeys, AllKeys \ {"fs"}, AllKeys \ {"rn"}, AllKeys \ {"lc"}}

MCReplies ==
  {[withVal |-> {"t", "p"}, noVal |-> {}],
   [withVal |-> {"t"}, noVal |-> {"p"}],
   [withVal |-> {"p"}, noVal |-> {}]}
=============================================================================
