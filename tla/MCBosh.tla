------------------------------- MODULE MCBosh -------------------------------
(* A session creation answered with ver 1.6 (accepted), ver 2.0 (refused *)
(* by the version check), without ver, or terminated; other requests      *)
(* answered with SASL success or failure, the session iq, an empty body  *)
(* or a terminate.                                                         *)
EXTENDS Bosh

MCVersions == {<<"1", ".", "6">>, <<"2", ".", "0">>}

Reply(t, s, v, ks) == [type |-> t, sid |-> s, ver |-> v, kids |-> ks]

MCBootReplies ==
  {Reply("none", "s", v, <<>>) : v \in MCVersions \cup {Null}}
    \cup {Reply("terminate", Null, Null, <<>>)}

MCBodyReplies ==
  {Reply("none", Null, Null, ks) : ks \in {<<"success">>, <<"failure">>,
                                           <<"session">>, <<>>}}
    \cup {Reply("terminate", Null, Null, <<>>)}
=============================================================================
