-------------------------------- MODULE Bosh --------------------------------
(***************************************************************************)
(* The BOSH (XEP-0124) client of jabber/bosh.c: a PurpleBOSHConnection     *)
(* over one pipelined HTTP/1.1 connection conn_a, and the connection      *)
(* manager at the other end of the socket.                                 *)
(*                                                                         *)
(* Client (PurpleBOSHConnection and its PurpleHTTPConnection):             *)
(*   hc        conn_a: "init", "connecting" (purple_proxy_connect pending),*)
(*             "open" (input watcher installed), "failed", "closed"        *)
(*   cb        receive_cb: "none", "boot", "auth", "received"              *)
(*   ready     conn->ready                                                 *)
(*   sid       conn->sid                                                   *)
(*   useBosh   js->use_bosh                                                *)
(*   authing   js->state = JABBER_STREAM_AUTHENTICATING was set            *)
(*   rid       conn->rid, as an offset from its random initial value       *)
(*   requests  conn_a->requests: the rids of the requests written, FIFO    *)
(*   buf       conn_a->current_data: bytes read and not yet consumed      *)
(*   hdr       conn_a->current_response # NULL (header parsed)             *)
(* Connection manager and socket:                                          *)
(*   inbox     requests it has received and not yet answered, in order    *)
(*   wire      bytes it has written that the client has not read           *)
(* History:                                                                *)
(*   written   rids of the requests written to the socket, in order       *)
(*   answered  responses the manager has written                           *)
(*   handled   responses handed to http_received_cb                        *)
(*   match     the last [req, resp] rid pair the client paired up          *)
(*                                                                         *)
(* A response is three units on the wire: a header (ending in CRLFCRLF),   *)
(* and a body of Content-Length 1 that names the request it answers and   *)
(* carries the XML, and the close of the socket is an Eof unit.  A read   *)
(* returns any non-empty prefix of the unread units.                       *)
(***************************************************************************)
EXTENDS Naturals, Sequences, SequencesExt

CONSTANTS
  Null,
  Versions,      \* "ver" attributes of session creation responses
  BootReplies,   \* bodies the manager answers the boot request with
  BodyReplies,   \* bodies it answers any other request with
  MaxRid,        \* the XMPP layer sends no more once rid reaches it
  MaxAnswers     \* bound on the responses the manager writes

VARIABLES hc, cb, ready, sid, useBosh, authing, rid, requests, buf, hdr,
          inbox, wire, written, answered, handled, match

client == <<hc, cb, ready, sid, useBosh, authing, rid, requests, buf, hdr>>
vars == <<client, inbox, wire, written, answered, handled, match>>

Hdr == [k |-> "hdr"]
Eof == [k |-> "eof"]
Body(r, p) == [k |-> "body", rid |-> r, p |-> p]

(* atoi: the value of the leading decimal digits of a character sequence. *)
Numerals == <<"0", "1", "2", "3", "4", "5", "6", "7", "8", "9">>
Digit == [c \in ToSet(Numerals) |-> CHOOSE n \in 0..9 : Numerals[n + 1] = c]
RECURSIVE AtoiFrom(_, _)
AtoiFrom(s, acc) ==
  IF s = <<>> \/ Head(s) \notin DOMAIN Digit THEN acc
  ELSE AtoiFrom(Tail(s), 10 * acc + Digit[Head(s)])

(* version[1] = 0; atoi(version) >= 1 && atoi(&version[2]) >= 6. *)
VersionOk(v) ==
  AtoiFrom(SubSeq(v, 1, 1), 0) >= 1 /\ AtoiFrom(SubSeq(v, 3, Len(v)), 0) >= 6

(* jabber_bosh_http_connection_send_request: write the request to the    *)
(* socket (a write to a closed socket fails and is only logged) and push *)
(* it on conn->requests either way.                                       *)
SendNative(open, q, rs, kinds) ==
  /\ requests' = q \o rs
  /\ IF open
     THEN /\ written' = written \o rs
          /\ inbox' = inbox \o [i \in DOMAIN rs |-> [rid |-> rs[i], kind |-> kinds[i]]]
     ELSE UNCHANGED <<written, inbox>>

(* Mutant of RestartRid: the restart body reuses the current rid. *)
RestartRidNoIncr(r) == r

(* jabber_bosh_connection_stream_restart: conn->rid++ before building the *)
(* restart body.                                                           *)
RestartRid(r) == r + 1

Init ==
  /\ hc = "init" /\ cb = "none" /\ ready = FALSE /\ sid = Null
  /\ useBosh = FALSE /\ authing = FALSE /\ rid = 0
  /\ requests = <<>> /\ buf = <<>> /\ hdr = FALSE
  /\ inbox = <<>> /\ wire = <<>> /\ written = <<>>
  /\ answered = 0 /\ handled = 0 /\ match = Null

(* jabber_bosh_connection_connect -> jabber_bosh_http_connection_connect: *)
(* purple_proxy_connect either fails at once (logged) or is pending.      *)
Connect ==
  /\ hc = "init"
  /\ hc' \in {"failed", "connecting"}
  /\ UNCHANGED <<cb, ready, sid, useBosh, authing, rid, requests, buf, hdr,
                 inbox, wire, written, answered, handled, match>>

(* jabber_bosh_connection_boot: receive_cb = boot_response and the       *)
(* session creation request goes out with the initial rid, not            *)
(* incremented.                                                            *)
Boot ==
  /\ cb' = "boot"
  /\ SendNative(TRUE, requests, <<rid>>, <<"boot">>)

(* jabber_bosh_http_connection_callback: on error log and give up; else  *)
(* run connect_cb = jabber_bosh_connection_connected, whose session-reuse *)
(* branch needs ready, which is FALSE on the only connect, so it boots.   *)
ConnectCb ==
  /\ hc = "connecting"
  /\ \/ /\ hc' = "failed"
        /\ UNCHANGED <<cb, requests, inbox, written>>
     \/ /\ hc' = "open"
        /\ Boot
  /\ UNCHANGED <<ready, sid, useBosh, authing, rid, buf, hdr, wire,
                 answered, handled, match>>

(* jabber_bosh_connection_send from the XMPP layer, once use_bosh is set: *)
(* conn->rid++ and a body with the stanza.                                 *)
SendStanza ==
  /\ useBosh
  /\ rid < MaxRid
  /\ rid' = rid + 1
  /\ SendNative(hc = "open", requests, <<rid + 1>>, <<"body">>)
  /\ UNCHANGED <<hc, cb, ready, sid, useBosh, authing, buf, hdr,
                 wire, answered, handled, match>>

(* jabber_bosh_connection_error_check: a body of type 'terminate' clears  *)
(* ready and stops the handler.                                           *)
Terminated(p) == p.type = "terminate"

(* The receive_cb in force applied to the body p: the new values of the  *)
(* fields st = [cb, ready, sid, useBosh, authing, restart] it writes.     *)
(*   boot_response: take sid if present; with a ver that passes the       *)
(*     check set use_bosh and receive_cb = auth_response (the features   *)
(*     go to the XMPP layer);                                             *)
(*   auth_response: on a first child <success/> restart the stream and   *)
(*     set receive_cb = received, on any other child set AUTHENTICATING; *)
(*   received: an <iq/> child holding <session/> sets ready.             *)
Callback(c, p, st) ==
  CASE c = "none"      -> st
    [] Terminated(p)   -> [st EXCEPT !.ready = FALSE]
    [] c = "boot"      ->
         LET ok == p.ver # Null /\ VersionOk(p.ver)
         IN [st EXCEPT !.sid = IF p.sid # Null THEN p.sid ELSE @,
                       !.useBosh = @ \/ ok,
                       !.cb = IF ok THEN "auth" ELSE @]
    [] c = "auth" /\ p.kids = <<>>          -> st
    [] c = "auth" /\ p.kids[1] = "success"  ->
         [st EXCEPT !.restart = TRUE, !.cb = "received"]
    [] c = "auth"      -> [st EXCEPT !.authing = TRUE]
    [] c = "received"  -> [st EXCEPT !.ready = @ \/ "session" \in ToSet(p.kids)]

(* jabber_bosh_http_connection_receive_parse_header: the status line and *)
(* the header fields are cut off the front of current_data.              *)
ParseHeader(b) == Tail(b)

(* Mutant of Pop: g_queue_pop_tail instead of g_queue_pop_head. *)
PopTail(q) == <<Last(q), Front(q)>>

(* g_queue_pop_head: the oldest request and the rest of the queue. *)
Pop(q) == <<Head(q), Tail(q)>>

(* jabber_bosh_http_connection_receive with len > 0: append the bytes to  *)
(* current_data; with no current response, parse the header once it is   *)
(* complete; once current_len >= Content-Length pop the oldest request,  *)
(* and if ready and the queue is now empty send an empty body (rid++);   *)
(* then, if a request was popped, cut the body off current_data, pass it *)
(* to http_received_cb -> receive_cb and clear current_response.  Without *)
(* a request the response is left in place.  Whatever follows the body   *)
(* in current_data waits for the next read.                               *)
Receive(k) ==
  LET b1     == buf \o SubSeq(wire, 1, k)
      parse  == ~hdr /\ Head(b1) = Hdr
      b2     == IF parse THEN ParseHeader(b1) ELSE b1
      done   == (hdr \/ parse) /\ Len(b2) >= 1
      popped == done /\ requests # <<>>
      q      == IF popped THEN Pop(requests)[2] ELSE requests
      poll   == done /\ ready /\ q = <<>>
      st0    == [cb |-> cb, ready |-> ready, sid |-> sid, useBosh |-> useBosh,
                 authing |-> authing, restart |-> FALSE]
      st     == IF popped THEN Callback(cb, Head(b2).p, st0) ELSE st0
      rid1   == IF poll THEN rid + 1 ELSE rid
      rid2   == IF st.restart THEN RestartRid(rid1) ELSE rid1
      rs     == (IF poll THEN <<rid1>> ELSE <<>>) \o
                (IF st.restart THEN <<rid2>> ELSE <<>>)
      kinds  == (IF poll THEN <<"body">> ELSE <<>>) \o
                (IF st.restart THEN <<"restart">> ELSE <<>>)
  IN /\ hc = "open"
     /\ Eof \notin ToSet(SubSeq(wire, 1, k))
     /\ wire' = SubSeq(wire, k + 1, Len(wire))
     /\ buf' = IF popped THEN Tail(b2) ELSE b2
     /\ hdr' = ((hdr \/ parse) /\ ~popped)
     /\ SendNative(TRUE, q, rs, kinds)
     /\ rid' = rid2
     /\ cb' = st.cb /\ ready' = st.ready /\ sid' = st.sid
     /\ useBosh' = st.useBosh /\ authing' = st.authing
     /\ handled' = handled + (IF popped THEN 1 ELSE 0)
     /\ match' = IF popped THEN [req |-> Pop(requests)[1], resp |-> Head(b2).rid]
                 ELSE match
     /\ UNCHANGED <<hc, answered>>

(* jabber_bosh_http_connection_receive with len == 0: remove the input   *)
(* watcher and call disconnect_cb, which nothing ever sets (conn_a is    *)
(* g_new0'd), so the connection stays closed.                             *)
ReadEof ==
  /\ hc = "open"
  /\ wire # <<>> /\ Head(wire) = Eof
  /\ hc' = "closed"
  /\ wire' = Tail(wire)
  /\ UNCHANGED <<cb, ready, sid, useBosh, authing, rid, requests, buf, hdr,
                 inbox, written, answered, handled, match>>

(* The connection manager answers its oldest request (HTTP/1.1 answers   *)
(* pipelined requests in order): header, then the body.                   *)
Answer ==
  /\ hc = "open" /\ Eof \notin ToSet(wire)
  /\ inbox # <<>>
  /\ answered < MaxAnswers
  /\ \E p \in IF Head(inbox).kind = "boot" THEN BootReplies ELSE BodyReplies :
       wire' = wire \o <<Hdr, Body(Head(inbox).rid, p)>>
  /\ inbox' = Tail(inbox)
  /\ answered' = answered + 1
  /\ UNCHANGED <<client, written, handled, match>>

(* The connection manager closes the socket; unanswered requests are lost. *)
Close ==
  /\ hc = "open" /\ Eof \notin ToSet(wire)
  /\ wire' = Append(wire, Eof)
  /\ inbox' = <<>>
  /\ UNCHANGED <<client, written, answered, handled, match>>

Next ==
  \/ Connect
  \/ ConnectCb
  \/ SendStanza
  \/ \E k \in 1..Len(wire) : Receive(k)
  \/ ReadEof
  \/ Answer
  \/ Close

Spec == Init /\ [][Next]_vars

(* The event loop runs the proxy callback and the input watcher whenever *)
(* they are due, and a BOSH connection manager answers every request     *)
(* within its wait time.                                                  *)
FairSpec ==
  /\ Spec
  /\ WF_vars(ConnectCb)
  /\ WF_vars(\E k \in 1..Len(wire) : Receive(k))
  /\ WF_vars(ReadEof)
  /\ WF_vars(Answer)

-----------------------------------------------------------------------------
(* XEP-0124 requires the rid of every request to be one more than that of *)
(* the request before it.  The client increments conn->rid in three      *)
(* places (the XMPP layer's sends, the empty poll sent from the read      *)
(* handler, the stream restart sent from auth_response) and the boot     *)
(* request uses it unincremented: the requests on the socket carry the  *)
(* initial rid, then one more each.                                       *)
RidConsecutive == \A i \in 1..Len(written) : written[i] = i - 1

(* The read handler hands every response to the callback together with   *)
(* the request it answers: whatever chunks the bytes arrive in, the      *)
(* request popped from conn->requests is the one the body answers.       *)
ResponsePairing == match # Null => match.req = match.resp

(* Every response the connection manager writes is eventually handed to *)
(* the callback, unless the socket is closed first.                       *)
AllAnswersHandled ==
  \A n \in 1..MaxAnswers : (answered >= n) ~> (handled >= n \/ hc = "closed")
=============================================================================
