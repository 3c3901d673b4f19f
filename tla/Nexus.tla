------------------------------- MODULE Nexus -------------------------------
(***************************************************************************)
(* The MSN nexus login of protocols/msn/nexus.c: one Windows Live ID       *)
(* request over the nexus's SOAP connection, driven by the SSL callbacks   *)
(* it registers.                                                           *)
(*                                                                         *)
(*   nexus      the MsnNexus object: "live" or "freed"                     *)
(*   frees      how many times msn_nexus_destroy has been called on it     *)
(*   sessNexus  session->nexus still points at it                          *)
(*   soap       the SOAP connection as the callbacks see it                *)
(*   readCb     soapconn->read_cb has been set to nexus_login_read_cb      *)
(*   challenge  the keys of nexus->challenge_data with a non-NULL value    *)
(*   passport   session->passport_info.t and .p are non-NULL               *)
(*   loginStep  the session's login step                                   *)
(*   authError  msn_session_set_error(session, MSN_ERROR_AUTH, ...) ran     *)
(*   discPending the disconnect that error scheduled has not run yet       *)
(*   cert       the t and p msn_got_login_params was given, or Null        *)
(*   nullArgs   the g_strdup_printf calls that were given a NULL for %s    *)
(*                                                                         *)
(* The SOAP layer (soap.c) and the session (session.c) are not in the     *)
(* repository.  The SOAP layer is the environment: it calls connect_cb or *)
(* error_cb once the SSL connection is made or has failed, written_cb     *)
(* once a request is written, and read_cb (when set) with the reply.      *)
(* msn_nexus_destroy destroys the SOAP connection, after which none of     *)
(* its callbacks runs.  msn_session_set_error reports the error and, as    *)
(* the comment in nexus_login_error_cb says, results in the nexus being   *)
(* destroyed: the connection error schedules a disconnect that destroys   *)
(* session->nexus when it is not NULL.                                     *)
(***************************************************************************)
EXTENDS Naturals

CONSTANTS Null, ChallengeTables, Replies

VARIABLES nexus, frees, sessNexus, soap, readCb, challenge, passport,
          loginStep, authError, discPending, cert, nullArgs

vars == <<nexus, frees, sessNexus, soap, readCb, challenge, passport,
          loginStep, authError, discPending, cert, nullArgs>>

(* The keys connect_cb requires to be non-NULL (line 218).                 *)
Checked == {"lc", "id", "tw", "ru", "ct", "kpp", "kv", "ver", "tpf"}

(* The keys whose values the TWN challenge string formats with %s: fs is  *)
(* replaced by "1" when it is missing.                                     *)
Formatted == {"lc", "id", "tw", "ru", "ct", "kpp", "kv", "ver", "rn", "tpf"}

(* msn_nexus_destroy: frees the challenge table, the SOAP connection (and *)
(* with it every pending callback) and the nexus.                          *)
Destroy ==
  /\ frees' = frees + 1
  /\ nexus' = "freed"
  /\ soap' = "closed"

(* msn_nexus_new, with the challenge data the notification server's       *)
(* "USR TWN S" reply has put into it.                                      *)
Init ==
  /\ nexus = "live" /\ frees = 0 /\ sessNexus = TRUE
  /\ soap = "new" /\ readCb = FALSE
  /\ challenge \in ChallengeTables
  /\ passport = [t |-> FALSE, p |-> FALSE]
  /\ loginStep = "start"
  /\ authError = FALSE /\ discPending = FALSE
  /\ cert = Null /\ nullArgs = {}

(* msn_nexus_connect: msn_soap_init with the two callbacks, and connect.   *)
Connect ==
  /\ soap = "new"
  /\ soap' = "connecting"
  /\ UNCHANGED <<nexus, frees, sessNexus, readCb, challenge, passport,
                 loginStep, authError, discPending, cert, nullArgs>>

(* connect_cb after the key check: format the TWN challenge (fs         *)
(* defaulted to "1"), the SOAP body and the HTTP request, and write it.    *)
SendRequest ==
  /\ soap' = "writing"
  /\ nullArgs' = IF Formatted \subseteq challenge THEN nullArgs
                 ELSE nullArgs \cup {"challenge"}
  /\ UNCHANGED <<nexus, frees, sessNexus, authError, discPending>>

(* Mutant of KeyError: the error is reported but the function goes on.   *)
KeyErrorNoReturn ==
  /\ authError' = TRUE /\ discPending' = TRUE
  /\ soap' = "writing"
  /\ UNCHANGED <<nexus, frees, sessNexus, nullArgs>>

(* Mutant of KeyError: session->nexus is left pointing at the freed nexus. *)
KeyErrorKeepPointer ==
  /\ authError' = TRUE /\ discPending' = TRUE
  /\ Destroy
  /\ UNCHANGED <<sessNexus, nullArgs>>

(* connect_cb with a required challenge key missing: report the           *)
(* authentication error, close the SSL connection, destroy the nexus,     *)
(* clear session->nexus and return.                                        *)
KeyError ==
  /\ authError' = TRUE /\ discPending' = TRUE
  /\ Destroy
  /\ sessNexus' = FALSE
  /\ UNCHANGED nullArgs

(* nexus_login_connect_cb: set the login step, then the key check.        *)
ConnectCb ==
  /\ soap = "connecting" /\ nexus = "live"
  /\ loginStep' = "get_cookie"
  /\ IF Checked \subseteq challenge THEN SendRequest ELSE KeyError
  /\ UNCHANGED <<readCb, challenge, passport, cert>>

(* nexus_login_error_cb: the SSL connection failed; only the error is     *)
(* reported, the nexus is left to the disconnect it schedules.             *)
ErrorCb ==
  /\ soap = "connecting" /\ nexus = "live"
  /\ authError' = TRUE /\ discPending' = TRUE
  /\ soap' = "failed"
  /\ UNCHANGED <<nexus, frees, sessNexus, readCb, challenge, passport,
                 loginStep, cert, nullArgs>>

(* nexus_login_written_cb: the request is written; the reply is to go to  *)
(* nexus_login_read_cb.                                                     *)
WrittenCb ==
  /\ soap = "writing" /\ nexus = "live"
  /\ soap' = "reading" /\ readCb' = TRUE
  /\ UNCHANGED <<nexus, frees, sessNexus, challenge, passport, loginStep,
                 authError, discPending, cert, nullArgs>>

(* nexus_login_read_cb: split the reply's parameters into the challenge   *)
(* table (a parameter without '=' inserts NULL, replacing a value), copy   *)
(* t and p to the session, format "t=%s&p=%s" for msn_got_login_params,    *)
(* destroy the nexus and clear session->nexus.                             *)
ReadCb(r) ==
  /\ soap = "reading" /\ readCb /\ nexus = "live"
  /\ LET table == (challenge \ r.noVal) \cup r.withVal
         got   == [t |-> "t" \in table, p |-> "p" \in table]
     IN /\ challenge' = table
        /\ passport' = got
        /\ cert' = got
        /\ nullArgs' = IF got.t /\ got.p THEN nullArgs
                       ELSE nullArgs \cup {"cert"}
  /\ Destroy
  /\ sessNexus' = FALSE
  /\ UNCHANGED <<readCb, loginStep, authError, discPending>>

(* The disconnect msn_session_set_error scheduled: it destroys the nexus  *)
(* session->nexus points at, if any, and clears the pointer.               *)
Disconnect ==
  /\ discPending
  /\ discPending' = FALSE
  /\ IF sessNexus
     THEN Destroy /\ sessNexus' = FALSE
     ELSE UNCHANGED <<nexus, frees, sessNexus, soap>>
  /\ UNCHANGED <<readCb, challenge, passport, loginStep, authError, cert,
                 nullArgs>>

Next ==
  \/ Connect
  \/ ConnectCb
  \/ ErrorCb
  \/ WrittenCb
  \/ \E r \in Replies : ReadCb(r)
  \/ Disconnect

Spec == Init /\ [][Next]_vars

-----------------------------------------------------------------------------
(* Every path through the callbacks (the key error in connect_cb, the SSL *)
(* error and the reply) frees the nexus at most once: a path that         *)
(* destroys it itself clears session->nexus before the disconnect that    *)
(* msn_session_set_error scheduled looks at it, and a path that leaves it *)
(* to that disconnect does not destroy it.                                 *)
FreedOnce == frees <= 1

(* The session never gets both an authentication error and login          *)
(* parameters from one nexus: a challenge that fails the key check or a   *)
(* failed connection ends the login before a request is written.          *)
ErrorExcludesLogin == ~(authError /\ cert # Null)

(* No string is formatted with a NULL %s argument: the comment above the  *)
(* key check in connect_cb says a NULL makes g_strdup_printf crash on      *)
(* Windows and that the check returns an authentication failure instead.   *)
NoNullFormatted == nullArgs = {}
=============================================================================
