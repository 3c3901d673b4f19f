------------------------------- MODULE Network -------------------------------
(***************************************************************************)
(* Listening sockets of src/network.c: gaim_network_listen,                *)
(* gaim_network_listen_range and the gaim_network_do_listen they call,     *)
(* with the /core/network/ports_range_* preferences.                       *)
(*                                                                         *)
(*   prefs      ports_range_use, ports_range_start, ports_range_end        *)
(*   listening  the ports this process has a listening socket on           *)
(*   pc         "idle", or "range" while the for loop of listen_range runs *)
(*   cur, hi    the loop's unsigned short start and end                    *)
(*   lo         the start the loop began with                              *)
(*   ret        the port of the returned socket, or -1                     *)
(*   returned   TRUE in the state right after a call has returned          *)
(*                                                                         *)
(* A socket is identified by the port it is bound to (what                 *)
(* gaim_network_get_port_from_fd would read back).  The loop runs on the   *)
(* main loop without yielding, so no other action is taken while pc is     *)
(* "range".                                                                *)
(***************************************************************************)
EXTENDS Integers, FiniteSets

CONSTANTS
  Busy,        \* ports other processes listen on: bind fails
  Ephemeral,   \* ports the kernel may pick for a bind to port 0
  MaxFds,      \* sockets the process can open before socket() fails
  Requests,    \* <<start, end>> arguments callers pass to listen_range
  ListenPorts, \* ports callers pass to gaim_network_listen
  PrefPorts    \* ints the user may store in ports_range_start/end

PortMod == 65536  \* unsigned short

ASSUME Busy \cup Ephemeral \cup ListenPorts \subseteq 0..(PortMod - 1)
ASSUME Requests \subseteq (0..(PortMod - 1)) \X (0..(PortMod - 1))
ASSUME MaxFds \in Nat \ {0}

VARIABLES prefs, listening, pc, cur, hi, lo, ret, returned

vars == <<prefs, listening, pc, cur, hi, lo, ret, returned>>

(* snprintf(serv, sizeof(serv), "%d", port) with char serv[5]: at most  *)
(* four digits survive, so a five-digit port loses its last digit.      *)
Serv(p) == IF p >= 10000 THEN p \div 10 ELSE p

(* gaim_network_do_listen(p) with the sockets in L: the ports it may     *)
(* return a socket on, or {-1}.  socket() fails once MaxFds are open;    *)
(* service "0" binds a port of the kernel's choosing; otherwise bind     *)
(* succeeds exactly when no socket listens on the port.                  *)
DoListen(p, L) ==
  LET s    == Serv(p)
      free == Ephemeral \ (Busy \cup L)
  IN CASE Cardinality(L) >= MaxFds -> {-1}
       [] s = 0 /\ free # {}       -> free
       [] s = 0                    -> {-1}
       [] s \in Busy \cup L        -> {-1}
       [] OTHER                    -> {s}

(* gaim_network_init: the default preferences. *)
Init ==
  /\ prefs = [use |-> FALSE, start |-> 1024, end |-> 2048]
  /\ listening = {}
  /\ pc = "idle"
  /\ cur = 0 /\ hi = 0 /\ lo = 0
  /\ ret = -1
  /\ returned = FALSE

Return(r) ==
  /\ ret' = r
  /\ returned' = TRUE
  /\ listening' = IF r = -1 THEN listening ELSE listening \cup {r}

(* gaim_network_listen: g_return_val_if_fail(port != 0, -1), then        *)
(* do_listen.  Recorded as the one-port range [port, port].              *)
Listen(p) ==
  /\ pc = "idle"
  /\ lo' = p /\ hi' = p
  /\ \E r \in (IF p = 0 THEN {-1} ELSE DoListen(p, listening)) : Return(r)
  /\ UNCHANGED <<prefs, pc, cur>>

(* gaim_network_listen_range: with ports_range_use the preferences       *)
(* replace both arguments (the ints truncated to unsigned short, and     *)
(* end < start left as is); otherwise end is raised to start.            *)
ListenRange(start, end) ==
  LET s == IF prefs.use THEN prefs.start % PortMod ELSE start
      e == IF prefs.use THEN prefs.end % PortMod
           ELSE IF end < start THEN start ELSE end
  IN /\ pc = "idle"
     /\ pc' = "range"
     /\ cur' = s /\ lo' = s /\ hi' = e
     /\ returned' = FALSE
     /\ UNCHANGED <<prefs, listening, ret>>

(* One iteration of for (; start <= end; start++) in                     *)
(* gaim_network_listen_range, given the loop condition and the next      *)
(* start: do_listen(start); break with the socket; else advance; once    *)
(* the condition fails the loop ends and -1 is returned.                 *)
Iterate(inRange, next) ==
  /\ pc = "range"
  /\ \/ /\ inRange
        /\ \E r \in DoListen(cur, listening) :
             \/ /\ r = -1
                /\ cur' = next
                /\ UNCHANGED <<listening, pc, ret, returned>>
             \/ /\ r # -1
                /\ pc' = "idle"
                /\ Return(r)
                /\ UNCHANGED cur
     \/ /\ ~inRange
        /\ pc' = "idle"
        /\ Return(-1)
        /\ UNCHANGED cur
  /\ UNCHANGED <<prefs, hi, lo>>

(* Mutant of Step: the condition is start < end, so the last port of the *)
(* range is never tried.                                                 *)
StepSkipLast == Iterate(cur < hi, (cur + 1) % PortMod)

(* Mutant of Step: the start++ is lost, so a failing port is retried.    *)
StepRetry == Iterate(cur <= hi, cur)

(* The loop condition start <= end, and start++ on an unsigned short,   *)
(* which wraps from 65535 to 0.                                          *)
Step == Iterate(cur <= hi, (cur + 1) % PortMod)

(* The user edits the port-range preferences (between main-loop events). *)
SetPrefs(u, s, e) ==
  /\ pc = "idle"
  /\ prefs' = [use |-> u, start |-> s, end |-> e]
  /\ returned' = FALSE
  /\ UNCHANGED <<listening, pc, cur, hi, lo, ret>>

(* A caller closes a listening socket it was given (close(fd) is not in *)
(* network.c; it frees the port for later calls).                       *)
CloseListener(p) ==
  /\ pc = "idle"
  /\ listening' = listening \ {p}
  /\ returned' = FALSE
  /\ UNCHANGED <<prefs, pc, cur, hi, lo, ret>>

Next ==
  \/ \E p \in ListenPorts : Listen(p)
  \/ \E r \in Requests : ListenRange(r[1], r[2])
  \/ Step
  \/ \E u \in BOOLEAN, s, e \in PrefPorts : SetPrefs(u, s, e)
  \/ \E p \in listening : CloseListener(p)

(* The loop runs to completion once entered: nothing can preempt it.   *)
Spec == Init /\ [][Next]_vars /\ WF_vars(Step)

-----------------------------------------------------------------------------
TypeOK ==
  /\ pc \in {"idle", "range"}
  /\ cur \in 0..(PortMod - 1)
  /\ listening \subseteq 1..(PortMod - 1)
  /\ ret \in {-1} \cup 1..(PortMod - 1)

(* A port the caller asked for can be listened on: not 0, not in use,   *)
(* and a descriptor is left.                                             *)
Bindable(q, L) == q # 0 /\ q \notin Busy \cup L /\ Cardinality(L) < MaxFds

(* Whenever gaim_network_listen or gaim_network_listen_range returns, a *)
(* socket is on the first port of [lo, hi] that could be listened on,   *)
(* and -1 means that no port of [lo, hi] could: the caller (a file      *)
(* transfer or a direct connection) advertises the port it asked for.   *)
ListenResult ==
  [][returned' =>
       IF ret' = -1
       THEN \A q \in lo'..hi' : ~Bindable(q, listening)
       ELSE /\ ret' \in lo'..hi'
            /\ Bindable(ret', listening)
            /\ \A q \in lo'..(ret' - 1) : ~Bindable(q, listening)]_vars
=============================================================================
