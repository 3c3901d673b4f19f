------------------------------ MODULE MCNetwork ------------------------------
(***************************************************************************)
(* Ports for TLC.  Port 1024 is taken by another process and the kernel    *)
(* hands out 40000 for port 0; two descriptors are available, so a third   *)
(* socket fails.  Callers ask for 1024..1025 and for 1026..1024 (end below *)
(* start, raised to start); the user may store 1025 or 1026 as either      *)
(* range bound, so preference ranges can be empty.                         *)
(***************************************************************************)
EXTENDS Network

MCRequests == {<<1024, 1025>>, <<1026, 1024>>}

(* The range that ends at the top of unsigned short, where start++ wraps. *)
MCTopRequests == {<<65534, 65535>>}
=============================================================================
