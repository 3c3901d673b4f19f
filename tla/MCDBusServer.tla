---------------------------- MODULE MCDBusServer ----------------------------
(* Two object addresses (so an address is freed and reused, possibly for  *)
(* an object of another type), a buddy, a group and an account (two types *)
(* under GaimBlistNode and one outside it), and two signal names, one of   *)
(* them "dbus-method-called".                                              *)
EXTENDS DBusServer

MCTypes       == {"GaimBlistNode", "GaimBuddy", "GaimGroup", "GaimAccount"}
MCCreateTypes == {"GaimBuddy", "GaimGroup", "GaimAccount"}
MCMethodCalled == <<"m", "-", "c">>
MCSignalNames == {<<"b", "-", "a">>, MCMethodCalled}
=============================================================================
