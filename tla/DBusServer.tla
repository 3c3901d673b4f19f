----------------------------- MODULE DBusServer -----------------------------
(***************************************************************************)
(* The pointer registration mechanism of src/dbus-server.c and the         *)
(* signal emission that uses it.                                           *)
(*                                                                         *)
(*   nodeId   map_node_id: object pointer -> handle                        *)
(*   idNode   map_id_node: handle -> object pointer                        *)
(*   idType   map_id_type: handle -> GaimDBusType                          *)
(*   lastId   the static gint last_id of gaim_dbus_register_pointer        *)
(*   conn     gaim_dbus_connection is not NULL                             *)
(*   initErr  init_error: Null or the step of dispatch_init that failed    *)
(*   alive    the objects that exist, with the type they were created as   *)
(*            (kept by their constructors and destructors, outside this    *)
(*            file, which register and unregister them)                    *)
(*   regs     how many objects were created (bounded by MaxRegs)           *)
(*   result   what the last lookup returned                                *)
(*   sent     the last D-Bus signal sent: its member name and object ids   *)
(*                                                                         *)
(* A GHashTable is a function; a key that is absent reads as NULL, which  *)
(* for the handle tables is the integer 0 (GPOINTER_TO_INT(NULL)).         *)
(***************************************************************************)
EXTENDS Integers, Sequences, FiniteSets, SequencesExt

CONSTANTS
  Null,         \* the NULL pointer
  Nodes,        \* object addresses (an address is reused after a free)
  Types,        \* the GaimDBusType structs of dbus-types.c that matter
  CreateTypes,  \* the types objects are created as
  IdBits,       \* width of gint
  MaxRegs,      \* objects created in one behaviour
  SignalNames,  \* gaim signal names, as sequences of characters
  MethodCalled  \* the name "dbus-method-called"

ASSUME IdBits \in Nat \ {0} /\ MaxRegs \in Nat
ASSUME CreateTypes \subseteq Types

VARIABLES nodeId, idNode, idType, lastId, conn, initErr, alive, regs,
          result, sent

vars == <<nodeId, idNode, idType, lastId, conn, initErr, alive, regs,
          result, sent>>

(* gint arithmetic: last_id++ past G_MAXINT wraps to G_MININT (signed     *)
(* overflow is undefined; the build wraps).                               *)
IntMin == -(2 ^ (IdBits - 1))
IntMax == 2 ^ (IdBits - 1) - 1
Ids    == IntMin..IntMax
Wrap(x) == ((x - IntMin) % (2 ^ IdBits)) + IntMin

(* g_hash_table_lookup on a handle table: 0 for an absent key. *)
Lookup(f, k) == IF k \in DOMAIN f THEN f[k] ELSE 0
(* g_hash_table_lookup on map_id_node / map_id_type: NULL if absent. *)
LookupPtr(f, k) == IF k \in DOMAIN f THEN f[k] ELSE Null

(* g_hash_table_insert (an existing key's value is replaced) and remove. *)
HashInsert(f, k, v) == [x \in DOMAIN f \cup {k} |-> IF x = k THEN v ELSE f[x]]
HashRemove(f, k) == [x \in DOMAIN f \ {k} |-> f[x]]

(* gaim_dbus_init_ids: the parents set for the buddy-list node types;    *)
(* every other type has parent NULL.                                      *)
Parent(t) ==
  IF t \in {"GaimBuddy", "GaimContact", "GaimChat", "GaimGroup"}
  THEN "GaimBlistNode" ELSE Null

(* Mutant of TypeWalk: the handle's type must equal the asked type; the  *)
(* parent links are not followed.                                         *)
TypeWalkNoParent(objtype, type) ==
  IF objtype = type \/ objtype = Null THEN objtype ELSE Null

(* The while loop of gaim_dbus_id_to_pointer: follow parent links from    *)
(* the handle's type until the asked type or NULL.                        *)
RECURSIVE TypeWalk(_, _)
TypeWalk(objtype, type) ==
  IF objtype = type \/ objtype = Null THEN objtype
  ELSE TypeWalk(Parent(objtype), type)

(* gaim_dbus_id_to_pointer(id, type). *)
IdToPointerOf(id, type) ==
  IF TypeWalk(LookupPtr(idType, id), type) = type
  THEN LookupPtr(idNode, id) ELSE Null

(* gaim_dbus_pointer_to_id(node): the handle, 0 for NULL or an object    *)
(* never registered (the warning and g_return_val_if_reached return 0).   *)
PointerToIdOf(node) == Lookup(nodeId, node)

NoResult == [op |-> "none", id |-> 0, type |-> "none", ptr |-> Null, err |-> FALSE]

(* gaim_dbus_init: gaim_dbus_init_ids creates the three empty tables,     *)
(* then gaim_dbus_dispatch_init either succeeds or fails at dbus_bus_get  *)
(* (no connection), at registering the object path (the connection is    *)
(* kept) or at requesting the service name (the connection is dropped).   *)
Init ==
  /\ nodeId = <<>> /\ idNode = <<>> /\ idType = <<>>
  /\ lastId = 0
  /\ \E outcome \in {"ok", "conn", "path", "name"} :
       /\ conn = (outcome \in {"ok", "path"})
       /\ initErr = IF outcome = "ok" THEN Null ELSE outcome
  /\ alive = <<>>
  /\ regs = 0
  /\ result = NoResult
  /\ sent = [member |-> <<>>, ids |-> <<>>]

(* Mutant of RegisterPointer: the handle is inserted before last_id++,   *)
(* so the first object gets handle 0.                                     *)
RegisterPointerLate(node, type) ==
  IF Lookup(nodeId, node) # 0
  THEN UNCHANGED <<nodeId, idNode, idType, lastId>>
  ELSE /\ lastId' = Wrap(lastId + 1)
       /\ nodeId' = HashInsert(nodeId, node, lastId)
       /\ idNode' = HashInsert(idNode, lastId, node)
       /\ idType' = HashInsert(idType, lastId, type)

(* gaim_dbus_register_pointer(node, type): refused (g_return_if_fail)    *)
(* when map_node_id already gives the node a non-NULL handle; otherwise   *)
(* last_id++ and the handle is inserted into the three tables.            *)
RegisterPointer(node, type) ==
  LET id == Wrap(lastId + 1)
  IN IF Lookup(nodeId, node) # 0
     THEN UNCHANGED <<nodeId, idNode, idType, lastId>>
     ELSE /\ lastId' = id
          /\ nodeId' = HashInsert(nodeId, node, id)
          /\ idNode' = HashInsert(idNode, id, node)
          /\ idType' = HashInsert(idType, id, type)

(* gaim_dbus_unregister_pointer(node): the handle read from map_node_id  *)
(* (0 if the node has none) is removed from the other two tables.         *)
UnregisterPointer(node) ==
  LET id == Lookup(nodeId, node)
  IN /\ nodeId' = HashRemove(nodeId, node)
     /\ idNode' = HashRemove(idNode, id)
     /\ idType' = HashRemove(idType, id)
     /\ UNCHANGED lastId

(* An object is created at a free address and registered by its          *)
(* constructor.                                                           *)
Create(n, t) ==
  /\ n \notin DOMAIN alive
  /\ regs < MaxRegs
  /\ alive' = HashInsert(alive, n, t)
  /\ regs' = regs + 1
  /\ RegisterPointer(n, t)
  /\ UNCHANGED <<conn, initErr, result, sent>>

(* An object's destructor unregisters it; its address becomes free.      *)
Destroy(n) ==
  /\ n \in DOMAIN alive
  /\ alive' = HashRemove(alive, n)
  /\ UnregisterPointer(n)
  /\ UNCHANGED <<conn, initErr, regs, result, sent>>

(* gaim_dbus_pointer_to_id_error: the handle of a live object or NULL;   *)
(* the DBusError ObjectNotFound is set for a non-NULL unmapped object.    *)
PointerToId(node) ==
  LET id == PointerToIdOf(node)
  IN /\ result' = [op |-> "p2id", id |-> id, type |-> "none", ptr |-> node,
                   err |-> (node # Null /\ id = 0)]
     /\ UNCHANGED <<nodeId, idNode, idType, lastId, conn, initErr, alive,
                    regs, sent>>

(* gaim_dbus_id_to_pointer_error: a handle a D-Bus client sent, with the *)
(* type the method expects; InvalidHandle is set for a non-zero handle   *)
(* that gives NULL.                                                       *)
IdToPointer(id, type) ==
  LET ptr == IdToPointerOf(id, type)
  IN /\ result' = [op |-> "id2p", id |-> id, type |-> type, ptr |-> ptr,
                   err |-> (ptr = Null /\ id # 0)]
     /\ UNCHANGED <<nodeId, idNode, idType, lastId, conn, initErr, alive,
                    regs, sent>>

Separators == {"-", "_"}
UpperOf == ("a" :> "A") @@ ("b" :> "B") @@ ("c" :> "C") @@ ("m" :> "M")
(* g_ascii_toupper *)
Upper(c) == IF c \in DOMAIN UpperOf THEN UpperOf[c] ELSE c

(* gaim_dbus_convert_signal_name: drop '-' and '_' and upper-case the    *)
(* first character and every character that follows one.                  *)
RECURSIVE ConvertFrom(_, _)
ConvertFrom(s, capitalizeNext) ==
  IF s = <<>> THEN <<>>
  ELSE IF Head(s) \notin Separators
       THEN <<IF capitalizeNext THEN Upper(Head(s)) ELSE Head(s)>>
              \o ConvertFrom(Tail(s), FALSE)
       ELSE ConvertFrom(Tail(s), TRUE)

(* Mutant of ConvertSignalName: capitalize_next starts FALSE. *)
ConvertSignalNameLower(s) == ConvertFrom(s, FALSE)

ConvertSignalName(s) == ConvertFrom(s, TRUE)

(* gaim_dbus_message_append_gaim_values for pointer values: each is      *)
(* appended as its handle (0 for NULL or an unregistered object).         *)
AppendValues(args) == [k \in DOMAIN args |-> PointerToIdOf(args[k])]

(* gaim_dbus_signal_emit_gaim(name, values): nothing without a           *)
(* connection or for "dbus-method-called"; otherwise a signal named by    *)
(* the converted name, each pointer value appended as its handle          *)
(* (gaim_dbus_message_append_gaim_values), is sent.                       *)
EmitSignal(name, args) ==
  /\ IF ~conn \/ name = MethodCalled
     THEN UNCHANGED sent
     ELSE sent' = [member |-> ConvertSignalName(name),
                   ids |-> AppendValues(args)]
  /\ UNCHANGED <<nodeId, idNode, idType, lastId, conn, initErr, alive, regs,
                 result>>

(* D-Bus argument type codes; the container types are STRUCT, DICT_ENTRY, *)
(* VARIANT and ARRAY (TYPE_IS_CONTAINER).                                 *)
ArgTypes   == {"i", "s", "a", "v"}
Containers == {"a", "v"}

RECURSIVE GetArgsFrom(_, _, _)

(* Mutant of GetArgsFrom: the end of the message is tested before the end *)
(* of the specification, so a message with exactly the specified         *)
(* arguments is refused.                                                  *)
GetArgsFromEarlyEnd(spec, msg, i) ==
  LET msgType == IF i <= Len(msg) THEN msg[i] ELSE "INVALID"
  IN IF msgType # spec[i] THEN FALSE
     ELSE IF spec[i] \in Containers THEN TRUE
     ELSE IF i >= Len(msg) THEN FALSE
     ELSE IF i = Len(spec) THEN TRUE
     ELSE GetArgsFrom(spec, msg, i + 1)

(* The loop of gaim_dbus_message_iter_get_args_valist at argument i: a   *)
(* type mismatch fails (the message has DBUS_TYPE_INVALID past its end); *)
(* a container is handed to the caller's sub-iterator and ends the loop   *)
(* ("for testing only!"); after the last specified argument the loop     *)
(* ends; a message without a next argument fails.                         *)
GetArgsFrom(spec, msg, i) ==
  LET msgType == IF i <= Len(msg) THEN msg[i] ELSE "INVALID"
  IN IF msgType # spec[i] THEN FALSE
     ELSE IF spec[i] \in Containers THEN TRUE
     ELSE IF i = Len(spec) THEN TRUE
     ELSE IF i >= Len(msg) THEN FALSE
     ELSE GetArgsFrom(spec, msg, i + 1)

(* gaim_dbus_message_get_args and its iterator and va_list forms: TRUE  *)
(* at once for an empty specification.                                    *)
GetArgs(spec, msg) == spec = <<>> \/ GetArgsFrom(spec, msg, 1)

(* gaim_dbus_uninit: init_error is freed and cleared; nothing else.      *)
Uninit ==
  /\ initErr' = Null
  /\ UNCHANGED <<nodeId, idNode, idType, lastId, conn, alive, regs, result,
                 sent>>

Next ==
  \/ \E n \in Nodes, t \in CreateTypes : Create(n, t)
  \/ \E n \in DOMAIN alive : Destroy(n)
  \/ \E n \in DOMAIN alive \cup {Null} : PointerToId(n)
  \/ \E id \in Ids, t \in Types : IdToPointer(id, t)
  \/ \E name \in SignalNames, a \in DOMAIN alive \cup {Null} :
       EmitSignal(name, <<a>>)
  \/ Uninit

Spec == Init /\ [][Next]_vars

-----------------------------------------------------------------------------
TypeOK ==
  /\ lastId \in Ids
  /\ DOMAIN nodeId \subseteq Nodes /\ DOMAIN alive \subseteq Nodes
  /\ \A n \in DOMAIN nodeId : nodeId[n] \in Ids
  /\ \A id \in DOMAIN idType : idType[id] \in Types
  /\ conn \in BOOLEAN
  /\ initErr \in {Null, "conn", "path", "name"}
  /\ result.op \in {"none", "p2id", "id2p"}

(* Every live object has a non-zero handle that map_id_node maps back to  *)
(* it and map_id_type to the type it was created as, and every handle in  *)
(* the tables names a live object: register, unregister and the reuse of *)
(* addresses keep the three tables of dbus-server.c inverse to each other.*)
TablesConsistent ==
  /\ DOMAIN idType = DOMAIN idNode
  /\ \A n \in DOMAIN alive :
       LET id == Lookup(nodeId, n)
       IN /\ id # 0
          /\ LookupPtr(idNode, id) = n
          /\ LookupPtr(idType, id) = alive[n]
  /\ \A id \in DOMAIN idNode :
       /\ idNode[id] \in DOMAIN alive
       /\ Lookup(nodeId, idNode[id]) = id

(* The types a type is an instance of: itself and its ancestors under   *)
(* the parent links.                                                      *)
RECURSIVE InstanceOf(_)
InstanceOf(t) == IF t = Null THEN {} ELSE {t} \cup InstanceOf(Parent(t))

(* The object a client means by handle id when it asks for a type: the   *)
(* live object holding that handle, if it was created as that type or a  *)
(* subtype of it.                                                         *)
Meant(id, type) ==
  LET owners == {n \in DOMAIN alive : id # 0 /\ Lookup(nodeId, n) = id
                                      /\ type \in InstanceOf(alive[n])}
  IN IF owners = {} THEN Null ELSE CHOOSE n \in owners : TRUE

(* gaim_dbus_id_to_pointer, as called by every D-Bus method that takes   *)
(* an object handle, gives the live object the handle names when it is   *)
(* of the asked type or a subtype (a GaimBuddy asked for as a            *)
(* GaimBlistNode), and NULL for any other handle: never a destroyed      *)
(* object, never an object of an unrelated type.                         *)
ResolveSound ==
  [][result' # result /\ result'.op = "id2p" =>
       result'.ptr = Meant(result'.id, result'.type)]_vars

(* gaim_dbus_convert_signal_name, written as an index map: the kept      *)
(* characters, each upper-cased when it is the first or follows a         *)
(* separator.                                                             *)
ReferenceSignalName(s) ==
  LET keep == SetToSortSeq({i \in DOMAIN s : s[i] \notin Separators}, <)
  IN [k \in DOMAIN keep |->
        IF keep[k] = 1 \/ s[keep[k] - 1] \in Separators
        THEN Upper(s[keep[k]]) ELSE s[keep[k]]]

(* What dbus_message_get_args promises, up to the shortcut the code      *)
(* states: the message's arguments begin with the specified types, up to  *)
(* and including the first container.                                     *)
ReferenceGetArgs(spec, msg) ==
  LET cs == {k \in DOMAIN spec : spec[k] \in Containers}
      n  == IF cs = {} THEN Len(spec) ELSE CHOOSE k \in cs : \A j \in cs : k <= j
  IN IsPrefix(SubSeq(spec, 1, n), msg)
=============================================================================
