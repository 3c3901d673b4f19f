--------------------------- MODULE CipherRegistry ---------------------------
(***************************************************************************)
(* The process-wide cipher registry of libpurple/cipher.c and the          *)
(* reference-counted binding of cipher contexts to registered ciphers.     *)
(*                                                                         *)
(*   ciphers    the global GList `ciphers` (registration order)            *)
(*   allocated  PurpleCipher structs currently allocated (g_new0/g_free)   *)
(*   name, ref  the `name` and `ref` fields of each PurpleCipher           *)
(*   ctxCipher  context->cipher of each live PurpleCipherContext, or NULL  *)
(*   listFreed  TRUE once g_list_free(ciphers) has freed the nodes the     *)
(*              global `ciphers` still points to (purple_ciphers_uninit)   *)
(*   ops        the set of non-NULL entries of each cipher's ops table     *)
(*   lastCall   the last operation dispatched through the generic API:     *)
(*              the cipher it went to and whether the table had it         *)
(*                                                                         *)
(* Names are compared with g_ascii_strcasecmp; NameKey maps each name to   *)
(* its ASCII case fold, so two names match exactly when their keys agree.  *)
(* A traversal of the list after listFreed is undefined behaviour: the     *)
(* model stops exploring registry operations from such a state.            *)
(***************************************************************************)
EXTENDS Naturals, Sequences, FiniteSets, SequencesExt

CONSTANTS
  Names,      \* cipher names callers pass to register/find
  NameKey,    \* [Names -> keys]: the ASCII case fold of each name
  Builtins,   \* names registered by purple_ciphers_init, in order
  CipherIds,  \* heap addresses a PurpleCipher may be allocated at
  Ctx,        \* heap addresses of cipher contexts
  OpsOf,      \* [Names -> SUBSET op names]: the table registered under a name
  DispatchOps,\* optional operations callers invoke through a context
  NULL

ASSUME NameKey \in [Names -> STRING]
ASSUME Builtins \in Seq(Names)
ASSUME NULL \notin CipherIds \cup Ctx

VARIABLES ciphers, allocated, name, ref, ctxCipher, listFreed, ops, lastCall

vars == <<ciphers, allocated, name, ref, ctxCipher, listFreed, ops, lastCall>>

regVars == <<ciphers, allocated, name, ref, ctxCipher, listFreed, ops>>

Registered == ToSet(ciphers)

Live == {x \in Ctx : ctxCipher[x] # NULL}

(* Mutant of FindCipher: compares names with strcmp instead of           *)
(* g_ascii_strcasecmp.                                                   *)
FindCipherCaseSensitive(n) ==
  LET hits == SelectInSeq(ciphers, LAMBDA c : name[c] = n)
  IN IF hits = 0 THEN NULL ELSE ciphers[hits]

(* purple_ciphers_find_cipher: the first registered cipher whose name    *)
(* matches n case-insensitively, or NULL.                                *)
FindCipher(n) ==
  LET hits == SelectInSeq(ciphers, LAMBDA c : NameKey[name[c]] = NameKey[n])
  IN IF hits = 0 THEN NULL ELSE ciphers[hits]

Init ==
  /\ ciphers = <<>>
  /\ allocated = {}
  /\ name = [c \in CipherIds |-> NULL]
  /\ ref = [c \in CipherIds |-> 0]
  /\ ctxCipher = [x \in Ctx |-> NULL]
  /\ listFreed = FALSE
  /\ ops = [c \in CipherIds |-> {}]
  /\ lastCall = [ctx |-> NULL, cipher |-> NULL, op |-> "none", reached |-> FALSE]

(* purple_ciphers_register_cipher: refuses a name already present        *)
(* (case-insensitively); otherwise allocates a zeroed cipher, stores the *)
(* name and appends it to the list.                                      *)
RegisterCipher(n) ==
  /\ ~listFreed
  /\ FindCipher(n) = NULL
  /\ \E c \in CipherIds \ allocated :
       /\ allocated' = allocated \cup {c}
       /\ name' = [name EXCEPT ![c] = n]
       /\ ref' = [ref EXCEPT ![c] = 0]
       /\ ops' = [ops EXCEPT ![c] = OpsOf[n]]
       /\ ciphers' = Append(ciphers, c)
  /\ UNCHANGED <<ctxCipher, listFreed, lastCall>>

(* Mutant of UnregisterCipher: the ref == 0 check is dropped.           *)
UnregisterCipherUnchecked(c) ==
  /\ ~listFreed
  /\ ciphers' = Remove(ciphers, c)
  /\ allocated' = allocated \ {c}
  /\ name' = [name EXCEPT ![c] = NULL]
  /\ UNCHANGED <<ref, ctxCipher, listFreed, ops, lastCall>>

(* purple_ciphers_unregister_cipher: refuses while ref > 0; otherwise    *)
(* removes the cipher from the list and frees it.                        *)
UnregisterCipher(c) ==
  /\ ~listFreed
  /\ ref[c] = 0
  /\ ciphers' = Remove(ciphers, c)
  /\ allocated' = allocated \ {c}
  /\ name' = [name EXCEPT ![c] = NULL]
  /\ UNCHANGED <<ref, ctxCipher, listFreed, ops, lastCall>>

(* purple_ciphers_init: registers the built-in ciphers in order; a name  *)
(* already present is refused like any duplicate registration.           *)
CiphersInit ==
  LET fresh == SelectSeq(Builtins, LAMBDA n : FindCipher(n) = NULL)
  IN /\ ~listFreed
     /\ \E ids \in [1..Len(fresh) -> CipherIds \ allocated] :
          /\ \A i, j \in DOMAIN ids : i # j => ids[i] # ids[j]
          /\ ciphers' = ciphers \o ids
          /\ allocated' = allocated \cup ToSet(ids)
          /\ name' = [c \in CipherIds |->
                        IF \E i \in DOMAIN ids : ids[i] = c
                        THEN fresh[CHOOSE i \in DOMAIN ids : ids[i] = c]
                        ELSE name[c]]
          /\ ref' = [c \in CipherIds |-> IF c \in ToSet(ids) THEN 0 ELSE ref[c]]
          /\ ops' = [c \in CipherIds |-> IF c \in ToSet(ids) THEN OpsOf[name'[c]] ELSE ops[c]]
     /\ UNCHANGED <<ctxCipher, listFreed, lastCall>>

(* purple_ciphers_uninit: calls unregister on every listed cipher (which *)
(* fails for those with live contexts), then g_list_free(ciphers) frees  *)
(* the nodes that are left while the global still points at them.        *)
CiphersUninit ==
  LET left == SelectSeq(ciphers, LAMBDA c : ref[c] > 0)
      gone == Registered \ ToSet(left)
  IN /\ ~listFreed
     /\ ciphers' = left
     /\ allocated' = allocated \ gone
     /\ name' = [c \in CipherIds |-> IF c \in gone THEN NULL ELSE name[c]]
     /\ listFreed' = (left # <<>>)
     /\ UNCHANGED <<ref, ctxCipher, ops, lastCall>>

(* Mutant of ContextNew: cipher->ref++ is forgotten.                      *)
ContextNewNoRef(n) ==
  /\ ~listFreed
  /\ FindCipher(n) # NULL
  /\ \E x \in Ctx \ Live : ctxCipher' = [ctxCipher EXCEPT ![x] = FindCipher(n)]
  /\ UNCHANGED <<ciphers, allocated, name, ref, listFreed, ops, lastCall>>

(* purple_cipher_context_new_by_name: finds the cipher, bumps its ref    *)
(* and allocates a context bound to it (init fills context->data).       *)
ContextNew(n) ==
  /\ ~listFreed
  /\ FindCipher(n) # NULL
  /\ \E x \in Ctx \ Live :
       /\ ref' = [ref EXCEPT ![FindCipher(n)] = @ + 1]
       /\ ctxCipher' = [ctxCipher EXCEPT ![x] = FindCipher(n)]
  /\ UNCHANGED <<ciphers, allocated, name, listFreed, ops, lastCall>>

(* Mutant of ContextDestroy: cipher->ref-- is forgotten.                  *)
ContextDestroyNoUnref(x) ==
  /\ ctxCipher' = [ctxCipher EXCEPT ![x] = NULL]
  /\ UNCHANGED <<ciphers, allocated, name, ref, listFreed, ops, lastCall>>

(* purple_cipher_context_destroy: drops the cipher's ref, runs uninit    *)
(* and frees the context.                                                *)
ContextDestroy(x) ==
  /\ ref' = [ref EXCEPT ![ctxCipher[x]] = @ - 1]
  /\ ctxCipher' = [ctxCipher EXCEPT ![x] = NULL]
  /\ UNCHANGED <<ciphers, allocated, name, listFreed, ops, lastCall>>

(* purple_cipher_get_capabilities: one PURPLE_CIPHER_CAPS_* flag for     *)
(* each non-NULL entry of the cipher's ops table.                        *)
GetCapabilities(c) == ops[c]

(* Mutant of Dispatch: calls through the table without testing the entry *)
(* (a NULL function pointer for an operation the cipher lacks).          *)
DispatchUnchecked(x, op) ==
  /\ lastCall' = [ctx |-> x, cipher |-> ctxCipher[x], op |-> op, reached |-> TRUE]
  /\ UNCHANGED regVars

(* purple_cipher_context_set_salt, get_salt_size, set_key, get_key_size, *)
(* set_batch_mode, get_batch_mode, get_block_size, set_key_with_len:     *)
(* read context->cipher and call ops->op when the table has it; else log *)
(* a warning (and the getters return -1).  The operation's own effect on *)
(* context->data is modelled per cipher (BlockModes, ShaEngine, Rc4).    *)
Dispatch(x, op) ==
  /\ lastCall' = [ctx |-> x, cipher |-> ctxCipher[x], op |-> op,
                  reached |-> op \in ops[ctxCipher[x]]]
  /\ UNCHANGED regVars

(* purple_cipher_digest_region: find the cipher; refuse one whose table  *)
(* lacks append or digest; otherwise a temporary context is created      *)
(* (ref++), appended to, digested and destroyed (ref--) within the call. *)
DigestRegion(n) ==
  LET c == FindCipher(n)
  IN /\ ~listFreed
     /\ c # NULL
     /\ lastCall' = [ctx |-> NULL, cipher |-> c, op |-> "digest",
                     reached |-> {"append", "digest"} \subseteq ops[c]]
     /\ UNCHANGED regVars

Next ==
  \/ \E n \in Names : RegisterCipher(n)
  \/ \E c \in Registered : UnregisterCipher(c)
  \/ CiphersInit
  \/ CiphersUninit
  \/ \E n \in Names : ContextNew(n)
  \/ \E x \in Live : ContextDestroy(x)
  \/ \E x \in Live, op \in DispatchOps : Dispatch(x, op)
  \/ \E n \in Names : DigestRegion(n)

Spec == Init /\ [][Next]_vars

-----------------------------------------------------------------------------
TypeOK ==
  /\ ciphers \in Seq(CipherIds)
  /\ allocated \subseteq CipherIds
  /\ name \in [CipherIds -> Names \cup {NULL}]
  /\ ref \in [CipherIds -> Nat]
  /\ ctxCipher \in [Ctx -> CipherIds \cup {NULL}]
  /\ listFreed \in BOOLEAN
  /\ lastCall.reached \in BOOLEAN

(* Registration keeps names unique up to ASCII case: no two ciphers in   *)
(* the list share a case-insensitive name, whatever order plugins and    *)
(* purple_ciphers_init register and unregister them in.                  *)
UniqueNames ==
  \A i, j \in DOMAIN ciphers :
    i # j => NameKey[name[ciphers[i]]] # NameKey[name[ciphers[j]]]

(* The ref field counts exactly the live contexts bound to the cipher,   *)
(* so the ref == 0 test in unregister means "no context uses it".        *)
RefCountExact ==
  \A c \in allocated : ref[c] = Cardinality({x \in Live : ctxCipher[x] = c})

(* A PurpleCipher is never freed (by unregister or uninit) while a live  *)
(* context still points to it.                                           *)
NoFreeUnderContext ==
  [][\A c \in allocated \ allocated' : \A x \in Live : ctxCipher[x] # c]_vars

(* After purple_ciphers_uninit the global list does not point at freed   *)
(* nodes: a later purple_ciphers_init or find_cipher would walk them.    *)
NoDanglingList == listFreed => ciphers = <<>>
=============================================================================
