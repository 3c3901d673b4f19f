----------------------------- MODULE HttpDigest -----------------------------
(***************************************************************************)
(* The HTTP Digest helpers of libpurple/cipher.c,                          *)
(* purple_cipher_http_digest_calculate_session_key and _response, as step  *)
(* machines over the MD5 contexts they create.  A step is the stretch of   *)
(* code between two context creations, digests or returns.                 *)
(*                                                                         *)
(*   pc, fn, args  where the running call is, which helper, its arguments  *)
(*   ctx, live     what was appended to each local context (context,       *)
(*                 context2) and which of them exist                        *)
(*   hash2         the static buffer of _response                           *)
(*   md5           whether purple_ciphers_find_cipher("md5") succeeds      *)
(*   ret           history: the last call that returned, and its result    *)
(*                                                                         *)
(* Strings are tokens; MD5 is abstract: Hex(s) is the lowercase hex string *)
(* of the MD5 of the token sequence s, RawDigest(s) its 16 raw bytes.      *)
(* A name compared with g_ascii_strcasecmp is a record of its text and its *)
(* case-folded form.                                                       *)
(***************************************************************************)
EXTENDS Naturals, Sequences

CONSTANTS
  Null,            \* the NULL pointer
  SessionCalls,    \* argument records of session_key calls
  ResponseCalls    \* argument records of response calls

VARIABLES pc, fn, args, ctx, live, hash2, md5, ret

vars == <<pc, fn, args, ctx, live, hash2, md5, ret>>

Slots == {"context", "context2"}

Hex(s) == [hex |-> s]
RawDigest(s) == [raw |-> s]

NoRet == [fn |-> "none"]

(* g_ascii_strcasecmp(s, lit) != 0 *)
CaseDiffers(s, lit) == s.fold # lit

IsEmpty(s) == s # Null /\ s.text = ""

(* The "supported algorithm" / "quality of protection" checks as written: *)
(* a name differs from at least one of the two literals, so they hold for *)
(* every argument.                                                         *)
AlgCheck(alg) ==
  IF alg = Null \/ IsEmpty(alg) THEN TRUE
  ELSE CaseDiffers(alg, "md5") \/ CaseDiffers(alg, "md5-sess")

QopCheck(q) ==
  IF q = Null \/ IsEmpty(q) THEN TRUE
  ELSE CaseDiffers(q, "auth") \/ CaseDiffers(q, "auth-int")

IsMd5Sess(alg) == alg # Null /\ ~CaseDiffers(alg, "md5-sess")

(* Mutant of IsAuthInt: compares qop case-sensitively.                    *)
IsAuthIntCaseSensitive(q) == q # Null /\ q.text = "auth-int"

IsAuthInt(q) == q # Null /\ ~CaseDiffers(q, "auth-int")

QopOn(q) == q # Null /\ ~IsEmpty(q)

Return(res) ==
  /\ pc' = "idle"
  /\ ret' = [fn |-> fn, args |-> args, res |-> res]

(* purple_cipher_context_new on md5 followed by appends of s. *)
New(slot, s) ==
  /\ live' = live \cup {slot}
  /\ ctx' = [ctx EXCEPT ![slot] = s]

Destroy(slot) ==
  /\ live' = live \ {slot}
  /\ ctx' = [ctx EXCEPT ![slot] = <<>>]

Init ==
  /\ pc = "idle" /\ fn = "none" /\ args = Null
  /\ ctx = [s \in Slots |-> <<>>]
  /\ live = {}
  /\ hash2 = <<>>
  /\ md5 \in BOOLEAN
  /\ ret = NoRet

-----------------------------------------------------------------------------
(* session_key: the four g_return_val_if_fail, the algorithm check, find   *)
(* md5, then new context and append username ":" realm ":" password.      *)
SkCall(a) ==
  /\ pc = "idle"
  /\ fn' = "session" /\ args' = a
  /\ \/ /\ \/ Null \in {a.user, a.realm, a.pass, a.nonce}
           \/ ~AlgCheck(a.alg)
           \/ ~md5
        /\ ret' = [fn |-> "session", args |-> a, res |-> Null]
        /\ UNCHANGED <<pc, ctx, live>>
     \/ /\ Null \notin {a.user, a.realm, a.pass, a.nonce}
        /\ AlgCheck(a.alg) /\ md5
        /\ New("context", <<a.user, ":", a.realm, ":", a.pass>>)
        /\ pc' = "sk_sess"
        /\ UNCHANGED ret
  /\ UNCHANGED <<hash2, md5>>

(* MD5-sess: without client_nonce destroy and return NULL; otherwise take *)
(* the raw digest, destroy, and hash digest ":" nonce ":" client_nonce in  *)
(* a new context.                                                          *)
SkSess ==
  /\ pc = "sk_sess"
  /\ \/ /\ ~IsMd5Sess(args.alg)
        /\ pc' = "sk_final"
        /\ UNCHANGED <<ctx, live, ret>>
     \/ /\ IsMd5Sess(args.alg) /\ args.cnonce = Null
        /\ Destroy("context")
        /\ Return(Null)
     \/ /\ IsMd5Sess(args.alg) /\ args.cnonce # Null
        /\ New("context", <<RawDigest(ctx["context"]), ":", args.nonce,
                            ":", args.cnonce>>)
        /\ pc' = "sk_final"
        /\ UNCHANGED ret
  /\ UNCHANGED <<fn, args, hash2, md5>>

(* digest_to_str into hash[33], destroy, return g_strdup(hash). *)
SkFinal ==
  /\ pc = "sk_final"
  /\ Destroy("context")
  /\ Return(Hex(ctx["context"]))
  /\ UNCHANGED <<fn, args, hash2, md5>>

-----------------------------------------------------------------------------
(* response: the four g_return_val_if_fail, the algorithm and qop checks, *)
(* find md5, then new context and append method ":" digest_uri.           *)
RsCall(a) ==
  /\ pc = "idle"
  /\ fn' = "response" /\ args' = a
  /\ \/ /\ \/ Null \in {a.method, a.uri, a.nonce, a.sk}
           \/ ~AlgCheck(a.alg) \/ ~QopCheck(a.qop)
           \/ ~md5
        /\ ret' = [fn |-> "response", args |-> a, res |-> Null]
        /\ UNCHANGED <<pc, ctx, live>>
     \/ /\ Null \notin {a.method, a.uri, a.nonce, a.sk}
        /\ AlgCheck(a.alg) /\ QopCheck(a.qop) /\ md5
        /\ New("context", <<a.method, ":", a.uri>>)
        /\ pc' = "rs_int"
        /\ UNCHANGED ret
  /\ UNCHANGED <<hash2, md5>>

(* qop auth-int: without entity destroy and return NULL; otherwise a      *)
(* second context hashes the entity.                                       *)
RsInt ==
  /\ pc = "rs_int"
  /\ \/ /\ ~IsAuthInt(args.qop)
        /\ pc' = "rs_hash2"
        /\ UNCHANGED <<ctx, live, ret>>
     \/ /\ IsAuthInt(args.qop) /\ args.entity = Null
        /\ Destroy("context")
        /\ Return(Null)
     \/ /\ IsAuthInt(args.qop) /\ args.entity # Null
        /\ New("context2", <<args.entity>>)
        /\ pc' = "rs_entity"
        /\ UNCHANGED ret
  /\ UNCHANGED <<fn, args, hash2, md5>>

(* digest_to_str of context2 into entity_hash, destroy context2, append   *)
(* ":" entity_hash to context.                                             *)
RsEntity ==
  /\ pc = "rs_entity"
  /\ live' = live \ {"context2"}
  /\ ctx' = [ctx EXCEPT !["context2"] = <<>>,
                        !["context"] = @ \o <<":", Hex(ctx["context2"])>>]
  /\ pc' = "rs_hash2"
  /\ UNCHANGED <<fn, args, hash2, md5, ret>>

(* digest_to_str into the static hash2, destroy, new context with        *)
(* session_key ":" nonce ":".                                              *)
RsHash2 ==
  /\ pc = "rs_hash2"
  /\ hash2' = Hex(ctx["context"])
  /\ New("context", <<args.sk, ":", args.nonce, ":">>)
  /\ pc' = "rs_qop"
  /\ UNCHANGED <<fn, args, md5, ret>>

(* Mutant of RsQop: the nonce_count check returns without destroying.     *)
RsQopLeak ==
  /\ pc = "rs_qop"
  /\ \/ /\ ~QopOn(args.qop)
        /\ pc' = "rs_final"
        /\ UNCHANGED <<ctx, live, ret>>
     \/ /\ QopOn(args.qop) /\ args.nc = Null
        /\ Return(Null)
        /\ UNCHANGED <<ctx, live>>
     \/ /\ QopOn(args.qop) /\ args.nc # Null /\ args.cnonce = Null
        /\ Destroy("context")
        /\ Return(Null)
     \/ /\ QopOn(args.qop) /\ args.nc # Null /\ args.cnonce # Null
        /\ ctx' = [ctx EXCEPT !["context"] =
                     @ \o <<args.nc, ":", args.cnonce, ":", args.qop.text, ":">>]
        /\ pc' = "rs_final"
        /\ UNCHANGED <<live, ret>>
  /\ UNCHANGED <<fn, args, hash2, md5>>

(* qop non-empty: nonce_count and client_nonce are required (destroy and  *)
(* return NULL otherwise); append nonce_count ":" client_nonce ":" qop ":". *)
RsQop ==
  /\ pc = "rs_qop"
  /\ \/ /\ ~QopOn(args.qop)
        /\ pc' = "rs_final"
        /\ UNCHANGED <<ctx, live, ret>>
     \/ /\ QopOn(args.qop) /\ args.nc = Null
        /\ Destroy("context")
        /\ Return(Null)
     \/ /\ QopOn(args.qop) /\ args.nc # Null /\ args.cnonce = Null
        /\ Destroy("context")
        /\ Return(Null)
     \/ /\ QopOn(args.qop) /\ args.nc # Null /\ args.cnonce # Null
        /\ ctx' = [ctx EXCEPT !["context"] =
                     @ \o <<args.nc, ":", args.cnonce, ":", args.qop.text, ":">>]
        /\ pc' = "rs_final"
        /\ UNCHANGED <<live, ret>>
  /\ UNCHANGED <<fn, args, hash2, md5>>

(* append hash2, digest_to_str back into hash2, destroy, return a copy.   *)
RsFinal ==
  /\ pc = "rs_final"
  /\ hash2' = Hex(ctx["context"] \o <<hash2>>)
  /\ Destroy("context")
  /\ Return(Hex(ctx["context"] \o <<hash2>>))
  /\ UNCHANGED <<fn, args, md5>>

Next ==
  \/ \E a \in SessionCalls : SkCall(a)
  \/ SkSess \/ SkFinal
  \/ \E a \in ResponseCalls : RsCall(a)
  \/ RsInt \/ RsEntity \/ RsHash2 \/ RsQop \/ RsFinal

Spec == Init /\ [][Next]_vars

-----------------------------------------------------------------------------
(* Every exit of either helper, the early returns for a missing           *)
(* client_nonce, entity or nonce_count included, has destroyed every MD5  *)
(* context the call created, so the md5 cipher's reference count is back  *)
(* where it was and the cipher can be unregistered.                       *)
NoContextLeak == pc = "idle" => live = {}

(* spec.md 4.6 and RFC 2617: the value a call must return.  Names other   *)
(* than MD5 and MD5-sess (and qop other than auth and auth-int) are        *)
(* rejected.  Each hash step feeds the next its lowercase hex string,      *)
(* except the MD5-sess HA1, which RFC 2617's reference DigestCalcHA1 feeds *)
(* as the 16 raw bytes (spec.md 4.6 says hex there too).                   *)
Supported(alg) == alg = Null \/ alg.fold \in {"", "md5", "md5-sess"}

QopSupported(q) == q = Null \/ q.fold \in {"", "auth", "auth-int"}

SpecSess(alg) == alg # Null /\ alg.fold = "md5-sess"

SpecAuthInt(q) == q # Null /\ q.fold = "auth-int"

SpecQopOn(q) == q # Null /\ q.text # ""

SpecSessionKey(a) ==
  LET ha1 == Hex(<<a.user, ":", a.realm, ":", a.pass>>)
  IN CASE Null \in {a.user, a.realm, a.pass, a.nonce} \/ ~Supported(a.alg)
            \/ ~md5 -> Null
       [] SpecSess(a.alg) /\ a.cnonce = Null -> Null
       [] SpecSess(a.alg) -> Hex(<<RawDigest(ha1.hex), ":", a.nonce, ":", a.cnonce>>)
       [] OTHER -> ha1

SpecResponse(a) ==
  LET ha2 == Hex(<<a.method, ":", a.uri>> \o
                 (IF SpecAuthInt(a.qop) THEN <<":", Hex(<<a.entity>>)>> ELSE <<>>))
      qopPart == IF SpecQopOn(a.qop)
                 THEN <<a.nc, ":", a.cnonce, ":", a.qop.text, ":">> ELSE <<>>
  IN CASE Null \in {a.method, a.uri, a.nonce, a.sk} \/ ~Supported(a.alg)
            \/ ~QopSupported(a.qop) \/ ~md5 -> Null
       [] SpecAuthInt(a.qop) /\ a.entity = Null -> Null
       [] SpecQopOn(a.qop) /\ Null \in {a.nc, a.cnonce} -> Null
       [] OTHER -> Hex(<<a.sk, ":", a.nonce, ":">> \o qopPart \o <<ha2>>)

(* Every value a helper returns is the one spec.md 4.6 and RFC 2617       *)
(* define for its arguments, NULL exactly when the arguments are refused. *)
ResultMatchesRfc ==
  /\ ret.fn = "session" => ret.res = SpecSessionKey(ret.args)
  /\ ret.fn = "response" => ret.res = SpecResponse(ret.args)
=============================================================================
