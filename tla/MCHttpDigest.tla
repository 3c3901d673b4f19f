---------------------------- MODULE MCHttpDigest ----------------------------
(* Small argument sets for the HTTP Digest helpers: every argument is a    *)
(* value or NULL, names come in two spellings so the case-insensitive      *)
(* comparisons matter.                                                     *)
EXTENDS HttpDigest

Name(t, f) == [text |-> t, fold |-> f]

MD5     == Name("MD5", "md5")
MD5Sess == Name("MD5-sess", "md5-sess")
SHA     == Name("SHA-256", "sha-256")
Empty   == Name("", "")

AuthQ    == Name("auth", "auth")
AuthIntQ == Name("AUTH-INT", "auth-int")
TokenQ   == Name("token", "token")

MCSessionCalls ==
  [alg: {Null, Empty, MD5, MD5Sess}, user: {"u", Null}, realm: {"r"}, pass: {"p"},
   nonce: {"n"}, cnonce: {"c", Null}]

MCSessionCallsOther ==
  [alg: {SHA}, user: {"u"}, realm: {"r"}, pass: {"p"},
   nonce: {"n"}, cnonce: {"c"}]

MCResponseCalls ==
  [alg: {Null, MD5Sess}, method: {"GET", Null}, uri: {"/d"},
   qop: {Null, Empty, AuthQ, AuthIntQ}, entity: {"e", Null}, nonce: {"n"},
   nc: {"1", Null}, cnonce: {"c", Null}, sk: {"k"}]

MCResponseCallsOther ==
  [alg: {Null}, method: {"GET"}, uri: {"/d"}, qop: {TokenQ}, entity: {"e"},
   nonce: {"n"}, nc: {"1"}, cnonce: {"c"}, sk: {"k"}]
=============================================================================
