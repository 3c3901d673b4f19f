\* An algorithm other than MD5/MD5-sess and a qop other than auth/auth-int:
\* checked against the spec's rule that they are rejected.
CONSTANTS
  Null = Null
  SessionCalls <- MCSessionCallsOther
  ResponseCalls <- MCResponseCallsOther
SPECIFICATION Spec
INVARIANT ResultMatchesRfc
