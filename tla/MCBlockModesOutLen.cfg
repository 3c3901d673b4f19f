\* The length DES encrypt/decrypt report through outlen.
CONSTANTS
  Contexts = {"des"}
  Keys = {1, 2}
  KeyTriples <- MCKeyTriples
  Msgs <- MCMsgs
  IVs <- MCIVs

SPECIFICATION MCSpec

INVARIANT OutLenReported
