\* digest_to_str called with a buffer one byte too short for the hex
\* string and its NUL (40 for SHA-1), checked against DigestSpec.
CONSTANTS
  DigestLen = 20
  DataBytes <- MCDataBytes
  Chunks <- MCChunks
  MaxMsgBytes <- MCMaxMsgBytes
  InLens = {20}
  StrLens = {40, 41}
  Word = 64
  OptValues = {}

SPECIFICATION Spec

PROPERTY RefinesDigestSpec
