\* Refinement of DigestSpec by the SHA-1 engine (DigestLen 20), with
\* set_option("sizeHi"/"sizeLo").  Word is 2^6 instead of 2^32 so that
\* sizeLo wraps into sizeHi every 8 bytes; the option value 63 sits off the
\* byte grid just below the wrap, so appends carry lo into hi and wrap hi.
\* The bit-level SHA-1 and SHA-256 of ShaHash are checked against the
\* FIPS 180-2 vectors in the same run.
CONSTANTS
  DigestLen = 20
  DataBytes <- MCDataBytes
  Chunks <- MCChunks
  MaxMsgBytes <- MCMaxMsgBytes
  InLens = {19, 20}
  StrLens = {41}
  Word = 64
  OptValues = {63}

SPECIFICATION Spec

INVARIANT TypeOK
INVARIANT Sha1KnownVectors
INVARIANT Sha256KnownVectors
PROPERTY RefinesDigestSpec
