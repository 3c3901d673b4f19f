\* The DES and Triple-DES contexts (as MCBlockModes.cfg) and the RC4
\* context keyed only when new or reset (as MCRc4.cfg), side by side.
CONSTANTS
  Contexts = {"des", "des3"}
  DesKeys = {1, 2}
  N = 256
  KeyLens = {3}
  MaxStream = 9

SPECIFICATION Spec

INVARIANT TypeOK
INVARIANT RoundTrip
INVARIANT DesKnownVector
INVARIANT Rc4TableIsPermutation
INVARIANT KnownVector
PROPERTY RefinesRc4Spec
