\* The cipher registry (as MCCipherRegistry.cfg before), the HTTP Digest
\* helpers with supported arguments, the D-Bus pointer registry (as
\* MCDBusServer.cfg) and the MSN nexus login (MCNexus), side by side.  The
\* cipher registry has no step after uninit has freed a list with live
\* contexts, the D-Bus registry's callers stop once their creations are
\* used up, and a nexus login ends when the nexus is gone.
CONSTANTS
  NULL = NULL
  Null = Null
  CipherIds = {c1, c2, c3}
  Ctx = {x1, x2}
  Nodes = {n1, n2}
  IdBits = 3
  MaxRegs = 4
SPECIFICATION Spec
INVARIANT TypeOK
INVARIANT UniqueNames
INVARIANT RefCountExact
PROPERTY NoFreeUnderContext
INVARIANT NoContextLeak
INVARIANT ResultMatchesRfc
INVARIANT TablesConsistent
PROPERTY ResolveSound
INVARIANT SignalNameMatchesReference
INVARIANT GetArgsMatchesReference
INVARIANT FreedOnce
INVARIANT ErrorExcludesLogin
CHECK_DEADLOCK FALSE
