CONSTANTS
  Names <- MCNames
  NameKey <- MCNameKey
  Builtins <- MCBuiltins
  OpsOf <- MCOpsOf
  DispatchOps <- MCDispatchOps
  CipherIds = {c1, c2, c3}
  Ctx = {x1, x2}
  NULL = NULL

SPECIFICATION Spec

INVARIANT NoDanglingList

CHECK_DEADLOCK FALSE
