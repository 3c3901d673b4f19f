\* Eight objects over two addresses with a 3-bit gint: last_id runs 1, 2,
\* 3, -4, -3, -2, -1 and then 0, the value map_node_id cannot tell from
\* "not registered".
CONSTANTS
  Null = Null
  Nodes = {n1, n2}
  Types <- MCTypes
  CreateTypes <- MCCreateTypes
  IdBits = 3
  MaxRegs = 8
  SignalNames <- MCSignalNames
  MethodCalled <- MCMethodCalled
SPECIFICATION Spec
INVARIANT TablesConsistent
CHECK_DEADLOCK FALSE
