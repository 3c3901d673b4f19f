\* A range that ends at 65535, with port 6553 taken: serv[5] turns 65534
\* and 65535 into "6553", start++ wraps to 0, and service "0" binds a
\* port of the kernel's choosing.
CONSTANTS
  Busy = {6553}
  Ephemeral = {40000}
  MaxFds = 2
  Requests <- MCTopRequests
  ListenPorts = {1025}
  PrefPorts = {1025}
SPECIFICATION Spec
PROPERTY ListenResult
