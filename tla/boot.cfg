SPECIFICATION Spec
CONSTANTS
  s1 = s1  s2 = s2  c1 = c1  c2 = c2
  Streams = {s1, s2}
  Clients = {c1, c2}
  Asks <- MCBootAsks
  Patches <- MCPatches
  Ports = {0, 1, 2, 8}  AutoPorts = {1, 2}
  Fallback = 8
  NoOne = NoOne
  MaxPatches = 2
INVARIANTS
  ComesUp
