CONSTANTS
  Port = {p1, p2}
  Key = {k1, k2}
  Group = {down, up}
  Down = down
  FieldKey = {k1}
  MaxBuilds = 4

SPECIFICATION Spec

PROPERTY KeepsPromise
