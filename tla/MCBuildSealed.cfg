SPECIFICATION Spec
CONSTANTS
  a = a  b = b  c = c  w1 = w1  w2 = w2  h1 = h1  h2 = h2  NoRow = NoRow
  Items = {a, b}  Rank <- Two  Deps <- Pair  Diagrams = {b}
  Workers = {w1, w2}  Handlers = {h1}
  BatchSize = 1  MaxQueues = 3  MaxReads = 0  MaxCrashes = 1
INVARIANTS SealedWhenBuilt
