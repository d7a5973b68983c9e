SPECIFICATION Spec
CONSTANTS
  a = a  b = b  c = c  w1 = w1  w2 = w2  h1 = h1  h2 = h2  NoRow = NoRow
  Items = {a}  Rank <- One  Deps <- Lone  Diagrams = {a}
  Workers = {w1, w2}  Handlers = {h1, h2}
  BatchSize = 1  MaxQueues = 2  MaxReads = 1  MaxCrashes = 1
PROPERTIES QueueKept CleanEndBuilt SealIsForever
SYMMETRY Threads
