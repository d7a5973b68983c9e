SPECIFICATION Spec
CONSTANTS
  a = a  b = b  c = c  w1 = w1  w2 = w2  h1 = h1  h2 = h2  NoRow = NoRow
  Items = {a, b, c}  Rank <- Three  Deps <- Chain  Diagrams = {}
  Workers = {w1, w2}  Handlers = {h1}
  BatchSize = 2  MaxQueues = 2  MaxReads = 2  MaxCrashes = 1
INVARIANTS TypeOK
PROPERTIES ImplementsContract
