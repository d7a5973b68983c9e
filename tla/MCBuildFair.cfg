SPECIFICATION FairSpec
CONSTANTS
  a = a  b = b  c = c  w1 = w1  w2 = w2  h1 = h1  h2 = h2  NoRow = NoRow
  Items = {a}  Rank <- One  Deps <- Lone  Diagrams = {}
  Workers = {w1}  Handlers = {h1}
  BatchSize = 2  MaxQueues = 2  MaxReads = 1  MaxCrashes = 1
PROPERTIES StepsSettle QueueEndsUndisturbed
