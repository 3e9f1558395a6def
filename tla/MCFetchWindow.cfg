SPECIFICATION FairWindowSpec
CONSTANTS
  Fetches = {f1, f2}
  Tokens = {t1, t2, t3, t4}
  Floor = 3
  MaxPerFetch = 2
  Batch = 2
  Need = 3
INVARIANTS TokensConserved
PROPERTIES FetchIsServed
