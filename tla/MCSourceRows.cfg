SPECIFICATION Spec
CONSTANTS
  long = long
  short = short
  empty = empty
  Uris = {"u1", "u2"}
  Roots = {"r1", "r2"}
  Terms = {"t1", "t2"}
  Contents = {long, short, empty}
  ChunkTerms <- MCChunkTerms
  UriPrefixes = {"p1"}
  LikeMatch <- MCLikeMatch
  Writers = {w1, w2}
  NoWrite = NoWrite
  MaxDocId = 2
  WebSources = {"web"}
  RepoSources = {"repo"}
  Keys = {"k1"}
  Sweepers = {"s1"}
  MaxRowId = 1
SYMMETRY Alike
INVARIANTS TypeOK IndexMatchesHash DfWithinChunkCount
PROPERTIES OnlySweepsDrift
