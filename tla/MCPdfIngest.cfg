SPECIFICATION Spec
CONSTANTS
  Paths = {m1, m2}
  Uris = {"u1"}
  UriOf <- MCUriOf
  Files <- MCFiles
  Missing = Missing
  Ranges <- MCRanges
  Requests = {q1, q2}
  MaxPages = 3
  MaxDocId = 2
  MaxStarts = 3
  MaxEdits = 1
SYMMETRY Alike
INVARIANTS PdfTypeOK LinkIsOwnDocument CitationsCoverText RowDescribesDocument
CHECK_DEADLOCK FALSE
