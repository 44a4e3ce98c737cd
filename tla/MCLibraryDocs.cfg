SPECIFICATION Spec
CONSTANTS
  guide = guide
  index = index
  vendored = vendored
  page = page
  Files = {guide, index, page, vendored}
  LibFiles = {guide, index}
  Registers = {index}
  Junk = {vendored}
  MarkdownFiles = {guide, index}
  HtmlFiles = {page}
  Contents <- MCContents
  Missing = Missing
  Packages <- MCPackages
  NoInventory = NoInventory
  NoRows = NoRows
  FirstTrees <- MCFirstTrees
  Inferred <- MCInferred
  PathFilter = FALSE
  Runs = {q1, q2}
  NoDoc = NoDoc
  NoMeta = NoMeta
  NoFront = NoFront
  MaxFiles = 2
  MaxStarts = 3
  MaxEdits = 1
  MaxFaults = 1
SYMMETRY Alike
INVARIANTS LibraryDocsTypeOK CalmRunSettles MetaAgreesWithTrust
CHECK_DEADLOCK FALSE
