CONSTANTS
  Docs <- MCDocs
  Revisions <- MCRevisions
  Profile <- MCProfile
  Bm25 <- MCBm25
  Body <- MCBody
  SymbolsOf <- MCSymbolsOf
  Names <- MCNames
  Matches <- MCMatches
  Recipes <- MCRecipes
  RecipeOf <- MCRecipeOf
  Rank <- MCRank
  NoVersion <- none
  Requests <- MCRequests
  Size <- MCSize
  MaxPerDocument = 2
  MaxEdits = 2
  MaxResults = 3
  MaxExamples = 2
  MaxAugment = 2
  MaxRounds = 40
SPECIFICATION Spec
INVARIANTS
  PackageTypeOK
  EvidenceInScope
  DiversitySurvivesTrim
  LinesMatchText
  NoStarvedRoot
CHECK_DEADLOCK FALSE
