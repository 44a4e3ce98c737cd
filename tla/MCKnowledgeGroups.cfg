SPECIFICATION Spec
CONSTANTS
  Roots <- MCRoots
  Names <- MCNames
  Rank <- MCRank
  Family <- MCFamily
  Cues <- MCCues
  Definitions <- MCDefinitions
  File <- MCFile
  Slug <- MCSlug
  Requests <- MCRequests
  MaxEdits = 3
  NoName = NoName
  NoGroup = NoGroup
INVARIANTS TypeOK NotMixed RequestedProjectsKept
