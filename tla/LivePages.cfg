SPECIFICATION Spec
CONSTANTS
  Urls = {"start", "page"}
  Contents = {"hub", "leaf"}
  Tagged = {"hub"}
  LinksOf <- MCLinksOf
  Seeds <- MCSeeds
  MaxDepth = 1
  Threshold = 1
  Gone = Gone
  None = None
  NoPage = NoPage
  NoDoc = NoDoc
  NoSave = NoSave
  MaxCrawls = 3
  MaxEdits = 2
PROPERTIES CrawlSparesLive
CHECK_DEADLOCK FALSE
