CONSTANTS
    both = both
    leftOnly = leftOnly
    region = region
    Items = {both, leftOnly}
    Regions = {region}
    Boxes = {1, 2}
    Inside <- MCInside
    Drafts <- MCDrafts
    MaxRevision = 2
    MaxFiles = 1
    MaxRoots = 2
    MaxEdits = 1
    Runs = {"r1"}
    MaxEvents = 2
SPECIFICATION PagesSpec
INVARIANTS
    ApprovedIsDrawn
    PageFilesAreTrue
CHECK_DEADLOCK FALSE
