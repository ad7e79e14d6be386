SPECIFICATION Spec
CONSTANTS
  Candidates = {1, 2}
  Runs = {r1, r2}
  Offers <- MCOffers
  Edits <- MCEdits
  Weights <- MCWeights
  First <- MCFirst
  Stated <- MCWeights
  Sizes = {1}
  Modes = {"owner", "receiver"}
  RowsExpire = FALSE
  MaxSaves = 2
  MaxEdits = 1
  None = None
SYMMETRY Symmetry
INVARIANTS
  RankingIsSound
  UnfitShortlistIsExplained
PROPERTIES
  SelectionHolds
CHECK_DEADLOCK FALSE
