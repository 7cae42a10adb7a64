SPECIFICATION Spec
CONSTANTS
  Names <- MCNames
  Parts <- MCParts
  Candidates <- MCCandidates
  Files = {f1, f2}
  Data = {"new", "written"}
  Empty = "new"
  SlotCount = 6
  Images <- MCImages
  KeepsOpen = TRUE
SYMMETRY MCSymmetry
INVARIANTS TypeOK ListsThoseWhoStay UsesTheRoom EntryOfHandle
PROPERTIES DirSpec
