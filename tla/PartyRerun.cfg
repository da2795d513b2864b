SPECIFICATION Spec
CONSTANTS
  Job = {j1, j2}
  InSlots = 3
  OutSlots = 3
  MaxAge = 4
  Rules <- MCRules
  NoRule = NoRule
  Entries <- MCEntries
  Blank = Blank
  MaxEdits = 1
SYMMETRY JobSymmetry
INVARIANT TypeOK
INVARIANT NobodyCountedTwice
INVARIANT SamePartyEveryTime
