SPECIFICATION Spec
CONSTANTS
  Slots = {"x", "y"}
  WidthOf <- Slot3And2
  Widths = {2, 3}
  HostWidth = 4
  Powers <- SixteenPowers
  MAX_DEFS = 1
  MAX_PASSES = 2
  Literals <- OddInts
  StoreLiterals <- FewInts
  Memories <- TwoMemories
  MaxInstrs = 4
  MaxBlocks = 2
  OpCost = 3
  MaxPath = 2
INVARIANTS SameMeaning FoldingSettles
CHECK_DEADLOCK FALSE
