CONSTANTS
  MaxSeq = 6
  InitSlots = 2
  Sizes = {1, 2, 5}
  Budgets = {2, 3, 4}
  InitBudget = 3
SPECIFICATION Spec
INVARIANTS IInv BytesAccounted NoSilentGap
PROPERTY ImplementsWindow
