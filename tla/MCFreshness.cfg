SPECIFICATION Spec
CONSTANTS
  FRESH_MAX = 2
  Pages = {p1, p2}
  Sources = {"s"}
  Values = {a, b}
  Budgets = {0, 1}
  TimeMod = 4
  TickEvery = 2
  Epoch = 2
  MaxTime = 3
INVARIANTS HeldValueIsFresh ShownIsConfirmed MinBudgetIsTightest
SYMMETRY Symmetry
