SPECIFICATION Spec
CONSTANTS
  Url <- MCUrl
  Final <- MCFinal
  MaxItem = 4
  PageSize = 1
  Filter <- MCFilter
  Default <- MCUnread
  Before <- MCBefore
  Typed = {"short", "a"}
  Op = {1, 2}
  Budgets <- MCBudgets
INVARIANTS TypeOK FreshMatchesServer NeverStuck
PROPERTIES HandMarkStands FirstExtractionStands
CHECK_DEADLOCK FALSE
