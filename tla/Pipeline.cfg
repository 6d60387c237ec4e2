SPECIFICATION FairSpec
CONSTANTS
    Pages <- MixedPages
    Containers <- OneContainer
    Workers = {w1, w2}
    BookBuffer = 1
    ResultBuffer = 1
    PageLimit = 3
INVARIANTS SweepSeesTheWholeRoot BudgetBalances
PROPERTIES PassEnds
CHECK_DEADLOCK FALSE
