SPECIFICATION Spec
CONSTANTS
  Phrases <- MCPhrases
  MaxPhrases = 5
  Literals <- MCLiterals
  Scopes <- MCScopes
  Budgets = {4, 40}
  MaxDepth = 4
INVARIANTS ParsesByGrammar DepthIsBounded EvaluatesAsWritten ReadsInTextOrder BudgetOnlyStops
CHECK_DEADLOCK FALSE
