SPECIFICATION Spec
CONSTANTS
  NoPattern = NoPattern
  Parts <- MCParts
  Params <- MCParams
  Stars <- MCStars
  NameOf <- MCNameOf
  Begins <- MCBegins
  Middlewares <- MCMiddlewares
  May <- MCMay
  GroupPrefixes <- MCGroupPrefixes
  Comps <- MCComps
  Statics <- MCStatics
  Paths <- MCPaths
  Budgets <- MCBudgets
  MaxNext = 2
INVARIANTS RoutedRight EachOnce GuardedRoutes
CHECK_DEADLOCK FALSE
