CONSTANTS
  Recipes <- RecipesTried
  Scenarios <- Tried
  MaxLoad = 2
  MaxHops = 20

SPECIFICATION Spec

INVARIANT TypeOK
INVARIANT SameAsBaseline
INVARIANT DetourBound
INVARIANT DetourMade
INVARIANT LostOnlyWithoutTransit
INVARIANT DecidedAtSource
PROPERTY PhasesInOrder

\* A run ends with the one packet it sends.
CHECK_DEADLOCK FALSE
