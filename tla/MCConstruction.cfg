CONSTANTS
  Recipes <- Fabrics

SPECIFICATION Spec

INVARIANT TypeOK
INVARIANT PortsLead
INVARIANT CopiesAlike
INVARIANT EachLinkInOneBucket
INVARIANT HostAddressesDiffer
INVARIANT RulesDeliver
INVARIANT RulesShortest
INVARIANT BuiltAsFabric

\* Nothing is left to build in the end.
CHECK_DEADLOCK FALSE
