SPECIFICATION Spec
CONSTANTS
  RuleTypes <- MCTypes
  OtherFamilies <- MCOtherFamilies
  MaxLinks = 2
INVARIANTS
  SelectionHidesNothing
  AcceptedLinksWork
  AcceptedNamesWork
