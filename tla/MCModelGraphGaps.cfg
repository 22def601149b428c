\* What the documents say without exceptions; each is violated (tlc -continue).
SPECIFICATION Spec
CONSTANTS
  RuleTypes <- MCTypes
  OtherFamilies <- MCOtherFamilies
  MaxLinks = 2
INVARIANTS
  RegisteredAnswered
  LinksEmitted
  SelectionInvisible
