CONSTANTS
    MaxInstructions = 9
    MaxDepth = 3
    MaxParts = 2
    MaxLinked = 3
    MaxPattern = 2
    MaxHaystack = 4
    IntBits = 6
    EpsilonParts = 4
    BadPatterns <- MCBadPatterns
    Facts <- MCFacts
    TypeOf <- MCTypeOf
    Properties <- MCProperties
    LinksTo <- MCLinksTo
    Carried <- MCCarried
    Linked <- MCLinked
    Written <- MCWritten
    RawTexts <- MCRawTexts
    RuleType = "font"
    Registered <- MCRegistered
SPECIFICATION Spec
INVARIANTS ReadAsMeant BoundNamesKnown LawsHold RulesStartAfresh
CHECK_DEADLOCK FALSE
