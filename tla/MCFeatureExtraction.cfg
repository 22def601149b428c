CONSTANTS
    o1 = o1
    o2 = o2
    o3 = o3
    Objects <- MCObjects
    Root = o1
    Keys = {"k1", "k2", "k3"}
    KeyOf <- MCKeyOf
    LinkLists <- MCLinkLists
    Families = {"document", "page"}
    FamilyOf <- MCFamilyOf
    ValueChoices <- MCValueChoices
    NoProperty = NoProperty
    Selections <- MCSelections
    RuleChoices <- MCRules
    MaxObjects = 4
SPECIFICATION Spec
INVARIANTS FeaturesComplete PolicyExact WitnessSound
