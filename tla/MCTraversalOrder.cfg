CONSTANTS
    o1 = o1
    o2 = o2
    o3 = o3
    MaxLinks = 2
    UnsupportedPresent = FALSE
    SharedId = FALSE
    Objects <- MCObjects
    Root = o1
    Keys <- MCKeys
    KeyOf <- MCKeyOf
    LinkLists <- MCLinkLists
    Types <- MCTypes
    TypesOf <- MCTypesOf
    Rules <- MCRules
    RuleIds <- MCRuleIds
    IdOf <- MCIdOf
    Profile <- MCProfile
    RuleType <- MCRuleType
    DeferredRules = {"later"}
    StaticUnsupported = {"unparsed"}
    MaxObjects = 4
    MaxFailed = 1
    RecordPassed = FALSE
    CounterLimit = 9
SPECIFICATION FairSpec
PROPERTIES DocumentOrder
