CONSTANTS
    XmlFlavours <- MCFlavours
    ObjectTypes = {"PDFont", "CosBBox"}
    MappedTypes = {"PDFont"}
    Ids = {"i1", "i2"}
    Pieces = {"a", "b"}
    Parsable <- MCParsable
    MaxDepth = 5
    MaxElements = 8
    MaxRules = 2
    MaxText = 2
SPECIFICATION Spec
INVARIANTS RulesAsWritten NameLeadsBack
CHECK_DEADLOCK FALSE
