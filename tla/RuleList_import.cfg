SPECIFICATION ListSpec
CONSTANTS
  RuleIds = {1, 2, 3}
  ListCalls = {"p", "q"}
  MaxListCalls = 3
PROPERTY ImportedRulesAreExported
CHECK_DEADLOCK FALSE
