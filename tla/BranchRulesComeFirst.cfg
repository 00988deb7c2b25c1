SPECIFICATION FareRulesSpec
CONSTANTS
 Fares = {110}
 Extras = {0, 40}
 TaxRates = {0, 5}
 MaxRules = 2
 MaxPaid = 160
 NoAmount = NoAmount
INVARIANTS BranchRulesComeFirst
CHECK_DEADLOCK FALSE
