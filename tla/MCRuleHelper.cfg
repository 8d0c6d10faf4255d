\* LoadRule and LoadRules in any order, facts arriving in between.
CONSTANTS
    Rules <- MCRules
    BadRules = {"bad"}
    Configs <- MCConfigs
    Nil = Nil
SPECIFICATION MCSpec
INVARIANT IPInRangeMatchesV4Order
INVARIANT IPInCIDRMatchesPrefix
INVARIANT IPInCIDRV6IsSameFamilyPrefix
