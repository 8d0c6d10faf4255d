\* A LoadRules whose text does not compile.
CONSTANTS
    Rules <- MCRules
    BadRules = {"bad"}
    Configs <- MCConfigs
    Nil = Nil
SPECIFICATION MCSpec
PROPERTY CompileFailureKeepsKb
