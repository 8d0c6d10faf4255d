CONSTANTS
    Keys = {k1, s1}
    SSLKeys = {s1}
    MaxTime <- MCMaxTime
    None = None
SPECIFICATION Spec
PROPERTY CooldownLadder
