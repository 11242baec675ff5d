SPECIFICATION Spec
CONSTANTS
    Keys = {k1}
    Agents = {a1}
    Ips = {ip1}
    MaxFails = 2
    NoDoc = NoDoc
INVARIANTS
    KeysCurrent
    BlocksDeserved
PROPERTY
    OutageHeals
