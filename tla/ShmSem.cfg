SPECIFICATION FairSpec
CONSTANTS
    Senders = {s1, s2}
    Receivers = {r1}
    Keys = {k1}
    MaxMessages = 2
INVARIANTS
    TokenInv
    WholeMessages
    CleansUp
PROPERTY
    ReceiversRead
