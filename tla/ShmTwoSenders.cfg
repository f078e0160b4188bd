SPECIFICATION Spec
CONSTANTS
    Senders = {s1, s2, s3}
    Receivers = {}
    Keys = {k1}
    MaxMessages = 1
INVARIANT OneSender
