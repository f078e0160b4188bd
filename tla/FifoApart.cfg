SPECIFICATION FfSpec
CONSTANTS
    Producers = {p1, p2}
    Consumers = {c1, c2}
INVARIANT NeverApart
CHECK_DEADLOCK FALSE
