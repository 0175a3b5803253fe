CONSTANTS
    a = a
    b = b
    c = c
    d = d
    g = g
    h = h
    l = l
    p = p
    q = q
    Steps = {a, b, c, d, g, h, l}
    Root = Root
    Ids = {a, b, c, d, g, h, l}
    Outputs = {p, q}
    NoOutput = NoOutput
    Scripts <- MCLooping
    MaxItems = 3
    MaxRefusals = 0
    maxControlDepth = 3
    maxExpandedStepCount = 7
SPECIFICATION Spec
INVARIANT
    OutputsCanBeRead
CHECK_DEADLOCK FALSE
