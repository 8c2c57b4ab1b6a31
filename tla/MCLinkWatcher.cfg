CONSTANTS
    a = a
    b = b
    dir = dir
    f = f
    g = g
    NoParent = NoParent
    NoDoc = NoDoc
    Docs <- MCDocs
    Paths <- MCPaths
    Parent <- MCParent
SPECIFICATION Spec
SYMMETRY DocSymmetry
INVARIANTS WatcherAccounting
PROPERTIES AbstractSpec
