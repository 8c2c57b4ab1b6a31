--------------------------- MODULE MCLinkWatcher ---------------------------
(* LinkWatcher for TLC: two documents, a directory dir with two files f   *)
(* and g in it, so that a watcher of dir sees events of f and g.          *)
EXTENDS LinkWatcher, TLC

CONSTANTS a, b, dir, f, g

MCDocs == {a, b}
MCPaths == {dir, f, g}
MCParent == (dir :> NoParent) @@ (f :> dir) @@ (g :> dir)
DocSymmetry == Permutations(MCDocs)
=============================================================================
