------------------------- MODULE MCDiagnosticSystem -------------------------
(* Small instance of DiagnosticSystem for TLC: one document whose first    *)
(* version links to a directory and a file in it (so a change to the file  *)
(* is seen by the directory's watcher) and whose later versions link to    *)
(* the file alone (so the watcher of the file's own directory is gone).    *)
EXTENDS DiagnosticSystem, TLC

CONSTANTS d1, cOn, cFiles, cOff, dir, f

MCDocs == {d1}
MCConfigs == {cOn, cFiles, cOff}
MCEnabledConfigs == {cOn, cFiles}
MCFileLinkConfigs == {cFiles}
MCPaths == {dir, f}
MCParent == (dir :> NoParent) @@ (f :> dir)
MCDocLinks == d1 :> [v \in Versions |-> IF v = 0 THEN {dir, f} ELSE {f}]

=============================================================================
