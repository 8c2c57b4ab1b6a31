------------------------- MODULE MCDiagnosticManager -------------------------
(* Small instance of DiagnosticManager for TLC.                            *)
EXTENDS DiagnosticManager, TLC

CONSTANTS d1, d2, cOn, cOn2, cOff

MCDocs == {d1, d2}
MCOneDoc == {d1}
MCConfigs == {cOn, cOn2, cOff}
MCEnabledConfigs == {cOn, cOn2}
\* One enabled and one disabled configuration.
MCTwoConfigs == {cOn, cOff}
MCOneEnabled == {cOn}

\* Documents are interchangeable: nothing in the handlers depends on which
\* uri is which.
DocSymmetry == Permutations(MCDocs)

=============================================================================
