------------------------- MODULE MCMergeEditorInput -------------------------
(* Small instance of MergeEditorInput for TLC: two inputs, three calls.    *)
EXTENDS MergeEditorInput, TLC

CONSTANTS i1, i2

MCInputs == {i1, i2}

\* Inputs are interchangeable: no handler looks at which input it is.
InputSymmetry == Permutations(MCInputs)

=============================================================================
