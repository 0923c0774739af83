SPECIFICATION Spec
CONSTANTS
    Names = {1, 2}
    Bodies = {"good"}
    UserLines = {"global"}
    MaxLines = 4
    MaxCut = 7
    StrayStart = TRUE
INVARIANTS SecondWriteHeals
PROPERTIES ReadsBack RewriteIsStable KeepsHostLines
