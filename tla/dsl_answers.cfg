SPECIFICATION FairSpec
CONSTANTS
    Names = {"a", "b", "c", "d", "x"}
    DefaultTimeout <- TheDefaults
    Sources <- FewSources
    NoFlow = NoFlow
PROPERTIES
    CompilerAnswers
