CONSTANTS
    NoEscapes = NoEscapes
    Tag <- MCTag
    EscapeLists <- MCEscapeLists
    Inputs <- MCInputs

SPECIFICATION Spec

\* A heredoc is lexed once; the model stops there.
CHECK_DEADLOCK FALSE

INVARIANT FileLineColumnAgrees
