CONSTANTS
    NoEscapes = NoEscapes
    Tag <- MCTag
    EscapeLists <- MCEscapeLists
    Inputs <- MCInputs

SPECIFICATION Spec

\* A heredoc is lexed once; the model stops there.
CHECK_DEADLOCK FALSE

INVARIANT TypeOK
INVARIANT ContinuationAgrees
INVARIANT TextAgrees
INVARIANT StringColumnAgrees
INVARIANT TypeInferenceSound
INVARIANT ValuesRoundTrip
INVARIANT FormatStringsParsed
INVARIANT FormatHashesDiagnosed
INVARIANT FormatMapsFindMostSpecific
INVARIANT QuotedStringsDecoded
INVARIANT RelationshipsDiagnosed
INVARIANT VariablesLookedUp
INVARIANT SlashesDisambiguated
