CONSTANTS
    NoAlias = NoAlias
    Classes <- MCClasses
    Defined <- MCDefined
    Body <- MCBody
    Stages <- MCStages
    Aliases <- MCAliases
    AliasRef <- MCAliasRef
    AliasKind <- MCAliasKind
    Functions <- MCFunctions
    Dispatches <- MCDispatches
    BlockShape <- MCBlockShape
    MaxArgs = 3
    Cases <- MCCases
    CaseOf <- MCCaseOf
    Search <- MCSearch
    Unlimited = 1000
    Block <- MCBlock
    Lines <- MCLines
    MaxYields = 1
    Width = 3
    MaxStackDepth = 2
    MaxCount = 5
    MaxLine = 3

SPECIFICATION Spec

\* The REPL waits for the next line at every prompt, and the user may end
\* the session there; the bounds on count and line end every behaviour.
CHECK_DEADLOCK FALSE

INVARIANT DeclaredClassesContained
