SPECIFICATION FrontEndSpec
CONSTANTS
    Letters <- MCLetters
    Digits <- MCDigits
    Blanks <- MCBlanks
    NewLine <- MCNewLine
    Capital <- MCCapital
    Keywords <- MCKeywords
    Texts <- MCTexts
    Conditions <- MCConditions
    Statements <- MCStatements
    Requests <- MCRequests
    Layers <- MCLayers
    IntMax = 7
    ExactBelow = 4
    MaxRows = 3
INVARIANTS
    ComparisonsRun
CHECK_DEADLOCK FALSE
