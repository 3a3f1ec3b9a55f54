SPECIFICATION Spec
CONSTANTS
    Words <- AllWords
    CommandLines <- SomeCommandLines
    Scripts <- SomeScripts
    Numeral <- SomeNumeral
    MaxLine = 7
INVARIANTS
    AcceptsSentences
    
CHECK_DEADLOCK FALSE
