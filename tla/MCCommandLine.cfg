CONSTANTS
    Bytes <- MCBytes
    NoByte = NoByte
    RxSize = 4
    TxSize = 2
    MAX_COMMAND_SIZE = 2
    Characters <- MCCharacters
    Texts <- MCTexts
    Answers <- MCAnswers
SPECIFICATION ConsoleSpec
INVARIANTS
    ConsoleTypeOK
    LineAnswered
    NeverStranded
PROPERTIES
    RxIsFifo
    TxIsFifo
    ComesToRest
