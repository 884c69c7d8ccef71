SPECIFICATION KbdSpec
CONSTANTS
    Keys <- OneEach
    Padded <- Arrow
    Repeating <- Held
    MaxWire = 4
    BufSize = 1
INVARIANTS
    CharAsMeant
