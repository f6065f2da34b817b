SPECIFICATION MessagesSpec
CONSTANTS
    User = {u1, u2}
    SendOutcomes = {TRUE}
    MarkOutcomes = {TRUE, FALSE}
    MaxCant = 2
    WordSize = 65536
    MaxMessages = 2
    MaxIndex = 3
INVARIANT StaysUp
