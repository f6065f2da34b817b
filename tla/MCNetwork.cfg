SPECIFICATION NetworkSpec
CONSTANTS
    User = {u1, u2, u3}
    PutOutcomes = {TRUE, FALSE}
    MaxFaults = 2
    SendOutcomes = {TRUE}
    MarkOutcomes = {TRUE, FALSE}
    MaxCant = 2
    WordSize = 65536
    MaxMessages = 3
    MaxIndex = 4
SYMMETRY Symmetry
INVARIANTS TypeOK MutualRelations VotesTypeOK OneVoteEach TotalCounts
           Persisted UnreadAreNew ReceivedWereFetched PagesAreWindows
PROPERTIES SharedBook ForwardOnly
