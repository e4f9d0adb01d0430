SPECIFICATION Spec
CONSTANTS
    chat1 = chat1
    chat2 = chat2
    p1 = p1
    p2 = p2
    Chats = {chat1, chat2}
    Batches <- TwoCalls
    Scopes <- BothChats
    Pulls = {p1, p2}
    Requests = {a1}
    NoMessage = NoMessage
    NoRef = NoRef
    NoCursor = NoCursor
    Lookback = 0
    MaxChats = 1
    MaxTime = 2
    MaxFaults = 2
SYMMETRY PullSymmetry
INVARIANTS
    TypeOK
    ProofMeansGone
    BlobsMatchRows
    ContentAccounted
PROPERTIES
    DeletedStaysGone
CHECK_DEADLOCK FALSE
