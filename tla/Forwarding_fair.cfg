SPECIFICATION FairSpec
CONSTANTS
    c1 = c1
    c2 = c2
    Conns = {c1, c2}
    SendCap = 2
    ReceiptCap = 1
    Loads <- MCLoads
    MaxMessages = 2
    MaxReceipts = 1
    MaxEntities = 1
INVARIANT TypeOK
INVARIANT MessagesStayInOrder
PROPERTY HandlersReturn
PROPERTY ReceiptsAreSettled
CHECK_DEADLOCK FALSE
