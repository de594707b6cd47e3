SPECIFICATION FairSpec
CONSTANTS
    heart = heart
    reply = reply
    TypeOrder <- TwoTypes
    Other = Other
    r1 = r1
    r2 = r2
    Readers = {r1, r2}
    Calls <- SomeCalls
    MaxMessages = 3
    Nothing = Nothing
INVARIANT TypeOK
INVARIANT EachMessageOnce
INVARIANT ListsBeforeCallbacks
 
PROPERTY BufferDrained
PROPERTY PolledMessageTaken
CHECK_DEADLOCK FALSE
