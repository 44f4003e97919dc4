CONSTANTS
    m1 = m1  m2 = m2  m3 = m3  t1 = t1  t2 = t2
    NoMsg = NoMsg
    Msgs <- MCMsgs
    QoS1 <- MCQoS1
    Topics <- MCTopics
    MAX_SUBSCRIPTIONS = 1
    MESSAGE_QUEUE_SIZE = 1
    RETRY_COUNT = 3
    MaxLinks = 2
    MaxCalls = 3
SPECIFICATION Spec
CHECK_DEADLOCK FALSE
PROPERTY AckMatchesRequest
