CONSTANTS
    c1 = c1
    c2 = c2
    None = None
    Clients = {c1, c2}
    Works <- MCWorks
    ParseOf <- parse_stdin
    HasMapping <- Defined
    MappingOf <- map_stmt
    RequestOf <- execute_args
    RequestIn <- process_execute
    ReplyOf <- execute_reply
    AnswerIn <- recv_execute
SPECIFICATION Spec
CHECK_DEADLOCK FALSE
INVARIANTS
    TypeOK
    RequestIntact
    ClientKnows
    Understood
PROPERTIES
    Answered
