SPECIFICATION Spec
CONSTANTS
    NumCalls = 2
    NoOpEncoding = TRUE
INVARIANTS
    ReplyBodyIsOpen
