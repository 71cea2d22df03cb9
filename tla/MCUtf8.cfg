CONSTANTS
    Bytes <- MCBytes
    Garbage <- MCGarbage
    MaxLen = 4
    NULL = NULL
    Running = Running
SPECIFICATION Spec
INVARIANT TypeOK ValidateExact CharLengthExact
