\* Two-byte buffers, a four-byte stream with "\r\n" and a bare "\n", a peer
\* that may read short and push short, and seven calls of up to three bytes.
CONSTANTS
    BufSize = 2
    Source <- MCSource
    Blocking = FALSE
    PushFails = TRUE
    MaxReq = 3
    PrintfMax = 1
    Calls = 7
SPECIFICATION Spec
INVARIANT TypeOK StreamInOrder OutputInOrder
