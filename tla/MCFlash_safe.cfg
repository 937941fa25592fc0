SPECIFICATION FlashSpec
CONSTANTS
    BlockSize = 4
    PartitionSize = 14
    Bytes <- FiveBytes
    MaxData = 6
    Cipher <- Reversed
    Decipher <- Reversed
    Overrun = Overrun
INVARIANTS
    FlashTypeOK
    SafeDataReadBack
    OverrunIsKnown
