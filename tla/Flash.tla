------------------------------- MODULE Flash -------------------------------
(* The storage of the RSA key and of the certificate (one partition each,    *)
(* this module is one of them) in flash_write_RSA_key.c: flash_writer pads,  *)
(* encrypts, erases and writes once, when the device is provisioned;         *)
(* flash_reader looks for the end of what is stored, decrypts and depads it  *)
(* at each session (tls_connection.c).  Power may fail at any time.          *)
EXTENDS Integers, SequencesExt

CONSTANTS
    BlockSize,      \* bytes of a cipher block: 16 in the code
    PartitionSize,  \* bytes of the partition: 4096 in the code
    Bytes,          \* the bytes data is made of, 255 among them
    MaxData,        \* bound on the length of the data
    Cipher,         \* AES under the derived key, as a function of blocks
    Decipher,       \* and back
    Overrun         \* what a session gets where the length wraps below 0

(* What a block can hold: 0 .. 255 in the code.                              *)
Symbols == Bytes \cup 1 .. BlockSize - 1 \cup {255}

Blocks == [1 .. BlockSize -> Symbols]

ASSUME FlashAssumption ==
    /\ BlockSize \in Nat \ {0}
    /\ PartitionSize \in Nat
    /\ MaxData \in Nat
    /\ MaxData + BlockSize + 4 <= PartitionSize
    /\ Bytes \subseteq 0 .. 255
    /\ Cipher \in [Blocks -> Blocks] /\ Decipher \in [Blocks -> Blocks]
    /\ \A block \in Blocks : Decipher[Cipher[block]] = block

ASSUME OverrunAssumption == Overrun \notin Seq(Symbols)

VARIABLES
    data,   \* the key in DER, as decoded from the source text
    flash,  \* the bytes of the partition
    pc,     \* flash_writer: not yet run ("new"), "erased", "written"
    read    \* what flash_reader returned last since boot, << >> for 0 bytes,
            \* Overrun where it copies SIZE_MAX bytes

flash_vars == <<data, flash, pc, read>>

Erased == [i \in 1 .. PartitionSize |-> 255]

Datas == UNION {[1 .. n -> Bytes] : n \in 1 .. MaxData}

-----------------------------------------------------------------------------
(* string_with_AES                                                           *)

PaddingSize(length) == BlockSize - (length % BlockSize)

(* A length that fits is left alone, where PKCS#7 would add a block.         *)
pad_string_pkcs7(string) ==
    LET size == PaddingSize(Len(string))
    IN  IF size = BlockSize THEN string ELSE string \o [i \in 1 .. size |-> size]

(* The size_t that is left of a length may wrap below 0: to SIZE_MAX, as a    *)
(* length is a number of blocks and not more than BlockSize + 1 is taken off.*)
Shortened(string, n) ==
    IF n > Len(string) THEN Overrun ELSE SubSeq(string, 1, Len(string) - n)

(* Mutant: the length is not looked at.                                      *)
NoPaddingByte(string) == Last(string) > BlockSize + 1

(* A string that is not whole blocks, or does not end in a padding (> 17).   *)
NotPadded(string) == Len(string) % BlockSize # 0 \/ Last(string) > BlockSize + 1

(* Mutant: one byte too many is taken off.                                   *)
depad_one_more(string) ==
    IF NotPadded(string) THEN string ELSE Shortened(string, Last(string) + 1)

depad_string_pkcs7(string) ==
    IF NotPadded(string) THEN string ELSE Shortened(string, Last(string))

AES_encrypter(block) == Cipher[block]

AES_decrypter(block) == Decipher[block]

(* The block of a string that its byte i is in.                              *)
BlockAt(string, i) ==
    LET start == ((i - 1) \div BlockSize) * BlockSize
    IN  [k \in 1 .. BlockSize |-> string[start + k]]

(* ECB mode, decrypting in mode TRUE.  A last block that is not whole is     *)
(* left as it is.                                                            *)
InBlocks(mode, string) ==
    [i \in DOMAIN string |->
        IF (i - 1) \div BlockSize < Len(string) \div BlockSize
        THEN LET block == BlockAt(string, i)
                 done == IF mode THEN AES_decrypter(block) ELSE AES_encrypter(block)
             IN  done[((i - 1) % BlockSize) + 1]
        ELSE string[i]]

Encrypt(string) == InBlocks(FALSE, pad_string_pkcs7(string))

Decrypt(string) == depad_string_pkcs7(InBlocks(TRUE, string))

-----------------------------------------------------------------------------
FlashTypeOK ==
    /\ data \in Datas
    /\ flash \in [1 .. PartitionSize -> Symbols]
    /\ pc \in {"new", "erased", "written"}
    /\ read = Overrun \/ /\ read \in Seq(Symbols)
                         /\ Len(read) <= MaxData + BlockSize - 1

FlashInit ==
    /\ data \in Datas
    /\ flash = Erased
    /\ pc = "new"
    /\ read = << >>

(* A boot of the build that runs flash_writer: esp_partition_erase_range.    *)
Erase ==
    /\ pc = "new"
    /\ flash' = Erased
    /\ pc' = "erased"
    /\ read' = << >>
    /\ UNCHANGED data

(* esp_flash_write up to byte n.                                             *)
Written(n) ==
    LET stored == Encrypt(data)
    IN  [i \in 1 .. PartitionSize |-> IF i <= n THEN stored[i] ELSE flash[i]]

WriteFlash ==
    /\ pc = "erased"
    /\ flash' = Written(Len(Encrypt(data)))
    /\ pc' = "written"
    /\ UNCHANGED <<data, read>>

(* What is stored ends before the first four 0xFF after byte i.              *)
EndsAt(i) == \A k \in 1 .. 4 : flash[i + k] = 255

(* Mutant: the search goes on after an end is found.                         *)
StoredLengthNoBreak ==
    LET ends == {i \in 1 .. PartitionSize - 4 : EndsAt(i)}
    IN  IF ends = {} THEN 0 ELSE CHOOSE i \in ends : \A j \in ends : j <= i

(* The search starts behind the first byte, whatever that is.                *)
StoredLength ==
    LET ends == {i \in 1 .. PartitionSize - 4 : EndsAt(i)}
    IN  IF ends = {} THEN 0 ELSE CHOOSE i \in ends : \A j \in ends : i <= j

(* nfc_task starts after flash_writer, or in a build without it.  Of nothing *)
(* the byte before the buffer is taken for the padding.                      *)
flash_reader ==
    /\ pc # "erased"
    /\ read' \in IF StoredLength = 0 THEN {<< >>, Overrun}
                 ELSE {Decrypt(SubSeq(flash, 1, StoredLength))}
    /\ UNCHANGED <<data, flash, pc>>

(* No partition, an error of the flash, or no AES key.                       *)
ReadFails ==
    /\ pc # "erased"
    /\ read' = << >>
    /\ UNCHANGED <<data, flash, pc>>

(* Power fails during esp_flash_write, or the flash reports an error, or no  *)
(* AES key was derived and nothing is written: flash_writer is run again.    *)
WriteCutShort ==
    /\ pc = "erased"
    /\ \E n \in 0 .. Len(Encrypt(data)) - 1 : flash' = Written(n)
    /\ pc' = "new"
    /\ UNCHANGED <<data, read>>

FlashNext == Erase \/ WriteFlash \/ flash_reader \/ ReadFails \/ WriteCutShort

FlashSpec == FlashInit /\ [][FlashNext]_flash_vars

-----------------------------------------------------------------------------
(* Data of a whole number of blocks gets no padding, and its last byte must  *)
(* not look like one.                                                        *)
PaddingIsSafe == Len(data) % BlockSize = 0 => Last(data) \notin 1 .. BlockSize + 1

(* Behind its first byte, what is stored neither holds nor, followed by      *)
(* erased flash, ends in what flash_reader takes for erased flash.           *)
EndIsVisible ==
    LET stored == Encrypt(data)
    IN  /\ Last(stored) # 255
        /\ \A i \in 2 .. Len(stored) - 3 : \E k \in 0 .. 3 : stored[i + k] # 255

(* What is read back for a session is the key that was stored, whatever      *)
(* interrupted earlier attempts to store it, for data with both provisos     *)
(* (flash_write_RSA_key.c:163-291); without either, it is not.               *)
SafeDataReadBack ==
    pc = "written" /\ read # << >> /\ PaddingIsSafe /\ EndIsVisible => read = data

(* flash_reader's copy (flash_write_RSA_key.c:288) runs away for data whose  *)
(* first block ends in BlockSize + 1, and no other: the check of the padding *)
(* (line 130) lets that through.  It does so when this is all the data there *)
(* is, or when no more of it was written, or looks as if it were.            *)
OverrunIsKnown ==
    read = Overrun =>
        /\ Len(data) >= BlockSize /\ data[BlockSize] = BlockSize + 1
        /\ pc = "written" /\ EndIsVisible => Len(data) = BlockSize
=============================================================================
