------------------------------ MODULE MC_Crc32 ------------------------------
EXTENDS Crc32

\* Every one-byte buffer: each visits one table entry.
OneByte == {<<b>> : b \in 0..255}

=============================================================================
