-------------------------------- MODULE MCCrc32 --------------------------------
(***************************************************************************)
(* Crc32 for TLC.  The first byte takes every value, and with it the index *)
(* into the table.                                                         *)
(***************************************************************************)
EXTENDS Crc32

MCFirstBytes == Bytes
MCNextBytes == {{}, {0}, {0, 2, 3, 6}, {7}, 0 .. 7}

(* The bitwise definition gives the published CRC-32 of the character "a", *)
(* 0xE8B7BE43; "a" is 97.                                                  *)
ASSUME CheckValue == Xor(ByteStep(AllOnes, {0, 5, 6}), AllOnes) = BitsOf(<< \hE8B7, \hBE43 >>)
================================================================================
