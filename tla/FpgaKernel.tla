------------------------------- MODULE FpgaKernel -------------------------------
(***************************************************************************)
(* The arithmetic of write_ibverb_packet (ibverbs.cl): how a frame of size *)
(* bytes is cut into lines of LineSize bytes, each with a byte of flags    *)
(* that marks the first and the last line and counts the bytes of the last *)
(* line that do not belong to the frame.                                   *)
(***************************************************************************)
EXTENDS Integers

CONSTANT LineSize   \* bytes of a uint8 vector, 32 in the code

(* The padding of a line must fit into the five upper bits of the flags. *)
ASSUME LineSizeAssumption == LineSize \in 1 .. 32

FlagFirst == 1   \* FLAG_FIRST
FlagLast  == 2   \* FLAG_LAST

(* The number of the last line: (size - 1) / 32U *)
LastLine(size) == (size - 1) \div LineSize

(* -size % 32U, in unsigned arithmetic whose modulus is a multiple of 32. *)
Padding(size) == (-size) % LineSize

(* The condition of the loop over the lines. *)
MoreLines(i, size) == LineSize * i < size

(* line.flags of line i; the bits that are or-ed together are disjoint. *)
Flags(i, size) ==
  (IF i = 0 THEN FlagFirst ELSE 0) +
  (IF i = LastLine(size) THEN FlagLast + (8 * Padding(size)) ELSE 0)

(* What the receiver of the lines makes of a byte of flags. *)
IsFirst(flags) == flags % 2 = 1
IsLast(flags) == (flags \div 2) % 2 = 1
PaddingOf(flags) == flags \div 8

(* The number of bytes a receiver finds in n lines, the last with flags. *)
BytesIn(n, flags) == (LineSize * n) - PaddingOf(flags)

================================================================================
