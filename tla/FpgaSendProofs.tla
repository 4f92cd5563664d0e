----------------------------- MODULE FpgaSendProofs -----------------------------
(***************************************************************************)
(* The framing of write_ibverb_packet (ibverbs.cl) for frames of every     *)
(* size: the lines that the kernel's loop writes are marked as first and   *)
(* last where they should be, and less the padding in the flags of the     *)
(* last one they are exactly the bytes of the frame; they lie inside the   *)
(* kernel's memory; and the checksum covers the frame whenever the copy of *)
(* the headers is complete before the kernel begins.  The last part is     *)
(* about crc32.h, which computes the checksum.                             *)
(***************************************************************************)
EXTENDS FpgaSend, Crc32, SequenceTheorems, TLAPS

(* Division by the line size. *)
LEMMA LineDivision ==
  ASSUME NEW n \in Int
  PROVE  /\ n \div LineSize \in Int
         /\ n % LineSize \in 0 .. LineSize - 1
         /\ n = (LineSize * (n \div LineSize)) + (n % LineSize)
BY LineSizeAssumption, Z3

(* A remainder is determined by its range and the number. *)
LEMMA QuotientUnique ==
  ASSUME NEW n \in Int, NEW q \in Int, NEW r \in 0 .. LineSize - 1,
         n = (LineSize * q) + r
  PROVE  n \div LineSize = q /\ n % LineSize = r
BY LineSizeAssumption, Z3

(* (size - 1) / 32 and -size % 32 fit together: the lines up to the last   *)
(* one are as many bytes as the frame has, and the padding.                *)
LEMMA LinesAndPadding ==
  ASSUME NEW size \in Nat \ {0}
  PROVE  /\ LastLine(size) \in Nat
         /\ Padding(size) \in 0 .. LineSize - 1
         /\ LineSize * (LastLine(size) + 1) = size + Padding(size)
<1> DEFINE q == (size - 1) \div LineSize
           r == (size - 1) % LineSize
<1>1. /\ q \in Int
      /\ r \in 0 .. LineSize - 1
      /\ size - 1 = (LineSize * q) + r
  BY LineDivision
<1> HIDE DEF q, r
<1>2. q >= 0
  BY <1>1, LineSizeAssumption, Z3
<1>3. -size = (LineSize * (-q - 1)) + (LineSize - 1 - r)
  BY <1>1, LineSizeAssumption, Z3
<1>4. (-size) % LineSize = LineSize - 1 - r
  <2>1. -size \in Int /\ -q - 1 \in Int /\ LineSize - 1 - r \in 0 .. LineSize - 1
    BY <1>1, LineSizeAssumption
  <2>2. QED
    BY <2>1, <1>3, QuotientUnique
<1>5. LineSize * (q + 1) = size + (LineSize - 1 - r)
  BY <1>1, LineSizeAssumption, Z3
<1>6. QED
  BY <1>1, <1>2, <1>4, <1>5, LineSizeAssumption DEF LastLine, Padding, q

(* The loop over the lines ends behind the last one. *)
LEMMA LoopCondition ==
  ASSUME NEW size \in Nat \ {0}, NEW i \in Nat
  PROVE  MoreLines(i, size) <=> i <= LastLine(size)
<1> DEFINE last == LastLine(size)
           pad  == Padding(size)
<1>1. /\ last \in Nat /\ pad \in 0 .. LineSize - 1
      /\ LineSize * (last + 1) = size + pad
  BY LinesAndPadding
<1> HIDE DEF last, pad
<1>2. CASE i <= last
  <2>1. LineSize * i <= LineSize * last
    BY <1>1, <1>2, LineSizeAssumption, Z3
  <2>2. LineSize * last < size
    BY <1>1, LineSizeAssumption, Z3
  <2>3. QED
    BY <1>1, <1>2, <2>1, <2>2, LineSizeAssumption DEF MoreLines, last
<1>3. CASE i > last
  <2>1. LineSize * i >= LineSize * (last + 1)
    BY <1>1, <1>3, LineSizeAssumption, Z3
  <2>2. QED
    BY <1>1, <1>3, <2>1, LineSizeAssumption DEF MoreLines, last
<1>4. QED
  BY <1>1, <1>2, <1>3

(* The flags of a line fit into a byte, and a receiver finds in them what  *)
(* the kernel put there.                                                   *)
LEMMA FlagsReadBack ==
  ASSUME NEW size \in Nat \ {0}, NEW i \in Nat
  PROVE  /\ Flags(i, size) \in 0 .. 255
         /\ Flags(i, size) % 256 = Flags(i, size)
         /\ IsFirst(Flags(i, size)) <=> i = 0
         /\ IsLast(Flags(i, size)) <=> i = LastLine(size)
         /\ i = LastLine(size) => PaddingOf(Flags(i, size)) = Padding(size)
<1> DEFINE pad == Padding(size)
<1>a. pad \in 0 .. LineSize - 1 /\ LastLine(size) \in Nat
  BY LinesAndPadding
<1> HIDE DEF pad
<1>1. pad \in 0 .. 31 /\ LastLine(size) \in Nat
  BY <1>a, LineSizeAssumption
<1>2. CASE i # LastLine(size)
  <2>1. Flags(i, size) = IF i = 0 THEN 1 ELSE 0
    BY <1>1, <1>2 DEF Flags, FlagFirst
  <2>2. QED
    BY <1>1, <1>2, <2>1, Z3 DEF IsFirst, IsLast
<1>3. CASE i = LastLine(size) /\ i = 0
  <2>1. Flags(i, size) = 3 + (8 * pad)
    BY <1>1, <1>3, Z3 DEF Flags, FlagFirst, FlagLast, pad
  <2>2. QED
    BY <1>1, <1>3, <2>1, Z3 DEF IsFirst, IsLast, PaddingOf, pad
<1>4. CASE i = LastLine(size) /\ i # 0
  <2>1. Flags(i, size) = 2 + (8 * pad)
    BY <1>1, <1>4, Z3 DEF Flags, FlagFirst, FlagLast, pad
  <2>2. QED
    BY <1>1, <1>4, <2>1, Z3 DEF IsFirst, IsLast, PaddingOf, pad
<1>5. QED
  BY <1>2, <1>3, <1>4

--------------------------------------------------------------------------------
(* The number of lines of the frame. *)
AllLines == LastLine(FrameSize) + 1

(* The host has not handed the kernel over yet. *)
BeforeCall == h_pc \in {"context", "program", "buffers", "memcpy", "copy", "call"}

(* The inductive invariant: the lines written so far are the first ones of *)
(* the frame with their flags, none before the loop begins and all of them *)
(* once it has ended; and the kernel is started once.                      *)
FramingInv ==
  /\ lines \in Seq(Int)
  /\ Len(lines) <= AllLines
  /\ \A k \in 1 .. Len(lines) : lines[k] = Flags(k - 1, FrameSize)
  /\ kernel \notin {"lines", "done"} => lines = << >>
  /\ kernel = "done" => Len(lines) = AllLines
  /\ BeforeCall => kernel = "none"

LEMMA FrameNotEmpty == FrameSize \in Nat \ {0} /\ AllLines \in Nat \ {0}
<1>1. FrameSize \in Nat \ {0}
  BY FpgaAssumption DEF FrameSize
<1>2. QED
  BY <1>1, LinesAndPadding DEF AllLines

LEMMA FramingInit == Init => FramingInv
BY FrameNotEmpty DEF Init, FramingInv, BeforeCall

(* The loop writes the next line of the frame. *)
LEMMA FramingWriteLine == FramingInv /\ KernelWriteLine => FramingInv'
<1> SUFFICES ASSUME FramingInv, KernelWriteLine
             PROVE  FramingInv'
  OBVIOUS
<1> DEFINE n == Len(lines)
           f == Flags(n, FrameSize)
<1>1. n \in Nat /\ n <= LastLine(FrameSize) /\ LastLine(FrameSize) \in Nat
  BY FrameNotEmpty, LoopCondition, LinesAndPadding DEF FramingInv, KernelWriteLine
<1>2. f \in 0 .. 255 /\ lines' = Append(lines, f)
  BY <1>1, FrameNotEmpty, FlagsReadBack DEF KernelWriteLine
<1> HIDE DEF f
<1>3. lines' \in Seq(Int) /\ Len(lines') = n + 1
  BY <1>1, <1>2 DEF FramingInv
<1>4. ASSUME NEW k \in 1 .. Len(lines') PROVE lines'[k] = Flags(k - 1, FrameSize)
  <2>1. CASE k = n + 1
    <3>1. lines'[k] = f /\ k - 1 = n
      BY <1>1, <1>2, <1>3, <2>1 DEF FramingInv
    <3>2. QED
      BY <3>1 DEF f
  <2>2. CASE k \in 1 .. n
    BY <1>1, <1>2, <1>3, <2>2 DEF FramingInv
  <2>3. QED
    BY <1>1, <1>3, <2>1, <2>2
<1>5. kernel' = "lines" /\ BeforeCall' = BeforeCall /\ ~BeforeCall
  BY DEF KernelWriteLine, FramingInv, BeforeCall, hostVars
<1>6. Len(lines') <= AllLines
  BY <1>1, <1>3 DEF AllLines
<1> HIDE DEF n
<1>7. QED
  BY <1>3, <1>4, <1>5, <1>6 DEF FramingInv, FrameSize, AllLines

(* The loop ends when all lines are written. *)
LEMMA FramingReturn == FramingInv /\ KernelReturn => FramingInv'
<1> SUFFICES ASSUME FramingInv, KernelReturn
             PROVE  FramingInv'
  OBVIOUS
<1>0. Len(lines) \in Nat /\ LastLine(FrameSize) \in Nat
  <2>1. Len(lines) \in Nat
    BY DEF FramingInv
  <2>2. LastLine(FrameSize) \in Nat
    BY FrameNotEmpty, LinesAndPadding
  <2>3. QED
    BY <2>1, <2>2
<1>1. Len(lines) > LastLine(FrameSize)
  BY <1>0, FrameNotEmpty, LoopCondition DEF KernelReturn
<1>2. Len(lines) = AllLines
  BY <1>0, <1>1 DEF FramingInv, AllLines
<1>3. QED
  BY <1>2 DEF FramingInv, KernelReturn, AllLines, FrameSize, BeforeCall, hostVars

(* Every step preserves the invariant; the host, the copy and the kernel   *)
(* before its loop write no line.                                          *)
LEMMA FramingStep == FramingInv /\ [Next]_vars => FramingInv'
<1> SUFFICES ASSUME FramingInv, [Next]_vars
             PROVE  FramingInv'
  OBVIOUS
<1>1. CASE KernelWriteLine
  BY <1>1, FramingWriteLine
<1>2. CASE KernelReturn
  BY <1>2, FramingReturn
<1>3. CASE KernelStart \/ KernelReadPart \/ KernelCrc
  BY <1>3 DEF KernelStart, KernelReadPart, KernelCrc, FramingInv, AllLines, FrameSize,
              BeforeCall, hostVars
<1>4. CASE CallKernel
  BY <1>4 DEF CallKernel, FramingInv, AllLines, FrameSize, BeforeCall
<1>5. ASSUME UNCHANGED kernelVars, BeforeCall' => BeforeCall PROVE FramingInv'
  BY <1>5 DEF kernelVars, FramingInv, AllLines, FrameSize
<1>6. CASE \/ CreateContext \/ GetProgram \/ MapBuffer \/ MemCpy \/ EnqueueCopy \/ Finish
           \/ Unmap
  <2>1. UNCHANGED kernelVars /\ (BeforeCall' => BeforeCall)
    BY <1>6 DEF CreateContext, GetProgram, MapBuffer, MemCpy, EnqueueCopy, Finish, Unmap,
                BeforeCall
  <2>2. QED
    BY <2>1, <1>5
<1>7. CASE CopyPart \/ Ended \/ UNCHANGED vars
  <2>1. UNCHANGED <<hostVars, kernelVars>>
    BY <1>7 DEF CopyPart, Ended, vars
  <2>2. UNCHANGED kernelVars /\ (BeforeCall' => BeforeCall)
    BY <2>1 DEF hostVars, BeforeCall
  <2>3. QED
    BY <2>2, <1>5
<1>8. QED
  BY <1>1, <1>2, <1>3, <1>4, <1>6, <1>7 DEF Next, Host, Kernel

(* The invariant says what WellFramed asks of the lines. *)
LEMMA FramingImplies == FramingInv => WellFramed
<1> SUFFICES ASSUME FramingInv
             PROVE  WellFramed
  OBVIOUS
<1>1. ASSUME NEW k \in 1 .. Len(lines)
      PROVE  /\ IsFirst(lines[k]) <=> k = 1
             /\ IsLast(lines[k]) <=> k = AllLines
  <2>1. /\ lines[k] = Flags(k - 1, FrameSize) /\ k - 1 \in Nat
        /\ LastLine(FrameSize) \in Nat
    BY FrameNotEmpty, LinesAndPadding DEF FramingInv
  <2>2. /\ IsFirst(lines[k]) <=> k - 1 = 0
        /\ IsLast(lines[k]) <=> k - 1 = LastLine(FrameSize)
    BY <2>1, FrameNotEmpty, FlagsReadBack
  <2>3. QED
    BY <2>1, <2>2 DEF AllLines
<1>2. ASSUME kernel = "done"
      PROVE  /\ lines # << >>
             /\ IsLast(lines[Len(lines)])
             /\ BytesIn(Len(lines), lines[Len(lines)]) = FrameSize
  <2>1. Len(lines) = AllLines /\ AllLines \in 1 .. Len(lines)
    BY <1>2, FrameNotEmpty DEF FramingInv
  <2>2. /\ LastLine(FrameSize) \in Nat /\ Padding(FrameSize) \in Int
        /\ LineSize * AllLines = FrameSize + Padding(FrameSize)
    BY FrameNotEmpty, LinesAndPadding DEF AllLines
  <2>3. lines[AllLines] = Flags(LastLine(FrameSize), FrameSize)
    BY <2>1, <2>2 DEF FramingInv, AllLines
  <2>4. PaddingOf(lines[AllLines]) = Padding(FrameSize)
    BY <2>2, <2>3, FrameNotEmpty, FlagsReadBack
  <2>5. BytesIn(AllLines, lines[AllLines]) = FrameSize
    BY <2>2, <2>4, FrameNotEmpty, LineSizeAssumption DEF BytesIn
  <2>6. QED
    BY <2>1, <2>5, <1>1, FrameNotEmpty
<1>3. ASSUME NEW k \in 1 .. Len(lines), IsLast(lines[k]) PROVE k = Len(lines)
  BY <1>1, <1>3, FrameNotEmpty DEF FramingInv
<1>4. QED
  BY <1>1, <1>2, <1>3 DEF WellFramed, FrameSize

(* For every MSG_SIZE, header size and line size up to 32 bytes, the lines *)
(* that write_ibverb_packet writes to the channel frame the packet: first  *)
(* and last line are marked, and the padding count in the last one leaves  *)
(* exactly the bytes of the packet and its checksum.                       *)
THEOREM FramesWell == Spec => []WellFramed
<1>1. Init => FramingInv
  BY FramingInit
<1>2. FramingInv /\ [Next]_vars => FramingInv'
  BY FramingStep
<1>3. FramingInv => WellFramed
  BY FramingImplies
<1>4. QED
  BY <1>1, <1>2, <1>3, PTL DEF Spec

--------------------------------------------------------------------------------
(* The lines stay inside data[MSG_SIZE+100] whenever the headers and the   *)
(* padding of the last line fit into the 96 bytes that remain of the 100   *)
(* behind the checksum.                                                    *)
THEOREM LinesFit ==
  ASSUME HeaderSize + Padding(FrameSize) <= 96
  PROVE  Spec => []LinesInsideData
<1>1. FramingInv => LinesInsideData
  <2> SUFFICES ASSUME FramingInv
               PROVE  LineSize * Len(lines) <= DataSize
    BY DEF LinesInsideData
  <2>1. Len(lines) \in Nat /\ Len(lines) <= AllLines /\ AllLines \in Nat
    BY FrameNotEmpty DEF FramingInv
  <2>2. LineSize * Len(lines) <= LineSize * AllLines
    <3> DEFINE n == Len(lines)
    <3>1. n \in Nat /\ n <= AllLines /\ AllLines \in Nat
      BY <2>1
    <3> HIDE DEF n
    <3>2. LineSize * n <= LineSize * AllLines
      BY <3>1, LineSizeAssumption, Z3
    <3>3. QED
      BY <3>2 DEF n
  <2>3. /\ LineSize * AllLines = FrameSize + Padding(FrameSize)
        /\ Padding(FrameSize) \in Nat
    BY FrameNotEmpty, LinesAndPadding, LineSizeAssumption DEF AllLines
  <2>4. FrameSize + Padding(FrameSize) <= DataSize
    <3> DEFINE pad == Padding(FrameSize)
    <3>1. pad \in Nat /\ HeaderSize + pad <= 96
      BY <2>3
    <3> HIDE DEF pad
    <3>2. FrameSize + pad <= DataSize
      BY <3>1, FpgaAssumption DEF FrameSize, DataSize
    <3>3. QED
      BY <3>2 DEF pad
  <2>5. LineSize * AllLines \in Int /\ LineSize * Len(lines) \in Int /\ DataSize \in Int
    <3>1. LineSize \in Int /\ AllLines \in Int /\ Len(lines) \in Int
      BY <2>1, LineSizeAssumption
    <3>2. DataSize \in Int
      BY FpgaAssumption DEF DataSize
    <3>3. QED
      BY <3>1, <3>2
  <2>6. LineSize * AllLines <= DataSize
    BY <2>3, <2>4
  <2>7. QED
    BY <2>2, <2>5, <2>6
<1>2. QED
  BY <1>1, FramingInit, FramingStep, PTL DEF Spec

(* The sizes in the code are such: 74 bytes of headers, MSG_SIZE 8940 and  *)
(* lines of 32 bytes, of which the last one carries 6 bytes of padding.    *)
COROLLARY LinesFitInCode ==
  ASSUME LineSize = 32, HeaderSize = 74, MsgSize = 8940
  PROVE  Spec => []LinesInsideData
<1>1. FrameSize = 9018
  BY DEF FrameSize
<1>2. (-FrameSize) % LineSize = 6
  <2>1. -FrameSize \in Int /\ -282 \in Int /\ 6 \in 0 .. LineSize - 1
    BY <1>1
  <2>2. -FrameSize = (LineSize * (-282)) + 6
    BY <1>1
  <2>3. QED
    BY <2>1, <2>2, QuotientUnique
<1>3. HeaderSize + Padding(FrameSize) <= 96
  BY <1>2 DEF Padding
<1>4. QED
  BY <1>3, LinesFit

--------------------------------------------------------------------------------
(* A buffer with each part as the packet has it, or not yet. *)
Buffers == [Parts -> {"packet", "stale"}]

(* The inductive invariant of the copy: the mapped buffer holds the        *)
(* packet from memcpy on, the device's buffer in the parts already copied  *)
(* if the copy has found what the host wrote; such a copy that is complete *)
(* when the kernel begins gives it the packet in every part it has read,   *)
(* and the checksum is that of the payload.                                *)
CopyInv ==
  /\ host_buf \in Buffers /\ device_buf \in Buffers /\ header \in Buffers
  /\ copied \in -1 .. 2
  /\ part \in 1 .. 3
  /\ BeforeCall => kernel = "none"
  /\ h_pc = "copy" \/ copied >= 0 => \A p \in Parts : host_buf[p] = "packet"
  /\ coherent => \A p \in 1 .. copied : device_buf[p] = "packet"
  /\ kernel \in {"none", "queued", "header", "crc", "lines", "done"}
  /\ kernel \in {"none", "queued"} => part = 1 /\ ~in_order
  /\ kernel = "header" => part \in Parts
  /\ kernel \in {"crc", "lines", "done"} => part = 3
  /\ in_order => copied = 2
  /\ in_order /\ coherent => \A p \in 1 .. part - 1 : header[p] = "packet"
  /\ kernel \in {"lines", "done"} => crc_of = << payload >>

(* The length by which the copy and the kernel's loop are bounded. *)
LEMMA BufferLength ==
  ASSUME NEW b \in Buffers
  PROVE  Len(b) = 2
<1>1. b \in Seq({"packet", "stale"})
  <2>1. 2 \in Nat /\ b \in [1 .. 2 -> {"packet", "stale"}]
    BY DEF Buffers, Parts
  <2>2. QED
    BY <2>1, SeqDef
<1>2. Len(b) \in Nat /\ DOMAIN b = 1 .. Len(b)
  BY <1>1, LenProperties
<1>3. 1 .. Len(b) = 1 .. 2
  BY <1>2 DEF Buffers, Parts
<1>4. QED
  BY <1>2, <1>3

(* Nothing is copied at the start. *)
LEMMA CopyInit == Init => CopyInv
BY DEF Init, CopyInv, Buffers, Parts, Stale, BeforeCall

(* One more part has reached the device. *)
LEMMA CopyCopyPart == CopyInv /\ CopyPart => CopyInv'
<1> SUFFICES ASSUME CopyInv, CopyPart
             PROVE  CopyInv'
  OBVIOUS
<1>0. PICK found \in {host_buf[copied + 1], "stale"} :
        /\ device_buf' = [device_buf EXCEPT ![copied + 1] = found]
        /\ coherent' = (coherent /\ found = host_buf[copied + 1])
  BY DEF CopyPart
<1>1. copied \in 0 .. 1 /\ copied' = copied + 1 /\ copied + 1 \in Parts
  <2>1. Len(host_buf) = 2
    BY BufferLength DEF CopyInv
  <2>2. QED
    BY <2>1 DEF CopyPart, Parts
<1>2. UNCHANGED <<h_pc, host_buf, header, part, kernel, crc_of, payload, in_order>>
  BY DEF CopyPart, hostVars, kernelVars
<1>3. host_buf[copied + 1] = "packet"
  BY <1>1 DEF CopyInv
<1>4. device_buf' \in Buffers
  BY <1>0, <1>1, <1>3 DEF CopyInv, Buffers
<1>5. ASSUME coherent', NEW p \in 1 .. copied' PROVE device_buf'[p] = "packet"
  <2>1. coherent /\ found = "packet"
    BY <1>0, <1>3, <1>5
  <2>2. QED
    BY <1>0, <1>1, <2>1 DEF CopyInv, Buffers, Parts
<1>6. ~in_order
  BY <1>1 DEF CopyInv
<1>7. /\ copied' \in -1 .. 2
      /\ h_pc' = "copy" \/ copied' >= 0 => \A p \in Parts : host_buf'[p] = "packet"
  BY <1>1, <1>2 DEF CopyInv
<1>8. QED
  BY <1>2, <1>4, <1>5, <1>6, <1>7 DEF CopyInv, BeforeCall

(* The kernel has read one more part of the headers. *)
LEMMA CopyReadPart == CopyInv /\ KernelReadPart => CopyInv'
<1> SUFFICES ASSUME CopyInv, KernelReadPart
             PROVE  CopyInv'
  OBVIOUS
<1>1. /\ part \in Parts /\ part' = part + 1
      /\ header' = [header EXCEPT ![part] = device_buf[part]]
      /\ kernel = "header"
      /\ kernel' = IF part = 2 THEN "crc" ELSE "header"
  BY BufferLength DEF CopyInv, KernelReadPart
<1>2. UNCHANGED <<h_pc, host_buf, device_buf, copied, coherent, crc_of, payload, in_order>>
  BY DEF KernelReadPart, hostVars, copyVars
<1>3. header' \in Buffers
  BY <1>1 DEF CopyInv, Buffers
<1>4. ASSUME in_order, coherent, NEW p \in 1 .. part PROVE header'[p] = "packet"
  BY <1>1, <1>4 DEF CopyInv, Buffers, Parts
<1>5. ASSUME in_order', coherent' PROVE \A p \in 1 .. part' - 1 : header'[p] = "packet"
  <2>1. part' - 1 = part
    BY <1>1 DEF Parts
  <2>2. QED
    BY <1>2, <1>4, <1>5, <2>1
<1>6. /\ part' \in 1 .. 3
      /\ kernel' = "header" => part' \in Parts
      /\ kernel' = "crc" => part' = 3
      /\ kernel' \in {"header", "crc"}
  BY <1>1 DEF Parts
<1>7. QED
  BY <1>1, <1>2, <1>3, <1>5, <1>6 DEF CopyInv, BeforeCall

(* Every step preserves the invariant of the copy. *)
LEMMA CopyStep == CopyInv /\ [Next]_vars => CopyInv'
<1> SUFFICES ASSUME CopyInv, [Next]_vars
             PROVE  CopyInv'
  OBVIOUS
<1>1. CASE CopyPart
  BY <1>1, CopyCopyPart
<1>2. CASE KernelReadPart
  BY <1>2, CopyReadPart
<1>3. CASE KernelStart
  <2>1. in_order' => copied = 2
    BY <1>3, BufferLength DEF KernelStart, CopyInv
  <2>2. part = 1
    BY <1>3 DEF KernelStart, CopyInv
  <2>3. UNCHANGED <<h_pc, host_buf, device_buf, copied, coherent, header, part, crc_of, payload>>
    BY <1>3 DEF KernelStart, hostVars, copyVars
  <2>4. ~BeforeCall /\ kernel' = "header"
    BY <1>3 DEF KernelStart, CopyInv
  <2>5. part' \in Parts /\ \A p \in 1 .. part' - 1 : header'[p] = "packet"
    BY <2>2, <2>3 DEF Parts
  <2>6. QED
    BY <2>1, <2>3, <2>4, <2>5 DEF CopyInv, BeforeCall
<1>4. CASE KernelCrc
  BY <1>4 DEF KernelCrc, CopyInv, BeforeCall, hostVars, copyVars
<1>5. CASE KernelWriteLine \/ KernelReturn
  BY <1>5 DEF KernelWriteLine, KernelReturn, CopyInv, BeforeCall, hostVars, copyVars
<1>6. CASE CallKernel
  BY <1>6 DEF CallKernel, CopyInv, BeforeCall, copyVars
<1>7. CASE EnqueueCopy
  BY <1>7 DEF EnqueueCopy, CopyInv, BeforeCall, kernelVars
<1>8. CASE MemCpy
  <2>1. host_buf' \in Buffers /\ \A p \in Parts : host_buf'[p] = "packet"
    BY <1>8 DEF MemCpy, Buffers
  <2>2. QED
    BY <1>8, <2>1 DEF MemCpy, CopyInv, BeforeCall, copyVars, kernelVars
<1>9. CASE CreateContext \/ GetProgram \/ MapBuffer \/ Finish \/ Unmap
  <2>1. /\ UNCHANGED <<host_buf, copyVars, kernelVars>>
        /\ BeforeCall' => BeforeCall
        /\ h_pc' # "copy"
    BY <1>9 DEF CreateContext, GetProgram, MapBuffer, Finish, Unmap, BeforeCall
  <2>2. QED
    BY <2>1 DEF CopyInv, copyVars, kernelVars
<1>10. CASE Ended \/ UNCHANGED vars
  BY <1>10 DEF Ended, vars, hostVars, copyVars, kernelVars, CopyInv, BeforeCall
<1>11. QED
  BY <1>1, <1>2, <1>3, <1>4, <1>5, <1>6, <1>7, <1>8, <1>9, <1>10 DEF Next, Host, Kernel

(* Two things can go wrong with the checksum and no third: the race        *)
(* between the queue of the copy and that of the kernel, and the copy from *)
(* a buffer that is still mapped.  In every behaviour in which the copy    *)
(* found what memcpy wrote and was complete when the kernel began, a frame *)
(* that has been sent carries the headers of the packet and the checksum   *)
(* over them and the payload.                                              *)
THEOREM CoversFrame == Spec => []CoversFrameIfCopied
<1>1. CopyInv => CoversFrameIfCopied
  BY DEF CopyInv, CoversFrameIfCopied, ChecksumCoversFrame, Parts
<1>2. QED
  BY <1>1, CopyInit, CopyStep, PTL DEF Spec

--------------------------------------------------------------------------------
(* crc32.h, which computes the checksum the kernel sends.  The bitwise     *)
(* definition is linear, so a byte's eight steps can be taken for the low  *)
(* byte of the register, where the table has the result, and for the rest, *)
(* which they only shift.                                                  *)

LEMMA XorType ==
  ASSUME NEW a \in Uint32, NEW b \in Uint32
  PROVE  Xor(a, b) \in Uint32
BY DEF Xor, Uint32

LEMMA ShiftType ==
  ASSUME NEW a, NEW k
  PROVE  ShiftRight(a, k) \in Uint32
BY DEF ShiftRight, Uint32

(* Inverting twice gives back the register. *)
LEMMA XorTwice ==
  ASSUME NEW a, NEW b
  PROVE  Xor(Xor(a, b), b) = a
BY DEF Xor

(* Terms of a sum modulo 2 change places. *)
LEMMA XorExchange ==
  ASSUME NEW a, NEW b, NEW c, NEW d
  PROVE  Xor(Xor(a, b), Xor(c, d)) = Xor(Xor(a, c), Xor(b, d))
BY DEF Xor

LEMMA ShiftOfXor ==
  ASSUME NEW a, NEW b, NEW k
  PROVE  ShiftRight(Xor(a, b), k) = Xor(ShiftRight(a, k), ShiftRight(b, k))
BY DEF ShiftRight, Xor

(* What a one that falls out adds. *)
Feedback(r) == IF 0 \in r THEN Polynomial ELSE {}

LEMMA BitStepIs ==
  ASSUME NEW r
  PROVE  BitStep(r) = Xor(ShiftRight(r, 1), Feedback(r))
BY DEF BitStep, Feedback, Xor

LEMMA FeedbackOfXor ==
  ASSUME NEW a, NEW b
  PROVE  Feedback(Xor(a, b)) = Xor(Feedback(a), Feedback(b))
<1>1. 0 \in Xor(a, b) <=> (0 \in a <=> 0 \notin b)
  BY DEF Xor
<1>2. Xor(Polynomial, Polynomial) = {} /\ Xor({}, {}) = {}
      /\ Xor(Polynomial, {}) = Polynomial /\ Xor({}, Polynomial) = Polynomial
  BY DEF Xor
<1>3. QED
  BY <1>1, <1>2 DEF Feedback

(* A step of the bitwise definition is linear ... *)
LEMMA BitStepLinear ==
  ASSUME NEW a, NEW b
  PROVE  BitStep(Xor(a, b)) = Xor(BitStep(a), BitStep(b))
<1>1. BitStep(Xor(a, b)) = Xor(Xor(ShiftRight(a, 1), ShiftRight(b, 1)),
                               Xor(Feedback(a), Feedback(b)))
  BY BitStepIs, ShiftOfXor, FeedbackOfXor
<1>2. QED
  BY <1>1, BitStepIs, XorExchange

(* ... and so are four. *)
LEMMA FourStepsLinear ==
  ASSUME NEW a, NEW b
  PROVE  FourSteps(Xor(a, b)) = Xor(FourSteps(a), FourSteps(b))
BY BitStepLinear DEF FourSteps

(* Steps in which no one falls out only shift. *)
LEMMA BitStepShifts ==
  ASSUME NEW r, NEW k \in 0 .. 7, \A i \in r : i \in 8 .. 31
  PROVE  BitStep(ShiftRight(r, k)) = ShiftRight(r, k + 1)
<1>1. 0 \notin ShiftRight(r, k)
  BY DEF ShiftRight
<1>2. ShiftRight(ShiftRight(r, k), 1) = ShiftRight(r, k + 1)
  <2>1. ASSUME NEW i \in 0 .. 31
        PROVE  i + 1 \in ShiftRight(r, k) <=> i + (k + 1) \in r
    <3>1. (i + 1) + k = i + (k + 1)
      OBVIOUS
    <3>2. i + (k + 1) \in r => i + 1 \in 0 .. 31
      OBVIOUS
    <3>3. QED
      BY <3>1, <3>2 DEF ShiftRight
  <2>2. QED
    BY <2>1 DEF ShiftRight
<1>3. QED
  BY <1>1, <1>2 DEF BitStep

LEMMA EightStepsShift ==
  ASSUME NEW r \in Uint32, r \cap (0 .. 7) = {}
  PROVE  FourSteps(FourSteps(r)) = ShiftRight(r, 8)
<1>1. \A i \in r : i \in 8 .. 31
  BY DEF Uint32
<1>2. r = ShiftRight(r, 0)
  BY <1>1 DEF ShiftRight
<1>3. \A k \in 0 .. 7 : BitStep(ShiftRight(r, k)) = ShiftRight(r, k + 1)
  BY <1>1, BitStepShifts
<1>4. /\ BitStep(ShiftRight(r, 0)) = ShiftRight(r, 1)
      /\ BitStep(ShiftRight(r, 1)) = ShiftRight(r, 2)
      /\ BitStep(ShiftRight(r, 2)) = ShiftRight(r, 3)
      /\ BitStep(ShiftRight(r, 3)) = ShiftRight(r, 4)
      /\ BitStep(ShiftRight(r, 4)) = ShiftRight(r, 5)
      /\ BitStep(ShiftRight(r, 5)) = ShiftRight(r, 6)
      /\ BitStep(ShiftRight(r, 6)) = ShiftRight(r, 7)
      /\ BitStep(ShiftRight(r, 7)) = ShiftRight(r, 8)
  BY <1>3
<1>5. FourSteps(ShiftRight(r, 0)) = ShiftRight(r, 4)
  BY <1>4 DEF FourSteps
<1>6. FourSteps(ShiftRight(r, 4)) = ShiftRight(r, 8)
  BY <1>4 DEF FourSteps
<1>7. QED
  BY <1>2, <1>5, <1>6

(* One access to the table is eight steps of the bitwise definition, for   *)
(* every register and every byte.                                          *)
THEOREM TableStepIsByteStep ==
  ASSUME NEW r \in Uint32, NEW byte \in Bytes
  PROVE  TableStep(r, byte) = ByteStep(r, byte)
<1> DEFINE low == Xor(LowByte(r), byte)
           high == r \ (0 .. 7)
<1>1. Xor(r, byte) = Xor(low, high)
  BY DEF LowByte, Bytes, Xor
<1>2. low \in Bytes /\ high \in Uint32 /\ high \cap (0 .. 7) = {}
  BY DEF LowByte, Bytes, Xor, Uint32
<1>3. Entry(low) = FourSteps(FourSteps(low))
  <2>1. Xor({}, low) = low
    BY DEF Xor
  <2> HIDE DEF low
  <2>2. QED
    BY <1>2, <2>1, TableIsRight DEF ByteStep
<1>4. ShiftRight(r, 8) = FourSteps(FourSteps(high))
  <2>1. ShiftRight(r, 8) = ShiftRight(high, 8)
    BY DEF ShiftRight
  <2> HIDE DEF high
  <2>2. QED
    BY <1>2, <2>1, EightStepsShift
<1> HIDE DEF low, high
<1>5. ByteStep(r, byte) = Xor(FourSteps(FourSteps(low)), FourSteps(FourSteps(high)))
  BY <1>1, FourStepsLinear DEF ByteStep
<1>6. QED
  BY <1>3, <1>4, <1>5 DEF TableStep, low

LEMMA BitsType ==
  ASSUME NEW halves
  PROVE  BitsOf(halves) \in Uint32
BY DEF BitsOf, Uint32

LEMMA BitStepType ==
  ASSUME NEW r
  PROVE  BitStep(r) \in Uint32
BY ShiftType, XorType, BitsType DEF BitStep, Polynomial

LEMMA ByteStepType ==
  ASSUME NEW r, NEW byte
  PROVE  ByteStep(r, byte) \in Uint32
BY BitStepType DEF ByteStep, FourSteps

(* The inductive invariant: both registers have 32 bits, which the theorem *)
(* about the table needs.                                                  *)
CrcInv == crc \in Uint32 /\ reference \in Uint32 /\ IsCrc32

LEMMA CrcInvInit ==
  ASSUME CrcInit
  PROVE  CrcInv
BY DEF CrcInit, CrcInv, IsCrc32, Uint32, AllOnes, Xor

LEMMA CrcInvStep ==
  ASSUME CrcInv, [CrcNext]_crcVars
  PROVE  CrcInv'
<1>1. AllOnes \in Uint32
  BY DEF AllOnes, Uint32
<1>2. CASE Enter
  <2>1. pc = "caller" /\ crc' = Xor(crc, AllOnes) /\ pc' = "loop" /\ reference' = reference
    BY <1>2 DEF Enter
  <2>2. crc' = reference
    BY <2>1, XorTwice DEF CrcInv, IsCrc32
  <2>3. QED
    BY <2>1, <2>2 DEF CrcInv, IsCrc32
<1>3. CASE Loop
  <2>1. PICK byte \in IF fed = 0 THEN FirstBytes ELSE NextBytes :
          /\ pc = "loop" /\ pc' = pc
          /\ crc' = TableStep(crc, byte)
          /\ reference' = ByteStep(reference, byte)
    BY <1>3 DEF Loop
  <2>2. byte \in Bytes
    BY <2>1, Crc32Assumption
  <2>3. crc = reference /\ crc \in Uint32
    BY <2>1 DEF CrcInv, IsCrc32
  <2>4. crc' = reference' /\ reference' \in Uint32
    BY <2>1, <2>2, <2>3, TableStepIsByteStep, ByteStepType
  <2>5. QED
    BY <2>1, <2>4 DEF CrcInv, IsCrc32
<1>4. CASE Return
  <2>1. pc = "loop" /\ crc' = Xor(crc, AllOnes) /\ pc' = "caller" /\ reference' = reference
    BY <1>4 DEF Return
  <2>2. crc = reference
    BY <2>1 DEF CrcInv, IsCrc32
  <2>3. crc' \in Uint32
    BY <1>1, <2>1, XorType DEF CrcInv
  <2>4. QED
    BY <2>1, <2>2, <2>3 DEF CrcInv, IsCrc32, AllOnes
<1>5. CASE Done \/ UNCHANGED crcVars
  BY <1>5 DEF Done, crcVars, CrcInv, IsCrc32, AllOnes
<1>6. QED
  BY <1>2, <1>3, <1>4, <1>5 DEF CrcNext

(* The table-driven crc32 computes CRC-32: for all bytes, in any number    *)
(* and divided into calls in any way, empty ones included.                 *)
THEOREM ComputesCrc32 == CrcSpec => []IsCrc32
<1>1. CrcInv => IsCrc32
  BY DEF CrcInv
<1>2. QED
  BY <1>1, CrcInvInit, CrcInvStep, PTL DEF CrcSpec

================================================================================
