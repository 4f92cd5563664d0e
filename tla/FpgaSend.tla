-------------------------------- MODULE FpgaSend --------------------------------
(***************************************************************************)
(* The FPGA way of raw_ibverbs: ib_fpga_send_loop (fpga_host.cc) with the  *)
(* wrappers of opencl_utils, the two OpenCL command queues it uses, and    *)
(* the kernel write_ibverb_packet (ibverbs.cl).                            *)
(*                                                                         *)
(* The host maps a buffer, copies the headers into it, enqueues the copy   *)
(* to the device on one queue and the kernel on the kernel's own queue,    *)
(* and waits for the kernel.  Nothing orders the two queues.               *)
(*                                                                         *)
(* The buffer stays mapped for writing until the kernel has finished, and  *)
(* the unmapping is enqueued behind the copy.  So the copy always reads a  *)
(* mapped buffer, which OpenCL leaves undefined: where the mapping is the  *)
(* buffer itself it finds what memcpy wrote, where the mapping is a copy   *)
(* that unmapping writes back it finds what was there before.              *)
(*                                                                         *)
(* The headers are looked at in Parts, so that a copy can be under way; a  *)
(* part is "packet" (the bytes of the packet that header_crc was computed  *)
(* over) or "stale".  The payload is whatever the kernel's memory holds.   *)
(***************************************************************************)
EXTENDS FpgaKernel, Sequences

CONSTANTS
  MsgSize,    \* MSG_SIZE, 8940 in the code
  HeaderSize, \* header_size, 74 in the code
  Platforms,  \* names of OpenCL platforms
  Contents    \* what the payload part of the kernel's memory may hold

ASSUME FpgaAssumption ==
  /\ MsgSize \in Nat
  /\ HeaderSize \in Nat \ {0}
  /\ Contents \subseteq Nat

VARIABLES
  h_pc,         \* where ib_fpga_send_loop stands
  device_type,  \* the kind of device chosen by createContext
  host_buf,     \* the parts of the mapped buffer, as the host has written them
  device_buf,   \* the parts of the buffer in the device's memory
  copied,       \* parts copied by the copy command; -1 before it is enqueued
  coherent,     \* history: the copy has found what the host wrote
  kernel,       \* "none", "queued", "header", "crc", "lines" or "done"
  header,       \* the header parts of the kernel's data[]
  part,         \* index of the kernel's loop over the header
  payload,      \* the payload in the kernel's data[], never written
  crc_of,       \* what the checksum in data[] was computed over, after header_crc
  lines,        \* the flags of the lines written to ch_out1
  in_order      \* history: the copy was complete when the kernel began

hostVars == <<h_pc, device_type, host_buf>>
copyVars == <<device_buf, copied, coherent>>
kernelVars == <<kernel, header, part, payload, crc_of, lines, in_order>>
vars == <<hostVars, copyVars, kernelVars>>

Parts == 1 .. 2
Stale == [p \in Parts |-> "stale"]

Gone == {"exited", "aborted", "returned"}   \* exit(1), uncaught cl::Error, return

Init ==
  /\ h_pc = "context"
  /\ device_type = "none"
  /\ host_buf = Stale
  /\ device_buf = Stale
  /\ copied = -1
  /\ coherent = TRUE
  /\ kernel = "none"
  /\ header = Stale
  /\ part = 1
  /\ payload \in Contents
  /\ crc_of = << >>
  /\ lines = << >>
  /\ in_order = FALSE

--------------------------------------------------------------------------------
(* The host. *)

(* createContext's choice of a device type from the variable TYPE; a name  *)
(* that is not recognised only causes a warning.                           *)
DeviceType(type) == IF type \in {"GPU", "CPU", "ACCELERATOR"} THEN type ELSE "DEFAULT"

(* createContext: the platform named by PLATFORM, or by default, is looked *)
(* for among the installed ones; without it the program exits.  A call     *)
(* that fails, as the search does where no platform is installed at all,   *)
(* or a platform without such a device raises an error nobody catches.     *)
CreateContext ==
  \E name \in Platforms, installed \in SUBSET Platforms,
     type \in {"unset", "GPU", "CPU", "ACCELERATOR", "misspelt"} :
    /\ h_pc = "context"
    /\ \/ /\ name \in installed
          /\ device_type' = DeviceType(type)
          /\ h_pc' \in {"program", "aborted"}
       \/ /\ name \notin installed
          /\ h_pc' \in {"exited", "aborted"}
          /\ UNCHANGED device_type
    /\ UNCHANGED <<host_buf, copyVars, kernelVars>>

(* get_program: loads ibverbs.aocx; an error is caught and reported. *)
GetProgram ==
  /\ h_pc = "program"
  /\ h_pc' \in {"buffers", "exited"}
  /\ UNCHANGED <<device_type, host_buf, copyVars, kernelVars>>

(* The queue, the two buffers and the blocking map. *)
MapBuffer ==
  /\ h_pc = "buffers"
  /\ h_pc' \in {"memcpy", "aborted"}
  /\ UNCHANGED <<device_type, host_buf, copyVars, kernelVars>>

(* Mutant of MemCpy: the mapped buffer is not filled. *)
MemCpyForgotten ==
  /\ h_pc = "memcpy"
  /\ h_pc' \in {"copy", "aborted"}
  /\ UNCHANGED <<device_type, host_buf, copyVars, kernelVars>>

(* memcpy into the mapped buffer, and Kernel's constructor. *)
MemCpy ==
  /\ h_pc = "memcpy"
  /\ host_buf' = [p \in Parts |-> "packet"]
  /\ h_pc' \in {"copy", "aborted"}
  /\ UNCHANGED <<device_type, copyVars, kernelVars>>

EnqueueCopy ==
  /\ h_pc = "copy"
  /\ \/ /\ copied' = 0
        /\ h_pc' = "call"
     \/ /\ h_pc' = "aborted"
        /\ UNCHANGED copied
  /\ UNCHANGED <<device_type, host_buf, device_buf, coherent, kernelVars>>

(* Kernel::operator(): an error of set_args is caught and reported, one of *)
(* enqueueNDRangeKernel is not.                                            *)
CallKernel ==
  /\ h_pc = "call"
  /\ \/ /\ kernel' = "queued"
        /\ h_pc' = "finish"
     \/ /\ h_pc' \in {"exited", "aborted"}
        /\ UNCHANGED kernel
  /\ UNCHANGED <<device_type, host_buf, copyVars, header, part, payload, crc_of,
                 lines, in_order>>

(* kernel.finish() waits for the kernel's event, not for the copy, and     *)
(* without a limit; SIGINT only clears packet_loop, at which nobody looks. *)
Finish ==
  /\ h_pc = "finish"
  /\ kernel = "done"
  /\ h_pc' \in {"unmap", "aborted"}
  /\ UNCHANGED <<device_type, host_buf, copyVars, kernelVars>>

(* enqueueUnmapMemObject, and the destructors. *)
Unmap ==
  /\ h_pc = "unmap"
  /\ h_pc' \in {"returned", "aborted"}
  /\ UNCHANGED <<device_type, host_buf, copyVars, kernelVars>>

--------------------------------------------------------------------------------
(* The first queue: the copy of the headers to the device, part by part,   *)
(* from a buffer that is still mapped for writing.                         *)
CopyPart ==
  /\ copied \in 0 .. Len(host_buf) - 1
  /\ \E found \in {host_buf[copied + 1], "stale"} :
       /\ device_buf' = [device_buf EXCEPT ![copied + 1] = found]
       /\ coherent' = (coherent /\ found = host_buf[copied + 1])
  /\ copied' = copied + 1
  /\ UNCHANGED <<hostVars, kernelVars>>

(* The second queue: the kernel. *)
KernelStart ==
  /\ kernel = "queued"
  /\ kernel' = "header"
  /\ in_order' = (copied = Len(host_buf))
  /\ UNCHANGED <<hostVars, copyVars, header, part, payload, crc_of, lines>>

(* Mutant of KernelReadPart: the index of the loop is not advanced. *)
KernelRereadsPart ==
  /\ kernel = "header"
  /\ header' = [header EXCEPT ![part] = device_buf[part]]
  /\ UNCHANGED <<hostVars, copyVars, kernel, part, payload, crc_of, lines, in_order>>

(* The loop that reads the headers from the device's memory. *)
KernelReadPart ==
  /\ kernel = "header"
  /\ header' = [header EXCEPT ![part] = device_buf[part]]
  /\ part' = part + 1
  /\ kernel' = IF part = Len(header) THEN "crc" ELSE "header"
  /\ UNCHANGED <<hostVars, copyVars, payload, crc_of, lines, in_order>>

(* The checksum is continued over the payload and put behind it. *)
KernelCrc ==
  /\ kernel = "crc"
  /\ crc_of' = << payload >>
  /\ kernel' = "lines"
  /\ UNCHANGED <<hostVars, copyVars, header, part, payload, lines, in_order>>

(* Mutant of FrameSize: the checksum is not counted. *)
FrameSizeNoChecksum == HeaderSize + MsgSize

(* unsigned size *)
FrameSize == HeaderSize + MsgSize + 4

(* One line is written to the channel, which blocks until it is taken. *)
KernelWriteLine ==
  /\ kernel = "lines"
  /\ MoreLines(Len(lines), FrameSize)
  /\ lines' = Append(lines, Flags(Len(lines), FrameSize) % 256)
  /\ UNCHANGED <<hostVars, copyVars, kernel, header, part, payload, crc_of, in_order>>

KernelReturn ==
  /\ kernel = "lines"
  /\ ~MoreLines(Len(lines), FrameSize)
  /\ kernel' = "done"
  /\ UNCHANGED <<hostVars, copyVars, header, part, payload, crc_of, lines, in_order>>

--------------------------------------------------------------------------------
Host ==
  \/ CreateContext \/ GetProgram \/ MapBuffer \/ MemCpy \/ EnqueueCopy \/ CallKernel
  \/ Finish \/ Unmap

Kernel ==
  KernelStart \/ KernelReadPart \/ KernelCrc \/ KernelWriteLine \/ KernelReturn

(* The process has ended, or the kernel has. *)
Ended == (h_pc \in Gone \/ kernel = "done") /\ UNCHANGED vars

Next == Host \/ CopyPart \/ Kernel \/ Ended

(* The host runs, each queue works off its commands, and the board takes   *)
(* the lines out of the channel.                                           *)
Spec ==
  /\ Init /\ [][Next]_vars
  /\ WF_vars(Host) /\ WF_vars(CopyPart) /\ WF_vars(Kernel)

--------------------------------------------------------------------------------
(* The receiver of the lines finds the frame: the first line and no other  *)
(* is marked first, the last one and no other is marked last, and after    *)
(* the last one the lines, less the padding, are the bytes of the frame    *)
(* with its checksum.                                                      *)
WellFramed ==
  /\ \A k \in 1 .. Len(lines) :
       /\ IsFirst(lines[k]) <=> k = 1
       /\ IsLast(lines[k]) => k = Len(lines)
  /\ kernel = "done" =>
       /\ lines # << >>
       /\ IsLast(lines[Len(lines)])
       /\ BytesIn(Len(lines), lines[Len(lines)]) = HeaderSize + MsgSize + 4

(* Mutant of DataSize: no room behind the frame. *)
DataSizeExact == HeaderSize + MsgSize + 4

(* unsigned char data[MSG_SIZE+100] *)
DataSize == MsgSize + 100

(* The lines, which are read from data[] as whole vectors, lie inside it   *)
(* although the last one reaches beyond the frame.                         *)
LinesInsideData == LineSize * Len(lines) <= DataSize

(* The checksum of a frame the FPGA has sent is the CRC-32 of its headers  *)
(* and payload, as raw_ibverbs.c:74-75 says of an InfiniBand packet.       *)
ChecksumCoversFrame ==
  kernel = "done" => (\A p \in Parts : header[p] = "packet") /\ crc_of = << payload >>

(* The race of the two queues and the copy from a mapped buffer are all    *)
(* that can go wrong with the checksum: when the copy has found what       *)
(* memcpy wrote and is complete before the kernel begins, the checksum     *)
(* covers the frame.                                                       *)
CoversFrameIfCopied == in_order /\ coherent => ChecksumCoversFrame

(* The host ends, although it waits for the kernel without a limit: the    *)
(* kernel's loops end as long as the board takes the lines.                *)
HostEnds == <>(h_pc \in Gone)

================================================================================
