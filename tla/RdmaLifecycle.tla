----------------------------- MODULE RdmaLifecycle -----------------------------
(***************************************************************************)
(* What rdma.c acquires and releases: rdma_init, rdma_init_server,         *)
(* rdma_init_client, allocate_buf, rdma_cleanup and internal_rdma_cleanup, *)
(* as the main() of the server or of the client calls them.                *)
(*                                                                         *)
(* Every call of the library or of the allocator may fail.  A function is  *)
(* a table of its calls: each names the handles it gets or releases and    *)
(* the place where the code continues after success and after failure.     *)
(* The places are named after the call or the C label found there.         *)
(***************************************************************************)
EXTENDS Naturals

CONSTANT Roles   \* the programs considered: "server" (rdma_server.c), "client" (rdma_client.c)

ASSUME RolesAssumption == Roles \subseteq {"server", "client"}

VARIABLES
  role,       \* which program runs
  pc,         \* the call it is about to make
  live,       \* what has been acquired and not released
  ptrs,       \* the handles that are not NULL
  qp_state,   \* state of the queue pair
  after,      \* where internal_rdma_cleanup continues: "exited" or "returned"
  result,     \* exit status
  failed_at,  \* history: the first call of the initialisation that failed
  stuck       \* history: handles whose release failed

vars == <<role, pc, live, ptrs, qp_state, after, result, failed_at, stuck>>

Handles == {"dev_list", "context", "protection_domain", "completion_queue",
            "queue_pair", "buffer", "memory_region", "header_buffer",
            "header_memory_region", "result", "scatter_gather", "recv_requests",
            "send_requests", "ah"}

(* The handles one program uses; the others stay NULL. *)
HandlesOf(r) ==
  Handles \ (IF r = "server" THEN {"send_requests", "ah"}
             ELSE {"header_buffer", "header_memory_region", "recv_requests"})

(* What a handle is built on and must not outlive: the adapter reaches a   *)
(* buffer through its memory region, so the buffer must outlive the region. *)
Needs(h) ==
  CASE h \in {"protection_domain", "completion_queue"} -> {"context"}
    [] h = "queue_pair"           -> {"protection_domain", "completion_queue"}
    [] h = "ah"                   -> {"protection_domain"}
    [] h = "memory_region"        -> {"protection_domain", "buffer"}
    [] h = "header_memory_region" -> {"protection_domain", "header_buffer"}
    [] OTHER                      -> {}

(* Entries of the tables. *)
Get(h, ok, fail)      == [gets |-> {h}, qp |-> "same", ok |-> ok, fail |-> fail]
Query(ok, fail)       == [gets |-> {}, qp |-> "same", ok |-> ok, fail |-> fail]
ModifyQp(s, ok, fail) == [gets |-> {}, qp |-> s, ok |-> ok, fail |-> fail]

Free(h, to)    == [frees |-> h, fail |-> "never", to |-> to]   \* free()
Destroy(h, to) == [frees |-> h, fail |-> "exited", to |-> to]  \* exit(EXIT_FAILURE) on error
Discard(h, to) == [frees |-> h, fail |-> to, to |-> to]        \* status ignored

--------------------------------------------------------------------------------
(* Mutant of RdmaInitCalls: a failed transition jumps past the queue pair. *)
RdmaInitWrongLabel ==
  [query_port |-> Query("alloc_pd", "clean_device"),
   alloc_pd   |-> Get("protection_domain", "create_cq", "clean_context"),
   create_cq  |-> Get("completion_queue", "create_qp", "clean_protection_domain"),
   create_qp  |-> Get("queue_pair", "qp_init", "clean_completion_queue"),
   qp_init    |-> ModifyQp("INIT", "qp_rtr", "clean_completion_queue"),
   qp_rtr     |-> ModifyQp("RTR", "buffer", "clean_queue_pair")]

(* rdma_init, from ibv_query_port on. *)
RdmaInitCalls ==
  [query_port |-> Query("alloc_pd", "clean_device"),
   alloc_pd   |-> Get("protection_domain", "create_cq", "clean_context"),
   create_cq  |-> Get("completion_queue", "create_qp", "clean_protection_domain"),
   create_qp  |-> Get("queue_pair", "qp_init", "clean_completion_queue"),
   qp_init    |-> ModifyQp("INIT", "qp_rtr", "clean_queue_pair"),
   qp_rtr     |-> ModifyQp("RTR", "buffer", "clean_queue_pair")]

(* The labels at the end of rdma_init; clean_context exits. *)
RdmaInitLabels ==
  [clean_queue_pair        |-> Discard("queue_pair", "clean_completion_queue"),
   clean_completion_queue  |-> Discard("completion_queue", "clean_protection_domain"),
   clean_protection_domain |-> Discard("protection_domain", "clean_device"),
   clean_device            |-> Discard("context", "clean_context")]

(* rdma_init_server after rdma_init. *)
ServerInitCalls ==
  [buffer        |-> Get("buffer", "reg_buffer", "destroy_ah"),
   reg_buffer    |-> Get("memory_region", "header_buffer", "clean_buf"),
   header_buffer |-> Get("header_buffer", "reg_header", "cleanup"),
   reg_header    |-> Get("header_memory_region", "result", "clean_header_buf"),
   result        |-> Get("result", "sge", "cleanup"),
   sge           |-> Get("scatter_gather", "requests", "cleanup"),
   requests      |-> Get("recv_requests", "query_gid", "cleanup"),
   query_gid     |-> Query("query_port2", "free_result"),
   query_port2   |-> Query("ntop", "free_result"),
   ntop          |-> Query("run", "free_result")]

(* Mutant of ClientInitCalls: the requests go to the server's pointer. *)
ClientRecvRequests ==
  [buffer     |-> Get("buffer", "reg_buffer", "destroy_ah"),
   reg_buffer |-> Get("memory_region", "result", "clean_buf"),
   result     |-> Get("result", "sge", "cleanup"),
   sge        |-> Get("scatter_gather", "requests", "cleanup"),
   requests   |-> Get("recv_requests", "qp_rts", "cleanup"),
   qp_rts     |-> ModifyQp("RTS", "create_ah", "free_result"),
   create_ah  |-> Get("ah", "run", "free_result")]

(* Mutant of ClientInitCalls: the queue pair is not made ready to send. *)
ClientStaysRtr ==
  [buffer     |-> Get("buffer", "reg_buffer", "destroy_ah"),
   reg_buffer |-> Get("memory_region", "result", "clean_buf"),
   result     |-> Get("result", "sge", "cleanup"),
   sge        |-> Get("scatter_gather", "requests", "cleanup"),
   requests   |-> Get("send_requests", "create_ah", "cleanup"),
   create_ah  |-> Get("ah", "run", "free_result")]

(* rdma_init_client after rdma_init. *)
ClientInitCalls ==
  [buffer     |-> Get("buffer", "reg_buffer", "destroy_ah"),
   reg_buffer |-> Get("memory_region", "result", "clean_buf"),
   result     |-> Get("result", "sge", "cleanup"),
   sge        |-> Get("scatter_gather", "requests", "cleanup"),
   requests   |-> Get("send_requests", "qp_rts", "cleanup"),
   qp_rts     |-> ModifyQp("RTS", "create_ah", "free_result"),
   create_ah  |-> Get("ah", "run", "free_result")]

(* allocate_buf's label clean_buf, for either buffer. *)
AllocateBufLabels ==
  [clean_buf        |-> Free("buffer", "destroy_ah"),
   clean_header_buf |-> Free("header_buffer", "cleanup")]

(* Mutant of CleanupCalls: the buffer is freed before it is deregistered.  *)
CleanupFreesFirst ==
  [free_result         |-> Free("result", "cleanup"),
   cleanup             |-> Free("buffer", "dereg"),
   dereg               |-> Destroy("memory_region", "dereg_header"),
   dereg_header        |-> Destroy("header_memory_region", "free_header"),
   free_header         |-> Free("header_buffer", "free_sge"),
   free_sge            |-> Free("scatter_gather", "free_recv_requests"),
   free_recv_requests  |-> Free("recv_requests", "free_send_requests"),
   free_send_requests  |-> Free("send_requests", "destroy_ah")]

(* rdma_cleanup; the callers that own the result array free it before.     *)
CleanupCalls ==
  [free_result         |-> Free("result", "cleanup"),
   cleanup             |-> Destroy("memory_region", "free_buffer"),
   free_buffer         |-> Free("buffer", "dereg_header"),
   dereg_header        |-> Destroy("header_memory_region", "free_header"),
   free_header         |-> Free("header_buffer", "free_sge"),
   free_sge            |-> Free("scatter_gather", "free_recv_requests"),
   free_recv_requests  |-> Free("recv_requests", "free_send_requests"),
   free_send_requests  |-> Free("send_requests", "destroy_ah")]

(* internal_rdma_cleanup; "end" stands for the return to the caller. *)
InternalCleanupCalls ==
  [destroy_ah   |-> Destroy("ah", "destroy_qp"),
   destroy_qp   |-> Destroy("queue_pair", "destroy_cq"),
   destroy_cq   |-> Destroy("completion_queue", "dealloc_pd"),
   dealloc_pd   |-> Destroy("protection_domain", "close_device"),
   close_device |-> Destroy("context", "end")]

(* Mutant of Tested: ah is destroyed without a test. *)
TestedNotAh == {"header_memory_region", "header_buffer", "scatter_gather",
                "recv_requests", "send_requests"}

(* The handles that rdma_cleanup tests for NULL before it releases them.   *)
Tested == {"header_memory_region", "header_buffer", "scatter_gather",
           "recv_requests", "send_requests", "ah"}

--------------------------------------------------------------------------------
Init ==
  /\ role \in Roles
  /\ pc = "get_device_list"
  /\ live = {}
  /\ ptrs = {}
  /\ qp_state = "RESET"
  /\ after = "exited"
  /\ result = "EXIT_SUCCESS"
  /\ failed_at = "none"
  /\ stuck = {}

(* Take one of the calls that acquire something. *)
CallFrom(table) ==
  /\ pc \in DOMAIN table
  /\ \/ /\ live' = live \cup table[pc].gets
        /\ ptrs' = ptrs \cup table[pc].gets
        /\ qp_state' = IF table[pc].qp = "same" THEN qp_state ELSE table[pc].qp
        /\ pc' = table[pc].ok
        /\ UNCHANGED failed_at
     \/ /\ pc' = table[pc].fail
        /\ failed_at' = pc
        /\ UNCHANGED <<live, ptrs, qp_state>>
  /\ UNCHANGED <<role, after, result, stuck>>

(* The release at pc is skipped: its handle is tested and NULL. *)
Skipped(table) == table[pc].frees \in Tested \ ptrs

(* Take one of the calls that release something.  allocate_buf resets the  *)
(* pointer it frees, the other functions do not.                           *)
ReleaseFrom(table) ==
  LET h == table[pc].frees IN
    /\ pc \in DOMAIN table
    /\ \/ /\ Skipped(table)
          /\ pc' = table[pc].to
          /\ UNCHANGED <<live, ptrs, stuck, result>>
       \/ /\ ~Skipped(table)
          /\ live' = live \ {h}
          /\ ptrs' = IF pc \in DOMAIN AllocateBufLabels THEN ptrs \ {h} ELSE ptrs
          /\ pc' = table[pc].to
          /\ UNCHANGED <<stuck, result>>
       \/ /\ ~Skipped(table)
          /\ table[pc].fail # "never"
          /\ stuck' = stuck \cup {h}
          /\ pc' = table[pc].fail
          /\ result' = "EXIT_FAILURE"
          /\ UNCHANGED <<live, ptrs>>
    /\ UNCHANGED <<role, qp_state, after, failed_at>>

--------------------------------------------------------------------------------
(* rdma_init up to ibv_open_device. *)

GetDeviceList ==
  /\ pc = "get_device_list"
  /\ \/ /\ live' = live \cup {"dev_list"}
        /\ pc' = "find_device"
        /\ UNCHANGED <<failed_at, result>>
     \/ /\ pc' = "exited"
        /\ failed_at' = pc
        /\ result' = "EXIT_FAILURE"
        /\ UNCHANGED live
  /\ UNCHANGED <<role, ptrs, qp_state, after, stuck>>

(* The device is in the list, or the list is freed and the process exits.  *)
FindDevice ==
  /\ pc = "find_device"
  /\ \/ /\ pc' = "open_device"
        /\ UNCHANGED <<live, failed_at, result>>
     \/ /\ pc' = "exited"
        /\ live' = live \ {"dev_list"}
        /\ failed_at' = pc
        /\ result' = "EXIT_FAILURE"
  /\ UNCHANGED <<role, ptrs, qp_state, after, stuck>>

(* The list is freed whether or not the device could be opened. *)
OpenDevice ==
  /\ pc = "open_device"
  /\ \/ /\ live' = (live \cup {"context"}) \ {"dev_list"}
        /\ ptrs' = ptrs \cup {"context"}
        /\ pc' = "query_port"
        /\ UNCHANGED failed_at
     \/ /\ live' = live \ {"dev_list"}
        /\ pc' = "open_failed"
        /\ failed_at' = pc
        /\ UNCHANGED ptrs
  /\ UNCHANGED <<role, qp_state, after, result, stuck>>

(* The message that names the device which could not be opened. *)
NameUnopenedDevice ==
  /\ pc = "open_failed"
  /\ pc' = "clean_context"
  /\ UNCHANGED <<role, live, ptrs, qp_state, after, result, failed_at, stuck>>

(* clean_context: exit(EXIT_FAILURE) *)
ExitFromInit ==
  /\ pc = "clean_context"
  /\ pc' = "exited"
  /\ result' = "EXIT_FAILURE"
  /\ UNCHANGED <<role, live, ptrs, qp_state, after, failed_at, stuck>>

--------------------------------------------------------------------------------
(* The polling loop (RdmaClient, RdmaServer) ends, with either status. *)
LeaveRun ==
  /\ pc = "run"
  /\ result' \in {"EXIT_SUCCESS", "EXIT_FAILURE"}
  /\ after' = "returned"
  /\ pc' = "free_result"
  /\ UNCHANGED <<role, live, ptrs, qp_state, failed_at, stuck>>

(* internal_rdma_cleanup returns: to the return from main, or to the exit  *)
(* that follows it in the error handling of the initialisation.            *)
EndCleanup ==
  /\ pc = "end"
  /\ pc' = after
  /\ result' = IF after = "exited" THEN "EXIT_FAILURE" ELSE result
  /\ UNCHANGED <<role, live, ptrs, qp_state, after, failed_at, stuck>>

(* The process is gone. *)
Gone == pc \in {"exited", "returned"} /\ UNCHANGED vars

Next ==
  \/ GetDeviceList \/ FindDevice \/ OpenDevice \/ NameUnopenedDevice
  \/ CallFrom(RdmaInitCalls) \/ ReleaseFrom(RdmaInitLabels) \/ ExitFromInit
  \/ role = "server" /\ CallFrom(ServerInitCalls)
  \/ role = "client" /\ CallFrom(ClientInitCalls)
  \/ ReleaseFrom(AllocateBufLabels)
  \/ LeaveRun
  \/ ReleaseFrom(CleanupCalls) \/ ReleaseFrom(InternalCleanupCalls) \/ EndCleanup
  \/ Gone

Spec == Init /\ [][Next]_vars

--------------------------------------------------------------------------------
Places ==
  {"get_device_list", "find_device", "open_device", "open_failed", "clean_context",
   "run", "end", "exited", "returned"}
  \cup DOMAIN RdmaInitCalls \cup DOMAIN RdmaInitLabels \cup DOMAIN ServerInitCalls
  \cup DOMAIN ClientInitCalls \cup DOMAIN AllocateBufLabels \cup DOMAIN CleanupCalls
  \cup DOMAIN InternalCleanupCalls

(* Every variable keeps its type, and each program only ever holds the     *)
(* handles of its own kind.                                                *)
TypeOK ==
  /\ role \in Roles
  /\ pc \in Places
  /\ live \subseteq HandlesOf(role)
  /\ ptrs \subseteq HandlesOf(role)
  /\ qp_state \in {"RESET", "INIT", "RTR", "RTS"}
  /\ after \in {"exited", "returned"}
  /\ result \in {"EXIT_SUCCESS", "EXIT_FAILURE"}
  /\ failed_at \in Places \cup {"none"}
  /\ stuck \subseteq HandlesOf(role)

(* Nothing is released while something built on it is in use: the queue    *)
(* pair goes before its queue, everything before the protection domain,    *)
(* and a buffer is freed only when the adapter can no longer reach it.     *)
(* (A handle whose release the library refused is left out of account.)    *)
NothingOutlivesItsBase == \A h \in live \ stuck : Needs(h) \subseteq live

(* Every handle that the code is about to release is live: none is NULL,   *)
(* and none is released twice, on any path through the labels of           *)
(* rdma_init, allocate_buf and the two cleanup functions.                  *)
ReleasesLive(table) ==
  pc \in DOMAIN table => table[pc].frees \in live \/ Skipped(table)

ReleasesOnlyLiveHandles ==
  /\ ReleasesLive(RdmaInitLabels)
  /\ ReleasesLive(AllocateBufLabels)
  /\ ReleasesLive(CleanupCalls)
  /\ ReleasesLive(InternalCleanupCalls)

(* "Cleanup all the global allocations done during the initialisation":    *)
(* when main returns, everything has been released.  An exit leaves to the *)
(* operating system, when no release fails, only the open device if no     *)
(* protection domain can be allocated (rdma_init jumps past clean_device), *)
(* and the result array if one of the two allocations after it fails.      *)
LeftAtExit ==
  /\ pc = "returned" => live = {}
  /\ pc = "exited" /\ stuck = {} =>
       live = CASE failed_at = "alloc_pd"            -> {"context"}
                [] failed_at \in {"sge", "requests"} -> {"result"}
                [] OTHER                             -> {}

(* The polling loops start with a queue pair that accepts their requests   *)
(* (the client sends, the server only receives), with registered buffers   *)
(* and, in the client, with the address handle of the server.              *)
ReadyToRun ==
  pc = "run" =>
    /\ qp_state = IF role = "client" THEN "RTS" ELSE "RTR"
    /\ {"queue_pair", "memory_region", "result", "scatter_gather"} \subseteq live
    /\ IF role = "client" THEN {"ah", "send_requests"} \subseteq live
                          ELSE {"header_memory_region", "recv_requests"} \subseteq live

(* sys/verbs.h on ibv_free_device_list: "Once the array is freed, pointers *)
(* to devices that were not opened with ibv_open_device() are no longer    *)
(* valid."  The device pointer is used only while it is valid.             *)
DeviceValidWhenNamed ==
  pc = "open_failed" => "dev_list" \in live \/ "context" \in live

================================================================================
