-------------------------- MODULE RdmaLifecycleProofs --------------------------
(***************************************************************************)
(* What the programs hold at every place of the initialisation and of the  *)
(* two cleanups of rdma.c, whichever call fails: the properties of         *)
(* RdmaLifecycle as theorems.                                              *)
(***************************************************************************)
EXTENDS RdmaLifecycle, TLAPS

(* What rdma_init has acquired when it returns. *)
Base == {"context", "protection_domain", "completion_queue", "queue_pair"}

(* What the buffers of allocate_buf add to it in either program. *)
Buffers(r) ==
  {"buffer", "memory_region"} \cup
  (IF r = "server" THEN {"header_buffer", "header_memory_region"} ELSE {})

(* What no label releases although the calls before the failed one got it. *)
Leak(f) == CASE f = "alloc_pd"            -> {"context"}
             [] f \in {"sge", "requests"} -> {"result"}
             [] OTHER                     -> {}

InitPlaces ==
  {"get_device_list", "find_device", "open_device"} \cup
  {"query_port", "alloc_pd", "create_cq", "create_qp", "qp_init", "qp_rtr"} \cup
  {"buffer", "reg_buffer", "header_buffer", "reg_header", "result", "sge", "requests",
   "query_gid", "query_port2", "ntop", "qp_rts", "create_ah"} \cup {"run"}

(* The initialisation has succeeded so far: what it holds at each call  *)
(* of rdma_init.                                                           *)
Acquired ==
  /\ pc \in InitPlaces => stuck = {} /\ after = "exited" /\ failed_at = "none"
  /\ pc = "get_device_list" => live = {} /\ ptrs = {}
  /\ pc \in {"find_device", "open_device"} => live = {"dev_list"} /\ ptrs = {}
  /\ pc \in InitPlaces \ {"get_device_list", "find_device", "open_device"} => ptrs = live
  /\ pc \in {"query_port", "alloc_pd"} => live = {"context"}
  /\ pc = "create_cq" => live = {"context", "protection_domain"}
  /\ pc = "create_qp" => live = {"context", "protection_domain", "completion_queue"}
  /\ pc \in {"qp_init", "qp_rtr"} => live = Base

(* ... and beyond, in rdma_init_server and rdma_init_client. *)
AcquiredAfter ==
  /\ pc = "buffer" => live = Base
  /\ pc = "reg_buffer" => live = Base \cup {"buffer"}
  /\ pc = "header_buffer" => role = "server" /\ live = Base \cup Buffers("client")
  /\ pc = "reg_header" =>
       role = "server" /\ live = Base \cup Buffers("client") \cup {"header_buffer"}
  /\ pc = "result" => live = Base \cup Buffers(role)
  /\ pc = "sge" => live = Base \cup Buffers(role) \cup {"result"}
  /\ pc = "requests" => live = Base \cup Buffers(role) \cup {"result", "scatter_gather"}
  /\ pc \in {"query_gid", "query_port2", "ntop"} =>
       role = "server" /\ live = HandlesOf(role) \ {"dev_list"}
  /\ pc \in {"qp_rts", "create_ah"} =>
       role = "client" /\ live = HandlesOf(role) \ {"dev_list", "ah"}
  /\ pc = "run" => live = HandlesOf(role) \ {"dev_list"}

(* The queue pair on the way to its last state. *)
QueuePair ==
  /\ pc \in {"buffer", "reg_buffer", "header_buffer", "reg_header", "result", "sge",
             "requests", "query_gid", "query_port2", "ntop", "qp_rts"} => qp_state = "RTR"
  /\ pc = "create_ah" => qp_state = "RTS"
  /\ pc = "run" => qp_state = IF role = "client" THEN "RTS" ELSE "RTR"

(* What the labels of rdma_init release from one of them on. *)
LabelsFrom(p) ==
  CASE p = "clean_queue_pair"        -> Base
    [] p = "clean_completion_queue"  -> Base \ {"queue_pair"}
    [] p = "clean_protection_domain" -> {"context", "protection_domain"}
    [] p = "clean_device"            -> {"context"}
    [] p = "clean_context"           -> {}

LabelPlaces == {"clean_queue_pair", "clean_completion_queue", "clean_protection_domain",
                "clean_device", "clean_context"}

(* The labels of rdma_init and of allocate_buf: what is left, besides what *)
(* could not be released.                                                  *)
AtLabels ==
  /\ pc \in LabelPlaces =>
       /\ live = LabelsFrom(pc) \cup stuck \cup Leak(failed_at)
       /\ stuck \cap LabelsFrom(pc) = {}
       /\ failed_at \in {"open_device", "query_port", "alloc_pd", "create_cq", "create_qp",
                         "qp_init", "qp_rtr"}
       /\ failed_at = "alloc_pd" => pc = "clean_context" /\ stuck = {}
  /\ pc = "open_failed" =>
       live = {} /\ ptrs = {} /\ stuck = {} /\ failed_at = "open_device"
  /\ pc \in {"clean_buf", "clean_header_buf"} => ptrs = live /\ stuck = {} /\ after = "exited"
  /\ pc = "clean_buf" => live = Base \cup {"buffer"} /\ failed_at = "reg_buffer"
  /\ pc = "clean_header_buf" =>
       /\ live = Base \cup Buffers("client") \cup {"header_buffer"}
       /\ failed_at = "reg_header"

(* What rdma_cleanup and internal_rdma_cleanup release from a place on. *)
Rest(p) ==
  CASE p = "free_result"        -> Handles \ {"dev_list"}
    [] p = "cleanup"            -> Handles \ {"dev_list", "result"}
    [] p = "free_buffer"        -> Handles \ {"dev_list", "result", "memory_region"}
    [] p = "dereg_header"       ->
         Base \cup {"ah", "send_requests", "recv_requests", "scatter_gather",
                    "header_buffer", "header_memory_region"}
    [] p = "free_header"        ->
         Base \cup {"ah", "send_requests", "recv_requests", "scatter_gather",
                    "header_buffer"}
    [] p = "free_sge"           ->
         Base \cup {"ah", "send_requests", "recv_requests", "scatter_gather"}
    [] p = "free_recv_requests" -> Base \cup {"ah", "send_requests", "recv_requests"}
    [] p = "free_send_requests" -> Base \cup {"ah", "send_requests"}
    [] p = "destroy_ah"         -> Base \cup {"ah"}
    [] p = "destroy_qp"         -> Base
    [] p = "destroy_cq"         -> Base \ {"queue_pair"}
    [] p = "dealloc_pd"         -> {"context", "protection_domain"}
    [] p = "close_device"       -> {"context"}
    [] p = "end"                -> {}

CleanupPlaces ==
  {"free_result", "cleanup", "free_buffer", "dereg_header", "free_header", "free_sge",
   "free_recv_requests", "free_send_requests", "destroy_ah", "destroy_qp", "destroy_cq",
   "dealloc_pd", "close_device"}

(* A cleanup has what it releases without a test, and what it still has to *)
(* release is what the initialisation has acquired of it.                  *)
CleaningUp ==
  pc \in CleanupPlaces \cup {"end"} =>
    /\ stuck = {}
    /\ live = (ptrs \cap Rest(pc)) \cup Leak(failed_at)
    /\ Rest(pc) \ Tested \subseteq ptrs
    /\ \A h \in ptrs : Needs(h) \subseteq ptrs
    /\ failed_at # "alloc_pd"
    /\ pc = "free_result" => Leak(failed_at) = {}
    /\ after = "returned" => failed_at = "none"

(* The inductive invariant. *)
LifeInv ==
  TypeOK /\ Acquired /\ AcquiredAfter /\ QueuePair /\ AtLabels /\ CleaningUp
  /\ NothingOutlivesItsBase /\ LeftAtExit

--------------------------------------------------------------------------------
(* The places that the tables name. *)
LEMMA PlacesAre ==
  Places = InitPlaces \cup LabelPlaces \cup CleanupPlaces \cup
           {"open_failed", "clean_buf", "clean_header_buf", "end", "exited", "returned"}
BY DEF Places, RdmaInitCalls, RdmaInitLabels, ServerInitCalls, ClientInitCalls,
       AllocateBufLabels, CleanupCalls, InternalCleanupCalls, InitPlaces, LabelPlaces,
       CleanupPlaces

(* The invariant holds at the start. *)
LEMMA LifeInit == Init => LifeInv
<1> SUFFICES ASSUME Init PROVE LifeInv
  OBVIOUS
<1>1. TypeOK
  BY PlacesAre, RolesAssumption DEF Init, TypeOK, InitPlaces
<1>2. Acquired /\ AcquiredAfter /\ QueuePair /\ AtLabels /\ CleaningUp
  BY DEF Init, Acquired, AcquiredAfter, QueuePair, AtLabels, CleaningUp, InitPlaces,
         LabelPlaces, CleanupPlaces
<1>3. NothingOutlivesItsBase /\ LeftAtExit
  BY DEF Init, NothingOutlivesItsBase, LeftAtExit
<1>4. QED
  BY <1>1, <1>2, <1>3 DEF LifeInv

(* A call that gets G and puts the queue pair into the state Q. *)
Called(G, Q, ok, fail) ==
  /\ \/ /\ live' = live \cup G
        /\ ptrs' = ptrs \cup G
        /\ qp_state' = IF Q = "same" THEN qp_state ELSE Q
        /\ pc' = ok
        /\ UNCHANGED failed_at
     \/ /\ pc' = fail
        /\ failed_at' = pc
        /\ UNCHANGED <<live, ptrs, qp_state>>
  /\ UNCHANGED <<role, after, result, stuck>>

(* Such a call keeps the types, if its entry in the table does. *)
LEMMA CalledTyped ==
  ASSUME TypeOK, NEW G \in SUBSET HandlesOf(role), NEW Q \in {"same", "INIT", "RTR", "RTS"},
         NEW ok \in Places, NEW fail \in Places, Called(G, Q, ok, fail)
  PROVE  TypeOK'
BY DEF Called, TypeOK

(* The calls of rdma_init, one by one. *)
LEMMA RdmaInitTable ==
  ASSUME CallFrom(RdmaInitCalls)
  PROVE  \/ pc = "query_port" /\ Called({}, "same", "alloc_pd", "clean_device")
         \/ pc = "alloc_pd" /\ Called({"protection_domain"}, "same", "create_cq", "clean_context")
         \/ pc = "create_cq" /\ Called({"completion_queue"}, "same", "create_qp", "clean_protection_domain")
         \/ pc = "create_qp" /\ Called({"queue_pair"}, "same", "qp_init", "clean_completion_queue")
         \/ pc = "qp_init" /\ Called({}, "INIT", "qp_rtr", "clean_queue_pair")
         \/ pc = "qp_rtr" /\ Called({}, "RTR", "buffer", "clean_queue_pair")
<1>1. pc \in {"query_port", "alloc_pd", "create_cq", "create_qp", "qp_init", "qp_rtr"}
  BY DEF CallFrom, RdmaInitCalls
<1> USE DEF CallFrom, RdmaInitCalls, Get, Query, ModifyQp, Called
<1>2. CASE pc = "query_port"
  BY <1>2
<1>3. CASE pc = "alloc_pd"
  BY <1>3
<1>4. CASE pc = "create_cq"
  BY <1>4
<1>5. CASE pc = "create_qp"
  BY <1>5
<1>6. CASE pc = "qp_init"
  BY <1>6
<1>7. CASE pc = "qp_rtr"
  BY <1>7
<1>8. QED
  BY <1>1, <1>2, <1>3, <1>4, <1>5, <1>6, <1>7

(* The calls of rdma_init_server, one by one. *)
LEMMA ServerInitTable ==
  ASSUME CallFrom(ServerInitCalls)
  PROVE  \/ pc = "buffer" /\ Called({"buffer"}, "same", "reg_buffer", "destroy_ah")
         \/ pc = "reg_buffer" /\ Called({"memory_region"}, "same", "header_buffer", "clean_buf")
         \/ pc = "header_buffer" /\ Called({"header_buffer"}, "same", "reg_header", "cleanup")
         \/ pc = "reg_header" /\ Called({"header_memory_region"}, "same", "result", "clean_header_buf")
         \/ pc = "result" /\ Called({"result"}, "same", "sge", "cleanup")
         \/ pc = "sge" /\ Called({"scatter_gather"}, "same", "requests", "cleanup")
         \/ pc = "requests" /\ Called({"recv_requests"}, "same", "query_gid", "cleanup")
         \/ pc = "query_gid" /\ Called({}, "same", "query_port2", "free_result")
         \/ pc = "query_port2" /\ Called({}, "same", "ntop", "free_result")
         \/ pc = "ntop" /\ Called({}, "same", "run", "free_result")
<1>1. pc \in {"buffer", "reg_buffer", "header_buffer", "reg_header", "result", "sge",
             "requests", "query_gid", "query_port2", "ntop"}
  BY DEF CallFrom, ServerInitCalls
<1> USE DEF CallFrom, ServerInitCalls, Get, Query, ModifyQp, Called
<1>2. CASE pc = "buffer"
  BY <1>2
<1>3. CASE pc = "reg_buffer"
  BY <1>3
<1>4. CASE pc = "header_buffer"
  BY <1>4
<1>5. CASE pc = "reg_header"
  BY <1>5
<1>6. CASE pc = "result"
  BY <1>6
<1>7. CASE pc = "sge"
  BY <1>7
<1>8. CASE pc = "requests"
  BY <1>8
<1>9. CASE pc = "query_gid"
  BY <1>9
<1>10. CASE pc = "query_port2"
  BY <1>10
<1>11. CASE pc = "ntop"
  BY <1>11
<1> HIDE DEF CallFrom, ServerInitCalls, Get, Query, ModifyQp, Called
<1>12. QED
  BY <1>1, <1>2, <1>3, <1>4, <1>5, <1>6, <1>7, <1>8, <1>9, <1>10, <1>11

(* The calls of rdma_init_client, one by one. *)
LEMMA ClientInitTable ==
  ASSUME CallFrom(ClientInitCalls)
  PROVE  \/ pc = "buffer" /\ Called({"buffer"}, "same", "reg_buffer", "destroy_ah")
         \/ pc = "reg_buffer" /\ Called({"memory_region"}, "same", "result", "clean_buf")
         \/ pc = "result" /\ Called({"result"}, "same", "sge", "cleanup")
         \/ pc = "sge" /\ Called({"scatter_gather"}, "same", "requests", "cleanup")
         \/ pc = "requests" /\ Called({"send_requests"}, "same", "qp_rts", "cleanup")
         \/ pc = "qp_rts" /\ Called({}, "RTS", "create_ah", "free_result")
         \/ pc = "create_ah" /\ Called({"ah"}, "same", "run", "free_result")
<1>1. pc \in {"buffer", "reg_buffer", "result", "sge", "requests", "qp_rts",
             "create_ah"}
  BY DEF CallFrom, ClientInitCalls
<1> USE DEF CallFrom, ClientInitCalls, Get, Query, ModifyQp, Called
<1>2. CASE pc = "buffer"
  BY <1>2
<1>3. CASE pc = "reg_buffer"
  BY <1>3
<1>4. CASE pc = "result"
  BY <1>4
<1>5. CASE pc = "sge"
  BY <1>5
<1>6. CASE pc = "requests"
  BY <1>6
<1>7. CASE pc = "qp_rts"
  BY <1>7
<1>8. CASE pc = "create_ah"
  BY <1>8
<1>9. QED
  BY <1>1, <1>2, <1>3, <1>4, <1>5, <1>6, <1>7, <1>8

(* The calls of rdma_init preserve the invariant. *)
LEMMA InitCalls == LifeInv /\ CallFrom(RdmaInitCalls) => LifeInv'
<1> SUFFICES ASSUME LifeInv, CallFrom(RdmaInitCalls)
             PROVE  LifeInv'
  OBVIOUS
<1>0. TypeOK /\ Acquired
  BY DEF LifeInv
<1>1. TypeOK'
  <2>1. {{}, {"protection_domain"}, {"completion_queue"}, {"queue_pair"}}
          \subseteq SUBSET HandlesOf(role)
    BY DEF HandlesOf, Handles
  <2>2. InitPlaces \cup LabelPlaces \subseteq Places
    BY PlacesAre
  <2>3. QED
    BY <1>0, <2>1, <2>2, RdmaInitTable, CalledTyped DEF InitPlaces, LabelPlaces
<1> USE RdmaInitTable DEF Called, InitPlaces, Base
<1>2. Acquired'
  BY <1>0 DEF Acquired
<1>3. AcquiredAfter'
  BY <1>0 DEF Acquired, AcquiredAfter
<1>4. QueuePair'
  BY DEF QueuePair
<1>5. AtLabels'
  BY <1>0 DEF Acquired, AtLabels, LabelPlaces, LabelsFrom, Leak
<1>6. CleaningUp'
  BY DEF CleaningUp, CleanupPlaces
<1>7. NothingOutlivesItsBase'
  BY <1>0 DEF Acquired, NothingOutlivesItsBase, Needs
<1>8. LeftAtExit'
  BY DEF LeftAtExit
<1>9. QED
  BY <1>1, <1>2, <1>3, <1>4, <1>5, <1>6, <1>7, <1>8 DEF LifeInv

(* The calls of rdma_init_server preserve the invariant. *)
LEMMA ServerCalls == LifeInv /\ role = "server" /\ CallFrom(ServerInitCalls) => LifeInv'
<1> SUFFICES ASSUME LifeInv, role = "server", CallFrom(ServerInitCalls)
             PROVE  LifeInv'
  OBVIOUS
<1>0. TypeOK /\ Acquired /\ AcquiredAfter /\ QueuePair
  BY DEF LifeInv
<1>1. TypeOK'
  <2>1. {{}, {"buffer"}, {"memory_region"}, {"header_buffer"}, {"header_memory_region"},
          {"result"}, {"scatter_gather"}, {"recv_requests"}}
          \subseteq SUBSET HandlesOf(role)
    BY DEF HandlesOf, Handles
  <2>2. InitPlaces \cup CleanupPlaces \cup {"clean_buf", "clean_header_buf"} \subseteq Places
    BY PlacesAre
  <2>3. QED
    BY <1>0, <2>1, <2>2, ServerInitTable, CalledTyped DEF InitPlaces, CleanupPlaces
<1> USE ServerInitTable DEF Called, InitPlaces, Base
<1>2. Acquired'
  BY <1>0 DEF Acquired
<1>3. AcquiredAfter'
  BY <1>0 DEF AcquiredAfter, Buffers, HandlesOf, Handles
<1>4. QueuePair'
  BY <1>0 DEF QueuePair
<1>5. AtLabels'
  BY <1>0 DEF Acquired, AcquiredAfter, AtLabels, LabelPlaces, Buffers
<1>6. CleaningUp'
  BY <1>0 DEF Acquired, AcquiredAfter, CleaningUp, CleanupPlaces, Buffers, HandlesOf,
              Handles, Rest, Leak, Tested, Needs
<1>7. NothingOutlivesItsBase'
  BY <1>0 DEF Acquired, AcquiredAfter, NothingOutlivesItsBase, Needs, Buffers, HandlesOf,
              Handles
<1>8. LeftAtExit'
  BY DEF LeftAtExit
<1>9. QED
  BY <1>1, <1>2, <1>3, <1>4, <1>5, <1>6, <1>7, <1>8 DEF LifeInv

(* The calls of rdma_init_client preserve the invariant. *)
LEMMA ClientCalls == LifeInv /\ role = "client" /\ CallFrom(ClientInitCalls) => LifeInv'
<1> SUFFICES ASSUME LifeInv, role = "client", CallFrom(ClientInitCalls)
             PROVE  LifeInv'
  OBVIOUS
<1>0. TypeOK /\ Acquired /\ AcquiredAfter /\ QueuePair
  BY DEF LifeInv
<1>1. TypeOK'
  <2>1. {{}, {"buffer"}, {"memory_region"}, {"result"}, {"scatter_gather"},
          {"send_requests"}, {"ah"}}
          \subseteq SUBSET HandlesOf(role)
    BY DEF HandlesOf, Handles
  <2>2. InitPlaces \cup CleanupPlaces \cup {"clean_buf", "clean_header_buf"} \subseteq Places
    BY PlacesAre
  <2>3. QED
    BY <1>0, <2>1, <2>2, ClientInitTable, CalledTyped DEF InitPlaces, CleanupPlaces
<1> USE ClientInitTable DEF Called, InitPlaces, Base
<1>2. Acquired'
  BY <1>0 DEF Acquired
<1>3. AcquiredAfter'
  BY <1>0 DEF AcquiredAfter, Buffers, HandlesOf, Handles
<1>4. QueuePair'
  BY <1>0 DEF QueuePair
<1>5. AtLabels'
  BY <1>0 DEF Acquired, AcquiredAfter, AtLabels, LabelPlaces, Buffers
<1>6. CleaningUp'
  BY <1>0 DEF Acquired, AcquiredAfter, CleaningUp, CleanupPlaces, Buffers, HandlesOf,
              Handles, Rest, Leak, Tested, Needs
<1>7. NothingOutlivesItsBase'
  BY <1>0 DEF Acquired, AcquiredAfter, NothingOutlivesItsBase, Needs, Buffers, HandlesOf,
              Handles
<1>8. LeftAtExit'
  BY DEF LeftAtExit
<1>9. QED
  BY <1>1, <1>2, <1>3, <1>4, <1>5, <1>6, <1>7, <1>8 DEF LifeInv

--------------------------------------------------------------------------------
(* A release of h that may fail, or not when fail is "never". *)
Released(h, fail, to) ==
  /\ \/ /\ h \in Tested \ ptrs
        /\ pc' = to
        /\ UNCHANGED <<live, stuck, result>>
     \/ /\ h \notin Tested \ ptrs
        /\ live' = live \ {h}
        /\ pc' = to
        /\ UNCHANGED <<stuck, result>>
     \/ /\ h \notin Tested \ ptrs
        /\ fail # "never"
        /\ stuck' = stuck \cup {h}
        /\ pc' = fail
        /\ result' = "EXIT_FAILURE"
        /\ UNCHANGED live
  /\ UNCHANGED <<role, qp_state, after, failed_at>>

(* It keeps the types, if its entry in the table does. *)
LEMMA ReleasedTyped ==
  ASSUME TypeOK, NEW h, NEW fail \in Places \cup {"never"}, NEW to \in Places,
         Released(h, fail, to), h \in HandlesOf(role) \/ fail = "never", ptrs' \subseteq ptrs
  PROVE  TypeOK'
BY DEF Released, TypeOK

(* The labels of rdma_init, one by one. *)
LEMMA LabelsTable ==
  ASSUME ReleaseFrom(RdmaInitLabels)
  PROVE  /\ UNCHANGED ptrs
         /\ \/ /\ pc = "clean_queue_pair"
               /\ Released("queue_pair", "clean_completion_queue", "clean_completion_queue")
            \/ /\ pc = "clean_completion_queue"
               /\ Released("completion_queue", "clean_protection_domain",
                           "clean_protection_domain")
            \/ /\ pc = "clean_protection_domain"
               /\ Released("protection_domain", "clean_device", "clean_device")
            \/ /\ pc = "clean_device"
               /\ Released("context", "clean_context", "clean_context")
BY DEF ReleaseFrom, Skipped, RdmaInitLabels, AllocateBufLabels, Discard, Free, Released

(* The labels of allocate_buf; they reset the pointer. *)
LEMMA AllocateTable ==
  ASSUME ReleaseFrom(AllocateBufLabels)
  PROVE  \/ /\ pc = "clean_buf"
            /\ Released("buffer", "never", "destroy_ah")
            /\ ptrs' = ptrs \ {"buffer"}
         \/ /\ pc = "clean_header_buf"
            /\ Released("header_buffer", "never", "cleanup")
            /\ ptrs' = ptrs \ {"header_buffer"}
BY DEF ReleaseFrom, Skipped, AllocateBufLabels, Free, Released

(* The releases of rdma_cleanup, one by one. *)
LEMMA CleanupTable ==
  ASSUME ReleaseFrom(CleanupCalls)
  PROVE  /\ UNCHANGED ptrs
         /\ \/ pc = "free_result" /\ Released("result", "never", "cleanup")
            \/ pc = "cleanup" /\ Released("memory_region", "exited", "free_buffer")
            \/ pc = "free_buffer" /\ Released("buffer", "never", "dereg_header")
            \/ /\ pc = "dereg_header"
               /\ Released("header_memory_region", "exited", "free_header")
            \/ pc = "free_header" /\ Released("header_buffer", "never", "free_sge")
            \/ pc = "free_sge" /\ Released("scatter_gather", "never", "free_recv_requests")
            \/ /\ pc = "free_recv_requests"
               /\ Released("recv_requests", "never", "free_send_requests")
            \/ /\ pc = "free_send_requests"
               /\ Released("send_requests", "never", "destroy_ah")
BY DEF ReleaseFrom, Skipped, CleanupCalls, AllocateBufLabels, Free, Destroy, Released

(* The releases of internal_rdma_cleanup, one by one. *)
LEMMA InternalTable ==
  ASSUME ReleaseFrom(InternalCleanupCalls)
  PROVE  /\ UNCHANGED ptrs
         /\ \/ pc = "destroy_ah" /\ Released("ah", "exited", "destroy_qp")
            \/ pc = "destroy_qp" /\ Released("queue_pair", "exited", "destroy_cq")
            \/ pc = "destroy_cq" /\ Released("completion_queue", "exited", "dealloc_pd")
            \/ pc = "dealloc_pd" /\ Released("protection_domain", "exited", "close_device")
            \/ pc = "close_device" /\ Released("context", "exited", "end")
BY DEF ReleaseFrom, Skipped, InternalCleanupCalls, AllocateBufLabels, Free, Destroy, Released

(* The labels of rdma_init preserve the invariant, whichever of the        *)
(* releases fail.                                                          *)
LEMMA InitLabels == LifeInv /\ ReleaseFrom(RdmaInitLabels) => LifeInv'
<1> SUFFICES ASSUME LifeInv, ReleaseFrom(RdmaInitLabels)
             PROVE  LifeInv'
  OBVIOUS
<1>0. TypeOK /\ AtLabels
  BY DEF LifeInv
<1>1. TypeOK'
  <2>1. {"queue_pair", "completion_queue", "protection_domain", "context"}
          \subseteq HandlesOf(role)
    BY DEF HandlesOf, Handles
  <2>2. LabelPlaces \subseteq Places
    BY PlacesAre
  <2>3. QED
    BY <1>0, <2>1, <2>2, LabelsTable, ReleasedTyped DEF LabelPlaces
<1> USE LabelsTable DEF Released, LabelPlaces, Base
<1>2. Acquired' /\ AcquiredAfter' /\ QueuePair'
  BY DEF Acquired, AcquiredAfter, QueuePair, InitPlaces
<1>3. AtLabels'
  BY <1>0 DEF AtLabels, LabelsFrom, Leak, Tested
<1>4. CleaningUp' /\ LeftAtExit'
  BY DEF CleaningUp, CleanupPlaces, LeftAtExit
<1>5. NothingOutlivesItsBase'
  BY <1>0, <1>3 DEF AtLabels, LabelsFrom, Leak, NothingOutlivesItsBase, Needs
<1>6. QED
  BY <1>1, <1>2, <1>3, <1>4, <1>5 DEF LifeInv

(* So do the labels of allocate_buf. *)
LEMMA AllocateLabels == LifeInv /\ ReleaseFrom(AllocateBufLabels) => LifeInv'
<1> SUFFICES ASSUME LifeInv, ReleaseFrom(AllocateBufLabels)
             PROVE  LifeInv'
  OBVIOUS
<1>0. TypeOK /\ AtLabels
  BY DEF LifeInv
<1>1. TypeOK'
  <2>1. {"destroy_ah", "cleanup"} \subseteq Places
    BY PlacesAre DEF CleanupPlaces
  <2>2. QED
    BY <1>0, <2>1, AllocateTable, ReleasedTyped
<1> USE AllocateTable DEF Released, Base
<1>2. Acquired' /\ AcquiredAfter' /\ QueuePair'
  BY DEF Acquired, AcquiredAfter, QueuePair, InitPlaces
<1>3. AtLabels' /\ LeftAtExit'
  BY DEF AtLabels, LabelPlaces, LeftAtExit
<1>4. CleaningUp'
  BY <1>0 DEF AtLabels, CleaningUp, Buffers, Rest, Leak, Tested, Needs, Handles
<1>5. NothingOutlivesItsBase'
  BY <1>0 DEF AtLabels, Buffers, NothingOutlivesItsBase, Needs, Tested
<1>6. QED
  BY <1>1, <1>2, <1>3, <1>4, <1>5 DEF LifeInv

(* What is released later does not need what is released earlier. *)
LEMMA RestClosed ==
  ASSUME NEW p \in CleanupPlaces \cup {"end"}, NEW h \in Rest(p)
  PROVE  Needs(h) \subseteq Rest(p)
BY DEF CleanupPlaces, Rest, Handles, Base, Needs

(* h is what is released at p before the cleanup goes on to q. *)
Releases(p, h, q) == h \in Rest(p) /\ Rest(q) = Rest(p) \ {h}

(* What each place of the cleanups takes off the rest. *)
LEMMA RestSteps ==
  /\ Releases("free_result", "result", "cleanup")
  /\ Releases("cleanup", "memory_region", "free_buffer")
  /\ Releases("free_buffer", "buffer", "dereg_header")
  /\ Releases("dereg_header", "header_memory_region", "free_header")
  /\ Releases("free_header", "header_buffer", "free_sge")
  /\ Releases("free_sge", "scatter_gather", "free_recv_requests")
  /\ Releases("free_recv_requests", "recv_requests", "free_send_requests")
  /\ Releases("free_send_requests", "send_requests", "destroy_ah")
  /\ Releases("destroy_ah", "ah", "destroy_qp")
  /\ Releases("destroy_qp", "queue_pair", "destroy_cq")
  /\ Releases("destroy_cq", "completion_queue", "dealloc_pd")
  /\ Releases("dealloc_pd", "protection_domain", "close_device")
  /\ Releases("close_device", "context", "end")
BY DEF Releases, Rest, Handles, Base

(* One release of the two cleanups. *)
LEMMA CleanupStep ==
  ASSUME LifeInv, pc \in CleanupPlaces,
         NEW h, NEW fail \in {"never", "exited"}, NEW to \in CleanupPlaces \cup {"end"},
         Released(h, fail, to), UNCHANGED ptrs,
         Releases(pc, h, to), to # "free_result",
         h = "result" => pc = "free_result"
  PROVE  LifeInv'
<1>0. TypeOK /\ CleaningUp /\ NothingOutlivesItsBase
  BY DEF LifeInv
<1>a. h \in Rest(pc) /\ Rest(to) = Rest(pc) \ {h}
  BY DEF Releases
<1>b. h \in HandlesOf(role) \/ h \in Tested \ ptrs
  BY <1>0, <1>a DEF CleaningUp, TypeOK
<1>1. TypeOK'
  BY <1>0, <1>b, PlacesAre DEF TypeOK, Released, CleanupPlaces
<1>2. Acquired' /\ AcquiredAfter' /\ QueuePair' /\ AtLabels'
  BY DEF Released, Acquired, AcquiredAfter, QueuePair, AtLabels, InitPlaces, LabelPlaces,
         CleanupPlaces
<1>3. CASE pc' = to /\ UNCHANGED stuck
  <2>1. h \notin Leak(failed_at)
    BY <1>0 DEF CleaningUp, Leak
  <2>2. live' = (ptrs' \cap Rest(to)) \cup Leak(failed_at')
    <3>1. stuck = {} /\ live = (ptrs \cap Rest(pc)) \cup Leak(failed_at)
      BY <1>0 DEF CleaningUp
    <3>2. UNCHANGED <<ptrs, failed_at>>
      BY DEF Released
    <3>3. CASE h \in Tested \ ptrs /\ UNCHANGED live
      BY <1>a, <3>1, <3>2, <3>3
    <3>4. CASE live' = live \ {h}
      BY <1>a, <2>1, <3>1, <3>2, <3>4
    <3>5. QED
      BY <1>3, <3>1, <3>3, <3>4 DEF Released
  <2>3. CleaningUp'
    BY <1>0, <1>a, <1>3, <2>2 DEF CleaningUp, Released
  <2>4. NothingOutlivesItsBase'
    BY <1>0, <2>2, RestClosed DEF CleaningUp, NothingOutlivesItsBase, Released, Leak, Needs
  <2>5. LeftAtExit'
    BY <1>3 DEF LeftAtExit, CleanupPlaces
  <2>6. QED
    BY <1>1, <1>2, <2>3, <2>4, <2>5 DEF LifeInv
<1>4. CASE pc' = "exited" /\ live' = live /\ stuck' = stuck \cup {h}
  <2>1. CleaningUp' /\ LeftAtExit'
    BY <1>4 DEF CleaningUp, CleanupPlaces, LeftAtExit
  <2>2. NothingOutlivesItsBase'
    BY <1>0, <1>4 DEF NothingOutlivesItsBase
  <2>3. QED
    BY <1>1, <1>2, <2>1, <2>2 DEF LifeInv
<1>5. QED
  BY <1>3, <1>4 DEF Released

(* rdma_cleanup preserves the invariant. *)
LEMMA CleanupCall == LifeInv /\ ReleaseFrom(CleanupCalls) => LifeInv'
<1> SUFFICES ASSUME LifeInv, ReleaseFrom(CleanupCalls)
             PROVE  LifeInv'
  OBVIOUS
<1>0. UNCHANGED ptrs
  BY CleanupTable
<1> USE CleanupStep, RestSteps DEF CleanupPlaces
<1>1. CASE pc = "free_result" /\ Released("result", "never", "cleanup")
  BY <1>0, <1>1
<1>2. CASE pc = "cleanup" /\ Released("memory_region", "exited", "free_buffer")
  BY <1>0, <1>2
<1>3. CASE pc = "free_buffer" /\ Released("buffer", "never", "dereg_header")
  BY <1>0, <1>3
<1>4. CASE pc = "dereg_header" /\ Released("header_memory_region", "exited", "free_header")
  BY <1>0, <1>4
<1>5. CASE pc = "free_header" /\ Released("header_buffer", "never", "free_sge")
  BY <1>0, <1>5
<1>6. CASE pc = "free_sge" /\ Released("scatter_gather", "never", "free_recv_requests")
  BY <1>0, <1>6
<1>7. CASE pc = "free_recv_requests" /\ Released("recv_requests", "never", "free_send_requests")
  BY <1>0, <1>7
<1>8. CASE pc = "free_send_requests" /\ Released("send_requests", "never", "destroy_ah")
  BY <1>0, <1>8
<1>9. QED
  BY <1>1, <1>2, <1>3, <1>4, <1>5, <1>6, <1>7, <1>8, CleanupTable

(* internal_rdma_cleanup preserves the invariant. *)
LEMMA InternalCall == LifeInv /\ ReleaseFrom(InternalCleanupCalls) => LifeInv'
<1> SUFFICES ASSUME LifeInv, ReleaseFrom(InternalCleanupCalls)
             PROVE  LifeInv'
  OBVIOUS
<1>0. UNCHANGED ptrs
  BY InternalTable
<1> USE CleanupStep, RestSteps DEF CleanupPlaces
<1>1. CASE pc = "destroy_ah" /\ Released("ah", "exited", "destroy_qp")
  BY <1>0, <1>1
<1>2. CASE pc = "destroy_qp" /\ Released("queue_pair", "exited", "destroy_cq")
  BY <1>0, <1>2
<1>3. CASE pc = "destroy_cq" /\ Released("completion_queue", "exited", "dealloc_pd")
  BY <1>0, <1>3
<1>4. CASE pc = "dealloc_pd" /\ Released("protection_domain", "exited", "close_device")
  BY <1>0, <1>4
<1>5. CASE pc = "close_device" /\ Released("context", "exited", "end")
  BY <1>0, <1>5
<1>6. QED
  BY <1>1, <1>2, <1>3, <1>4, <1>5, InternalTable

--------------------------------------------------------------------------------
(* The device list and the device. *)
LEMMA OpenCalls ==
  LifeInv /\ (GetDeviceList \/ FindDevice \/ OpenDevice \/ NameUnopenedDevice) => LifeInv'
<1> SUFFICES ASSUME LifeInv, GetDeviceList \/ FindDevice \/ OpenDevice \/ NameUnopenedDevice
             PROVE  LifeInv'
  OBVIOUS
<1>0. TypeOK /\ Acquired /\ AtLabels
  BY DEF LifeInv
<1> USE DEF GetDeviceList, FindDevice, OpenDevice, NameUnopenedDevice
<1>1. TypeOK'
  <2>1. {"dev_list", "context"} \subseteq HandlesOf(role)
    BY DEF HandlesOf, Handles
  <2>2. {"find_device", "open_device", "query_port", "open_failed", "clean_context", "exited"}
          \subseteq Places
    BY PlacesAre DEF InitPlaces, LabelPlaces
  <2>3. QED
    BY <1>0, <2>1, <2>2 DEF TypeOK
<1> USE DEF InitPlaces
<1>2. Acquired' /\ AcquiredAfter' /\ QueuePair'
  BY <1>0 DEF Acquired, AcquiredAfter, QueuePair
<1>3. AtLabels'
  BY <1>0 DEF Acquired, AtLabels, LabelPlaces, LabelsFrom, Leak
<1>4. CleaningUp' /\ LeftAtExit'
  BY <1>0 DEF Acquired, CleaningUp, CleanupPlaces, LeftAtExit
<1>5. NothingOutlivesItsBase'
  BY <1>0 DEF Acquired, AtLabels, NothingOutlivesItsBase, Needs
<1>6. QED
  BY <1>1, <1>2, <1>3, <1>4, <1>5 DEF LifeInv

(* The exit at clean_context. *)
LEMMA ExitStep == LifeInv /\ ExitFromInit => LifeInv'
<1> SUFFICES ASSUME LifeInv, ExitFromInit
             PROVE  LifeInv'
  OBVIOUS
<1>0. TypeOK /\ AtLabels /\ NothingOutlivesItsBase
  BY DEF LifeInv
<1>1. TypeOK'
  BY <1>0, PlacesAre DEF ExitFromInit, TypeOK
<1>2. Acquired' /\ AcquiredAfter' /\ QueuePair' /\ AtLabels' /\ CleaningUp'
  BY DEF ExitFromInit, Acquired, AcquiredAfter, QueuePair, AtLabels, CleaningUp, InitPlaces,
         LabelPlaces, CleanupPlaces
<1>3. NothingOutlivesItsBase'
  BY <1>0 DEF ExitFromInit, NothingOutlivesItsBase
<1>4. LeftAtExit'
  BY <1>0 DEF ExitFromInit, LeftAtExit, AtLabels, LabelPlaces, LabelsFrom, Leak
<1>5. QED
  BY <1>1, <1>2, <1>3, <1>4 DEF LifeInv

(* The end of the polling loop: what was acquired is all there. *)
LEMMA LeaveStep == LifeInv /\ LeaveRun => LifeInv'
<1> SUFFICES ASSUME LifeInv, LeaveRun
             PROVE  LifeInv'
  OBVIOUS
<1>0. TypeOK /\ Acquired /\ AcquiredAfter /\ NothingOutlivesItsBase
  BY DEF LifeInv
<1>1. TypeOK'
  BY <1>0, PlacesAre DEF LeaveRun, TypeOK, CleanupPlaces
<1>2. Acquired' /\ AcquiredAfter' /\ QueuePair' /\ AtLabels' /\ LeftAtExit'
  BY DEF LeaveRun, Acquired, AcquiredAfter, QueuePair, AtLabels, LeftAtExit, InitPlaces,
         LabelPlaces
<1>3. NothingOutlivesItsBase'
  BY <1>0 DEF LeaveRun, NothingOutlivesItsBase
<1>4. role \in {"server", "client"}
  BY <1>0, RolesAssumption DEF TypeOK
<1>5. CleaningUp'
  BY <1>0, <1>4 DEF LeaveRun, CleaningUp, CleanupPlaces, Acquired, AcquiredAfter, InitPlaces,
                    HandlesOf, Handles, Rest, Leak, Tested, Needs
<1>6. QED
  BY <1>1, <1>2, <1>3, <1>5 DEF LifeInv

(* The return from internal_rdma_cleanup. *)
LEMMA EndStep == LifeInv /\ EndCleanup => LifeInv'
<1> SUFFICES ASSUME LifeInv, EndCleanup
             PROVE  LifeInv'
  OBVIOUS
<1>0. TypeOK /\ CleaningUp /\ NothingOutlivesItsBase
  BY DEF LifeInv
<1>1. TypeOK'
  BY <1>0, PlacesAre DEF EndCleanup, TypeOK
<1>2. Acquired' /\ AcquiredAfter' /\ QueuePair' /\ AtLabels' /\ CleaningUp'
  BY <1>0 DEF EndCleanup, TypeOK, Acquired, AcquiredAfter, QueuePair, AtLabels, CleaningUp,
              InitPlaces, LabelPlaces, CleanupPlaces
<1>3. NothingOutlivesItsBase'
  BY <1>0 DEF EndCleanup, NothingOutlivesItsBase
<1>4. LeftAtExit'
  BY <1>0 DEF EndCleanup, TypeOK, LeftAtExit, CleaningUp, Rest, Leak
<1>5. QED
  BY <1>1, <1>2, <1>3, <1>4 DEF LifeInv

(* Every step preserves the invariant. *)
LEMMA LifeStep == LifeInv /\ [Next]_vars => LifeInv'
<1> SUFFICES ASSUME LifeInv, [Next]_vars
             PROVE  LifeInv'
  OBVIOUS
<1>1. CASE GetDeviceList \/ FindDevice \/ OpenDevice \/ NameUnopenedDevice
  BY <1>1, OpenCalls
<1>2. CASE CallFrom(RdmaInitCalls)
  BY <1>2, InitCalls
<1>3. CASE role = "server" /\ CallFrom(ServerInitCalls)
  BY <1>3, ServerCalls
<1>4. CASE role = "client" /\ CallFrom(ClientInitCalls)
  BY <1>4, ClientCalls
<1>5. CASE ReleaseFrom(RdmaInitLabels) \/ ReleaseFrom(AllocateBufLabels)
  BY <1>5, InitLabels, AllocateLabels
<1>6. CASE ReleaseFrom(CleanupCalls) \/ ReleaseFrom(InternalCleanupCalls)
  BY <1>6, CleanupCall, InternalCall
<1>7. CASE ExitFromInit \/ LeaveRun \/ EndCleanup
  BY <1>7, ExitStep, LeaveStep, EndStep
<1>8. CASE Gone \/ UNCHANGED vars
  BY <1>8 DEF Gone, vars, LifeInv, TypeOK, Acquired, AcquiredAfter, QueuePair, AtLabels,
              CleaningUp, NothingOutlivesItsBase, LeftAtExit, Skipped
<1>9. QED
  BY <1>1, <1>2, <1>3, <1>4, <1>5, <1>6, <1>7, <1>8 DEF Next

(* The inductive invariant holds, for either program and whichever calls   *)
(* of the library or of the allocator fail.                                *)
THEOREM LifecycleInvariance == Spec => []LifeInv
BY LifeInit, LifeStep, PTL DEF Spec

(* Every variable keeps its type, and no program ever holds a handle of    *)
(* the other one (rdma.c, all functions).                                  *)
THEOREM LifecycleTypeCorrect == Spec => []TypeOK
<1>1. LifeInv => TypeOK
  BY DEF LifeInv
<1>2. QED
  BY <1>1, LifecycleInvariance, PTL

(* No handle outlives what it is built on, on any path through the         *)
(* initialisation, its labels and the cleanups.                            *)
THEOREM BasesOutlive == Spec => []NothingOutlivesItsBase
<1>1. LifeInv => NothingOutlivesItsBase
  BY DEF LifeInv
<1>2. QED
  BY <1>1, LifecycleInvariance, PTL

(* No release of rdma.c is given a handle that is NULL or already gone.    *)
THEOREM ReleasesLiveHandles == Spec => []ReleasesOnlyLiveHandles
<1>1. LifeInv => ReleasesOnlyLiveHandles
  <2> SUFFICES ASSUME LifeInv
               PROVE  ReleasesOnlyLiveHandles
    OBVIOUS
  <2>0. AtLabels /\ CleaningUp
    BY DEF LifeInv
  <2>1. ReleasesLive(RdmaInitLabels)
    BY <2>0 DEF ReleasesLive, RdmaInitLabels, Discard, AtLabels, LabelPlaces, LabelsFrom, Base
  <2>2. ReleasesLive(AllocateBufLabels)
    BY <2>0 DEF ReleasesLive, AllocateBufLabels, Free, AtLabels
  <2>3. ASSUME NEW h, pc \in CleanupPlaces, h \in Rest(pc)
        PROVE  h \in live \/ h \in Tested \ ptrs
    BY <2>0, <2>3 DEF CleaningUp
  <2>4. ReleasesLive(CleanupCalls)
    BY <2>3, RestSteps DEF ReleasesLive, Skipped, CleanupCalls, Free, Destroy, Releases,
                           CleanupPlaces
  <2>5. ReleasesLive(InternalCleanupCalls)
    BY <2>3, RestSteps DEF ReleasesLive, Skipped, InternalCleanupCalls, Destroy, Releases,
                           CleanupPlaces
  <2>6. QED
    BY <2>1, <2>2, <2>4, <2>5 DEF ReleasesOnlyLiveHandles
<1>2. QED
  BY <1>1, LifecycleInvariance, PTL

(* A program whose main returns has released everything; one that exits    *)
(* without a failed release leaves at most the open device or the array of *)
(* results, and each only after the failures named in LeftAtExit.          *)
THEOREM NothingElseLeft == Spec => []LeftAtExit
<1>1. LifeInv => LeftAtExit
  BY DEF LifeInv
<1>2. QED
  BY <1>1, LifecycleInvariance, PTL

(* The polling loops start only with everything they use.                  *)
THEOREM RunsReady == Spec => []ReadyToRun
<1>1. LifeInv => ReadyToRun
  <2> SUFFICES ASSUME LifeInv, pc = "run"
               PROVE  ReadyToRun
    BY DEF ReadyToRun
  <2>1. /\ qp_state = IF role = "client" THEN "RTS" ELSE "RTR"
        /\ live = HandlesOf(role) \ {"dev_list"}
    BY DEF LifeInv, QueuePair, AcquiredAfter
  <2>2. role \in {"server", "client"}
    BY RolesAssumption DEF LifeInv, TypeOK
  <2>3. QED
    BY <2>1, <2>2 DEF ReadyToRun, HandlesOf, Handles
<1>2. QED
  BY <1>1, LifecycleInvariance, PTL

================================================================================
