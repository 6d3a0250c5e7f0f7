--------------------------------- MODULE Nvme ---------------------------------
(***************************************************************************)
(* drivers/storage/nvme.rs and nvme/queue: how the driver brings an NVMe      *)
(* controller up, and the controller it talks to.  A queue is one frame of    *)
(* entries with a head, a tail and a doorbell; commands are put in the admin  *)
(* submission queue and awaited, one at a time, in the admin completion       *)
(* queue.  Sizes are counted in entries and frames are numbers.               *)
(***************************************************************************)
EXTENDS Integers, Sequences, FiniteSets

CONSTANTS Controllers,      \* CAP and the identify data: [mpsmin, mpsmax, nvm, mqes, mdts]
          FrameSupplies,    \* how many frames the allocator has left
          SQ_ENTRIES,       \* a frame of submission entries
          CQ_ENTRIES        \* a frame of completion entries

VARIABLES nv_cap, nv_pc,
          nv_left,          \* frames the allocator has left
          nv_queue,         \* the driver's queues: name -> [frame, head, tail]
          nv_buffer,        \* the identify buffer's frame, 0 for none
          nv_cc,            \* the controller's registers
          nv_up,            \* CSTS: "off", "ready" or "fatal"
          nv_sq, nv_cq,     \* the entries of the admin queues in memory
          nv_dev,           \* the controller's side: [head, tail, phase]
          nv_bell,          \* the doorbells of the admin queues
          nv_io,            \* I/O queues the controller was told of: name -> [frame, entries]
          nv_id,            \* ID_CNTR
          nv_wait,          \* the identifier of the command awaited
          nv_done,          \* commands the controller has executed successfully
          nv_max            \* max_transfer_sz in bytes, -1 for u64::MAX

nvmeVars == <<nv_cap, nv_pc, nv_left, nv_queue, nv_buffer, nv_cc, nv_up, nv_sq, nv_cq, nv_dev, nv_bell,
              nv_io, nv_id, nv_wait, nv_done, nv_max>>

DeviceSide == <<nv_up, nv_dev, nv_io, nv_done>>
Memory4 == <<nv_sq, nv_cq, nv_bell>>

None0 == [frame |-> 0, head |-> 0, tail |-> 0]
QueueNames == {"asq", "acq", "iosq", "iocq"}
NoQueues == [q \in QueueNames |-> None0]
NoCompletion == [cid |-> -1, ok |-> FALSE, phase |-> 0]
NoCommand == [cid |-> -1, op |-> "none", frame |-> 0, entries |-> 0]

M4KiB == 4096
NoIo == [q \in {"iosq", "iocq"} |-> [frame |-> 0, entries |-> 0]]

NvmeInit ==
    /\ nv_cap \in Controllers /\ nv_left \in FrameSupplies
    /\ nv_pc = "new" /\ nv_queue = NoQueues /\ nv_buffer = 0
    /\ nv_cc = [asq |-> 0, acq |-> 0, asqs |-> 0, acqs |-> 0, enabled |-> TRUE, mps |-> 8192]
    /\ nv_up = "ready"                   \* the firmware may have used it
    /\ nv_sq = [k \in 0..SQ_ENTRIES - 1 |-> NoCommand]
    /\ nv_cq = [k \in 0..CQ_ENTRIES - 1 |-> NoCompletion]
    /\ nv_dev = [head |-> 0, tail |-> 0, phase |-> 1] /\ nv_bell = [sq |-> 0, cq |-> 0]
    /\ nv_io = NoIo
    /\ nv_id = 0 /\ nv_wait = 0 /\ nv_done = {} /\ nv_max = -1

\* Frames are handed out in order; the number left names the next one.
Alloc(n) == nv_left >= n /\ nv_left' = nv_left - n

\* An error returned to init(): the queues are dropped and their frames freed,
\* whatever the controller was told of them; the allocator is not followed any further.
Drop == nv_pc' = "error" /\ nv_queue' = NoQueues /\ UNCHANGED nv_left

-----------------------------------------------------------------------------
\* NvmeControllers::new(): two queues of one zeroed frame each.
NewController ==
    /\ nv_pc = "new"
    /\ \/ /\ Alloc(2) /\ nv_pc' = "disable"
          /\ nv_queue' = [nv_queue EXCEPT !["asq"].frame = nv_left, !["acq"].frame = nv_left - 1]
       \/ nv_left < 2 /\ Drop
    /\ UNCHANGED <<nv_cap, nv_buffer, nv_cc, DeviceSide, Memory4, nv_id, nv_wait, nv_max>>

\* init(): the controller is disabled, and reports it when it is.
Disable ==
    /\ nv_pc = "disable" /\ nv_pc' = "disabling"
    /\ nv_cc' = [nv_cc EXCEPT !.enabled = FALSE]
    /\ UNCHANGED <<nv_cap, nv_left, nv_queue, nv_buffer, DeviceSide, Memory4, nv_id, nv_wait, nv_max>>

\* Capabilities::mpsmin() and mpsmax(): a power of two above 4 KiB.
PageBytes(power) == 2 ^ (12 + power)

\* Its capabilities must allow 4 KiB pages and the NVM command set; then the queues, the
\* page size and the entry sizes are set.
Configure4 ==
    /\ nv_pc = "disabling" /\ nv_up = "off"
    /\ IF PageBytes(nv_cap.mpsmin) > M4KiB \/ PageBytes(nv_cap.mpsmax) < M4KiB \/ ~nv_cap.nvm
       THEN Drop /\ UNCHANGED nv_cc
       ELSE /\ nv_pc' = "enabling"
            /\ nv_cc' = [asq |-> nv_queue["asq"].frame, acq |-> nv_queue["acq"].frame,
                         asqs |-> SQ_ENTRIES - 1, acqs |-> CQ_ENTRIES - 1,
                         enabled |-> TRUE, mps |-> M4KiB]
            /\ UNCHANGED <<nv_left, nv_queue>>
    /\ UNCHANGED <<nv_cap, nv_buffer, DeviceSide, Memory4, nv_id, nv_wait, nv_max>>

Enabled ==
    /\ nv_pc = "enabling" /\ nv_up # "off"
    /\ IF nv_up = "fatal" THEN Drop
       ELSE nv_pc' = "identify" /\ UNCHANGED <<nv_left, nv_queue>>
    /\ UNCHANGED <<nv_cap, nv_buffer, nv_cc, DeviceSide, Memory4, nv_id, nv_wait, nv_max>>

-----------------------------------------------------------------------------
\* CommandIdentifier::new(): the counter's old value, u16::MAX being skipped.
NewId == IF nv_id = 65535 THEN 0 ELSE nv_id
NextId == IF nv_id = 65535 THEN 0 ELSE nv_id + 1

\* SubmissionQueue::push(), with the assertion that the queue is not full, and its flush.
Push(op, frame, entries) ==
    LET q == nv_queue["asq"] IN
    IF (q.tail + 1) % SQ_ENTRIES = q.head
    THEN nv_pc' = "panic" /\ UNCHANGED <<nv_queue, nv_sq, nv_bell, nv_id, nv_wait>>
    ELSE /\ nv_sq' = [nv_sq EXCEPT ![q.tail] = [cid |-> NewId, op |-> op, frame |-> frame,
                                               entries |-> entries]]
         /\ nv_queue' = [nv_queue EXCEPT !["asq"].tail = (@ + 1) % SQ_ENTRIES]
         /\ nv_bell' = [nv_bell EXCEPT !.sq = (q.tail + 1) % SQ_ENTRIES]
         /\ nv_id' = NextId /\ nv_wait' = NewId
         /\ nv_pc' = op \o "-wait"

\* CompletionQueue::pop(): the entry at the head, if its bit 0 is set.
Arrived == nv_cq[nv_queue["acq"].head].phase = 1

\* The loop that pops until the command's completion comes, and what follows it.
Await(op, next) ==
    /\ nv_pc = op \o "-wait" /\ Arrived
    /\ LET head == nv_queue["acq"].head
           entry == nv_cq[head]
           after == (head + 1) % CQ_ENTRIES
       IN  /\ nv_bell' = [nv_bell EXCEPT !.cq = after]
           /\ IF entry.cid = nv_wait /\ ~entry.ok
              THEN Drop
              ELSE /\ nv_queue' = [nv_queue EXCEPT !["acq"].head = after]
                   /\ nv_pc' = IF entry.cid = nv_wait THEN next ELSE nv_pc
                   /\ UNCHANGED nv_left
    /\ UNCHANGED <<nv_cap, nv_buffer, nv_cc, DeviceSide, nv_sq, nv_cq, nv_id, nv_wait, nv_max>>

Identify ==
    /\ nv_pc = "identify"
    /\ IF nv_left = 0
       THEN nv_pc' = "panic" /\ UNCHANGED <<nv_left, nv_queue, nv_buffer, nv_sq, nv_bell, nv_id, nv_wait>>
       ELSE Alloc(1) /\ nv_buffer' = nv_left /\ Push("identify", nv_left, 0)
    /\ UNCHANGED <<nv_cap, nv_cc, DeviceSide, nv_cq, nv_max>>

\* MDTS in units of the controller's minimum page size, 0 for no limit; the two I/O
\* queues are allocated, the completion queue first.
NewIoQueues ==
    /\ nv_pc = "mdts"
    /\ nv_max' = IF nv_cap.mdts = 0 THEN -1 ELSE PageBytes(nv_cap.mpsmin) * 2 ^ nv_cap.mdts
    /\ \/ /\ Alloc(2) /\ nv_pc' = "create_cq"
          /\ nv_queue' = [nv_queue EXCEPT !["iocq"].frame = nv_left, !["iosq"].frame = nv_left - 1]
       \/ nv_left < 2 /\ Drop
    /\ UNCHANGED <<nv_cap, nv_buffer, nv_cc, DeviceSide, Memory4, nv_id, nv_wait>>

Smaller(a, b) == IF a < b THEN a ELSE b

\* Mutant: the 0-based count is not decremented.
ZeroBasedEntriesOff(entries) == Smaller(entries, Smaller(nv_cap.mqes + 1, 65535))

\* The number of entries, within MQES, counted from 0.
ZeroBasedEntries(entries) ==
    LET n == Smaller(entries, Smaller(nv_cap.mqes + 1, 65535)) IN IF n = 0 THEN 0 ELSE n - 1

CreateCq ==
    /\ nv_pc = "create_cq"
    /\ Push("create_cq", nv_queue["iocq"].frame, ZeroBasedEntries(CQ_ENTRIES))
    /\ UNCHANGED <<nv_cap, nv_left, nv_buffer, nv_cc, DeviceSide, nv_cq, nv_max>>

CreateSq ==
    /\ nv_pc = "create_sq"
    /\ Push("create_sq", nv_queue["iosq"].frame, ZeroBasedEntries(SQ_ENTRIES))
    /\ UNCHANGED <<nv_cap, nv_left, nv_buffer, nv_cc, DeviceSide, nv_cq, nv_max>>

\* shutdown(): the I/O queues are not deleted first.
Shutdown ==
    /\ nv_pc = "up" /\ nv_pc' = "shutdown"
    /\ nv_cc' = [nv_cc EXCEPT !.enabled = FALSE]
    /\ UNCHANGED <<nv_cap, nv_left, nv_queue, nv_buffer, DeviceSide, Memory4, nv_id, nv_wait, nv_max>>

-----------------------------------------------------------------------------
\* External: the controller follows the enable bit, and executes the commands between its
\* head and the doorbell, in order, successfully or not.
DeviceFollows ==
    /\ \/ ~nv_cc.enabled /\ nv_up = "ready" /\ nv_up' = "off"
       \/ nv_cc.enabled /\ nv_up = "off" /\ nv_up' \in {"ready", "fatal"}
    /\ nv_dev' = [head |-> 0, tail |-> 0, phase |-> 1] /\ nv_io' = NoIo
    /\ UNCHANGED <<nv_cap, nv_pc, nv_left, nv_queue, nv_buffer, nv_cc, nv_sq, nv_cq, nv_bell, nv_id, nv_wait,
                   nv_done, nv_max>>

DeviceExecutes(ok) ==
    /\ nv_up = "ready" /\ nv_cc.enabled /\ nv_dev.head # nv_bell.sq
    /\ LET cmd == nv_sq[nv_dev.head]
           wraps == nv_dev.tail + 1 > nv_cc.acqs
       IN  /\ nv_cq' = [nv_cq EXCEPT ![nv_dev.tail] = [cid |-> cmd.cid, ok |-> ok,
                                                       phase |-> nv_dev.phase]]
           /\ nv_dev' = [head |-> IF nv_dev.head + 1 > nv_cc.asqs THEN 0 ELSE nv_dev.head + 1,
                         tail |-> IF wraps THEN 0 ELSE nv_dev.tail + 1,
                         phase |-> IF wraps THEN 1 - nv_dev.phase ELSE nv_dev.phase]
           /\ nv_done' = IF ok THEN nv_done \cup {cmd.op} ELSE nv_done
           /\ nv_io' = IF ok /\ cmd.op # "identify"
                       THEN [nv_io EXCEPT ![IF cmd.op = "create_cq" THEN "iocq" ELSE "iosq"] =
                                [frame |-> cmd.frame, entries |-> cmd.entries + 1]]
                       ELSE nv_io
    /\ UNCHANGED <<nv_cap, nv_pc, nv_left, nv_queue, nv_buffer, nv_cc, nv_up, nv_sq, nv_bell, nv_id, nv_wait, nv_max>>

NvmeNext ==
    \/ NewController \/ Disable \/ Configure4 \/ Enabled
    \/ Identify \/ Await("identify", "mdts") \/ NewIoQueues
    \/ CreateCq \/ Await("create_cq", "create_sq") \/ CreateSq \/ Await("create_sq", "up")
    \/ Shutdown \/ DeviceFollows \/ (\E ok \in BOOLEAN : DeviceExecutes(ok))

-----------------------------------------------------------------------------
\* The controller and the driver agree about memory.  As long as the driver has not given
\* up, every queue the enabled controller knows is a frame the driver still owns, with no
\* more entries than fit that frame or than the controller supports, and no two queues or
\* the identify buffer share a frame; a step that relies on a command is only taken after
\* the controller has executed it; and the driver comes up only with both I/O queues
\* created where it will look for them.
NvmeQueuesAgree ==
    nv_pc \notin {"error", "panic"} =>
      /\ nv_cc.enabled /\ nv_cc.asq # 0 =>
             /\ nv_cc.asq = nv_queue["asq"].frame /\ nv_cc.acq = nv_queue["acq"].frame
             /\ nv_cc.asqs + 1 <= SQ_ENTRIES /\ nv_cc.acqs + 1 <= CQ_ENTRIES
      /\ \A q \in {"iosq", "iocq"} : nv_io[q].frame # 0 =>
             /\ nv_io[q].frame = nv_queue[q].frame
             /\ nv_io[q].entries <= (IF q = "iosq" THEN SQ_ENTRIES ELSE CQ_ENTRIES)
             /\ nv_io[q].entries <= nv_cap.mqes + 1
      /\ LET used == {q \in QueueNames : nv_queue[q].frame # 0}
         IN  /\ Cardinality({nv_queue[q].frame : q \in used}) = Cardinality(used)
             /\ nv_buffer \notin {nv_queue[q].frame : q \in used}
      /\ nv_pc \in {"mdts", "create_cq", "create_cq-wait"} => "identify" \in nv_done
      /\ nv_pc \in {"create_sq", "create_sq-wait"} => "create_cq" \in nv_done
      /\ nv_pc = "up" => nv_io["iocq"].frame # 0 /\ nv_io["iosq"].frame # 0
=============================================================================
