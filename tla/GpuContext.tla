----------------------------- MODULE GpuContext -----------------------------
(* The GPU backend's context: a ring of submission slots behind one lock, a    *)
(* pool of recycled device buffers, the table of resident ids, and the queue   *)
(* that executes submissions in order.  The callers are the threads of a host; *)
(* each runs one call at a time and may keep submissions it has not waited     *)
(* for.  Source: lichen-compute-gpu/src/dispatch.rs and accounting.rs.         *)
(*                                                                             *)
(* Data is abstracted to stamps: dispatch number d writes d into its output if *)
(* it read what its host meant it to read, and Junk otherwise.  A buffer is    *)
(* [h, size]: the device allocation and the extent its record claims.          *)
EXTENDS Integers, Sequences, FiniteSets, SequencesExt

CONSTANTS
  Client,      \* the threads that call the context
  Kinds,       \* the kinds of call each thread makes
  NoClient,    \* the holder of a lock nobody holds
  SlotDepth,   \* slots in the ring (DEFAULT_SLOT_DEPTH)
  Size,        \* the sizes a buffer's record may claim, in units of bytes
  CallSize,    \* the sizes a call allocates
  PoolCap,     \* RECYCLED_PER_SIZE
  Links,       \* the lengths of a chain
  MaxCalls,    \* bound: calls of all clients
  MaxFault     \* bound: driver errors and waits that time out

ASSUME SlotsAssumption == SlotDepth \in Nat \ {0}
ASSUME SizesAssumption == Size \subseteq Nat \ {0} /\ CallSize \subseteq Size
ASSUME BoundsAssumption == PoolCap \in Nat /\ MaxCalls \in Nat /\ MaxFault \in Nat
ASSUME LinksAssumption == Links \subseteq Nat \ {0}
ASSUME NoClientAssumption == NoClient \notin Client

Slots == 0..(SlotDepth - 1)
Junk == 0

VARIABLES
  lock,      \* who holds the slots' mutex
  cursor,    \* where acquire looks next
  claimed,   \* [Slots -> BOOLEAN]
  fence,     \* [Slots -> BOOLEAN]: signalled
  staging,   \* [Slots -> Seq(stamp)]: the blocks of the slot's mapped memory
  queue,     \* the submissions the device has not finished, oldest first
  cap,       \* cap[h]: the units handle h was allocated with
  freed,     \* handles given back to the driver
  content,   \* content[h]: the stamp device memory h holds
  recycled,  \* [Size -> Seq(buffer)]
  resident,  \* [ids issued and not released -> buffer]
  meant,     \* meant[id]: the stamp of the dispatch the id was issued for
  alive,     \* the accounting's device total, in units
  pc,        \* [Client -> the point its call has reached]
  call,      \* [Client -> what the call has in hand]
  pending,   \* [Client -> submissions handed back in flight]
  owned,     \* [Client -> ids it holds, waited for]
  stamp,     \* dispatches recorded so far
  calls, faults,
  timedOut,  \* a wait gave up on a submission that was still running
  refused    \* the queue refused a submission after its fence was reset

slots == <<lock, cursor, claimed, fence, staging>>
memory == <<cap, freed, content, recycled, alive>>
ids == <<resident, meant>>
bounds == <<calls, faults, timedOut, refused>>
vars == <<slots, queue, memory, ids, pc, call, pending, owned, stamp, bounds>>

Buffer(h, size) == [h |-> h, size |-> size]
Id == DOMAIN meant
Handles == DOMAIN cap
Live == Handles \ freed
InFlight(s) == \E k \in DOMAIN queue : queue[k].slot = s

-----------------------------------------------------------------------------
(* Device memory.  A state of it is [cap, freed, content, recycled, alive], so *)
(* that a call can take several buffers and give several back in one step.     *)

Memory == [cap |-> cap, freed |-> freed, content |-> content,
           recycled |-> recycled, alive |-> alive]
SetMemory(m) ==
  /\ cap' = m.cap
  /\ freed' = m.freed
  /\ content' = m.content
  /\ recycled' = m.recycled
  /\ alive' = m.alive

(* The buffer allocate answers with: the last one recycled at this size, or a  *)
(* fresh one whose contents are undefined.                                     *)
Allocated(m, size) ==
  IF m.recycled[size] # <<>> THEN Last(m.recycled[size])
                             ELSE Buffer(Len(m.cap) + 1, size)
Allocate(m, size) ==
  IF m.recycled[size] # <<>>
    THEN [m EXCEPT !.recycled[size] = Front(@)]
    ELSE [m EXCEPT !.cap = Append(@, size), !.content = Append(@, Junk),
                   !.alive = @ + size]
(* The driver refuses a creation after the accounting has counted it.          *)
AllocateFails(m, size) ==
  IF m.recycled[size] = <<>> THEN {[m EXCEPT !.alive = @ + size]} ELSE {}

\* Mutant: the pool has no limit.
RecycleAlways(m, b) == [m EXCEPT !.recycled[b.size] = Append(@, b)]

\* Mutant: a pooled buffer counts as freed.
RecycleCountedFreed(m, b) ==
  IF Len(m.recycled[b.size]) < PoolCap
    THEN [m EXCEPT !.recycled[b.size] = Append(@, b), !.alive = @ - b.size]
    ELSE [m EXCEPT !.freed = @ \cup {b.h}, !.alive = @ - b.size]

Recycle(m, b) ==
  IF Len(m.recycled[b.size]) < PoolCap
    THEN [m EXCEPT !.recycled[b.size] = Append(@, b)]
    ELSE [m EXCEPT !.freed = @ \cup {b.h}, !.alive = @ - b.size]

RecycleAll(m, bs) ==
  LET after[k \in 0..Len(bs)] == IF k = 0 THEN m ELSE Recycle(after[k - 1], bs[k])
  IN  after[Len(bs)]

-----------------------------------------------------------------------------
(* The device.  A dispatch copies its staged block into its upload target, if  *)
(* it has one, and then runs the shader; a fetch copies a buffer back.         *)

Dispatched(up, src, want, dst, d) ==
  [up |-> up, src |-> src, want |-> want, dst |-> dst, stamp |-> d]

Execute(blocks, mem, d) ==
  LET uploaded == IF d.up = 0 THEN mem ELSE [mem EXCEPT ![d.src] = blocks[d.up]]
  IN  [uploaded EXCEPT ![d.dst] = IF uploaded[d.src] = d.want THEN d.stamp ELSE Junk]

(* A submission's dispatches run in the order they were recorded.              *)
Executed(blocks, mem, work) ==
  LET ran[k \in 0..Len(work)] == IF k = 0 THEN mem
                                          ELSE Execute(blocks, ran[k - 1], work[k])
  IN  ran[Len(work)]

DeviceRuns ==
  /\ queue # <<>>
  /\ LET s == Head(queue) IN
       /\ IF s.fetch
            THEN /\ staging' = [staging EXCEPT ![s.slot] = <<content[s.work[1].src]>>]
                 /\ content' = content
            ELSE /\ content' = Executed(staging[s.slot], content, s.work)
                 /\ staging' = staging
       /\ fence' = [fence EXCEPT ![s.slot] = TRUE]
  /\ queue' = Tail(queue)
  /\ UNCHANGED <<lock, cursor, claimed, cap, freed, recycled, alive, ids, pc, call,
                 pending, owned, stamp, bounds>>

-----------------------------------------------------------------------------
(* The calls.  A node's input is host data, a resident the caller holds, or,   *)
(* in a batch, the output of an earlier node of the batch.                     *)

Host == [from |-> "host", at |-> 0]
Held(id) == [from |-> "id", at |-> id]
Out(k) == [from |-> "out", at |-> k]

Idle == [kind |-> "none", nodes |-> <<>>, size |-> 0, slot |-> 0, src |-> 0, id |-> 0,
         work |-> <<>>, scratch |-> <<>>, outs |-> <<>>, blocks |-> 0]

Inputs(c) == {Host} \cup {Held(id) : id \in owned[c] \cap DOMAIN resident}
                    \cup {Held(id) : id \in UNION {ToSet(p.ids) : p \in ToSet(pending[c])}}

(* run, submit: one node.  run_batch: a chain of nodes or two that share the   *)
(* staging.  run_chain: an upload and a number of links.                       *)
Requests(c) ==
  {r \in {[kind |-> k, nodes |-> <<i>>] : k \in {"run", "submit"}, i \in Inputs(c)}
         \cup {[kind |-> "batch", nodes |-> <<i, j>>] : i \in Inputs(c), j \in {Host, Out(1)}}
         \cup {[kind |-> "chain", nodes |-> [k \in 1..n |-> Host]] : n \in Links}
   : r.kind \in Kinds[c]}

\* Mutant: the round robin never meets a claimed slot, or so it believes.
MustWaitNever(s) == FALSE
MustWait(s) == claimed[s]

(* Taking a slot: the next one in the ring, waited for if it is claimed.       *)
Take(c, r) ==
  /\ lock = NoClient
  /\ lock' = c
  /\ cursor' = (cursor + 1) % SlotDepth
  /\ call' = [call EXCEPT ![c] = [r EXCEPT !.slot = cursor]]
  /\ IF MustWait(cursor)
       THEN pc' = [pc EXCEPT ![c] = "wait slot"] /\ claimed' = claimed
       ELSE pc' = [pc EXCEPT ![c] = "record"] /\ claimed' = [claimed EXCEPT ![cursor] = TRUE]
  /\ UNCHANGED <<fence, staging>>

(* These calls touch nothing before they have the lock, so a call begins when  *)
(* it takes its slot.                                                          *)
Begin(c) ==
  /\ pc[c] = "idle" /\ calls < MaxCalls
  /\ \E r \in Requests(c), size \in CallSize :
       Take(c, [Idle EXCEPT !.kind = r.kind, !.nodes = r.nodes, !.size = size])
  /\ calls' = calls + 1
  /\ UNCHANGED <<queue, memory, ids, pending, owned, stamp, faults, timedOut, refused>>

(* fetch reads the resident's record before it takes a slot.                   *)
BeginFetch(c) ==
  /\ pc[c] = "idle" /\ calls < MaxCalls
  /\ "fetch" \in Kinds[c]
  /\ \E id \in owned[c] \cap DOMAIN resident :
       call' = [call EXCEPT ![c] = [Idle EXCEPT !.kind = "fetch", !.id = id,
                                                !.src = resident[id].h]]
  /\ pc' = [pc EXCEPT ![c] = "acquire"]
  /\ calls' = calls + 1
  /\ UNCHANGED <<slots, queue, memory, ids, pending, owned, stamp, faults, timedOut, refused>>

Acquire(c) ==
  /\ pc[c] = "acquire"
  /\ Take(c, call[c])
  /\ UNCHANGED <<queue, memory, ids, pending, owned, stamp, bounds>>

\* Mutant: the fence is reset when the slot is taken, not when it is submitted.
SlotFreeFenceReset(c) ==
  /\ pc[c] = "wait slot"
  /\ fence[call[c].slot]
  /\ fence' = [fence EXCEPT ![call[c].slot] = FALSE]
  /\ claimed' = [claimed EXCEPT ![call[c].slot] = TRUE]
  /\ pc' = [pc EXCEPT ![c] = "record"]
  /\ UNCHANGED <<lock, cursor, staging, queue, memory, ids, call, pending, owned,
                 stamp, bounds>>

SlotFree(c) ==
  /\ pc[c] = "wait slot"
  /\ fence[call[c].slot]
  /\ claimed' = [claimed EXCEPT ![call[c].slot] = TRUE]
  /\ pc' = [pc EXCEPT ![c] = "record"]
  /\ UNCHANGED <<lock, cursor, fence, staging, queue, memory, ids, call, pending, owned,
                 stamp, bounds>>

(* The slot's last submission did not finish in thirty seconds, or there is    *)
(* none: a submission the queue refused left the fence reset.                  *)
WaitFails(s) ==
  /\ ~fence[s]
  /\ IF InFlight(s) THEN faults < MaxFault /\ faults' = faults + 1 /\ timedOut' = TRUE
                    ELSE UNCHANGED <<faults, timedOut>>
  /\ UNCHANGED <<calls, refused>>

Fault == faults < MaxFault /\ faults' = faults + 1 /\ UNCHANGED <<calls, timedOut>>

(* The call ends: the lock is free and what it held is back with its caller.   *)
Return(c) ==
  /\ lock' = NoClient
  /\ pc' = [pc EXCEPT ![c] = "idle"]
  /\ call' = [call EXCEPT ![c] = Idle]

SlotWaitFails(c) ==
  /\ pc[c] = "wait slot"
  /\ WaitFails(call[c].slot)
  /\ Return(c)
  /\ UNCHANGED <<cursor, claimed, fence, staging, queue, memory, ids, pending, owned, stamp>>

-----------------------------------------------------------------------------
(* Recording, with the lock held.                                              *)

\* Mutant: every dispatch of a batch stages at the front.
NextBlockFirst(r) == 1
(* The staging offset a dispatch stopped at is where the next one begins.      *)
NextBlock(r) == r.blocks + 1

PutBlock(blocks, at, d) == [k \in 1..at |-> IF k = at THEN d ELSE blocks[k]]

(* An error before the submit: a batch gives back the outputs of the nodes it  *)
(* has finished, the guard gives back the scratch, and the segment the slot.   *)
Abandon(c, m, outs) ==
  /\ SetMemory(RecycleAll(m, outs \o call[c].scratch))
  /\ claimed' = [claimed EXCEPT ![call[c].slot] = FALSE]
  /\ Return(c)
  /\ UNCHANGED <<cursor, queue, ids, pending, owned, stamp>>

NodeOf(c) == call[c].nodes[Len(call[c].work) + 1]

(* dispatch_into and record of one node: the upload target, the staged block,  *)
(* the output.                                                                 *)
RecordNode(c) ==
  LET r == call[c]
      node == NodeOf(c)
      host == node = Host
      up == IF host THEN Allocate(Memory, r.size) ELSE Memory
      src == CASE host -> Allocated(Memory, r.size).h
               [] node.from = "id" -> resident[node.at].h
               [] node.from = "out" -> r.outs[node.at].h
      want == CASE host -> stamp + 1
                [] node.from = "id" -> meant[node.at]
                [] node.from = "out" -> r.work[node.at].stamp
      at == IF host THEN NextBlock(r) ELSE 0
      out == Allocated(up, r.size)
      scratch == IF host THEN <<Buffer(src, r.size)>> ELSE <<>>
  IN
  /\ pc[c] = "record" /\ r.kind \in {"run", "submit", "batch"}
  /\ Len(r.work) < Len(r.nodes)
  /\ SetMemory(Allocate(up, r.size))
  /\ staging' = IF host THEN [staging EXCEPT ![r.slot] = PutBlock(@, at, stamp + 1)]
                        ELSE staging
  /\ call' = [call EXCEPT ![c].work = Append(@, Dispatched(at, src, want, out.h, stamp + 1)),
                          ![c].scratch = @ \o scratch,
                          ![c].outs = Append(@, out),
                          ![c].blocks = IF host THEN @ + 1 ELSE @]
  /\ stamp' = stamp + 1
  /\ UNCHANGED <<lock, cursor, claimed, fence, queue, ids, pc, pending, owned, bounds>>

(* The node cannot be recorded: an allocation is refused, or the recording is  *)
(* (too many bindings, no descriptor set), after the output was allocated.     *)
RecordNodeFails(c) ==
  LET r == call[c]
      host == NodeOf(c) = Host
      up == IF host THEN Allocate(Memory, r.size) ELSE Memory
      target == IF host THEN <<Allocated(Memory, r.size)>> ELSE <<>>
      begun == IF host THEN AllocateFails(Memory, r.size) ELSE {}
  IN
  /\ pc[c] = "record" /\ r.kind \in {"run", "submit", "batch"}
  /\ Len(r.work) < Len(r.nodes)
  /\ Fault
  /\ \/ \E m \in begun : Abandon(c, m, r.outs)
     \/ \E m \in AllocateFails(up, r.size) \cup {Allocate(up, r.size)} :
          Abandon(c, m, r.outs \o target)
  /\ UNCHANGED <<fence, staging, refused>>

(* run_chain: the upload, two outputs that take turns, and the links.          *)
ChainLinks(source, first, second, d, n) ==
  LET to(k) == IF k % 2 = 1 THEN first ELSE second
  IN  [k \in 1..n |-> Dispatched(IF k = 1 THEN 1 ELSE 0,
                                 IF k = 1 THEN source.h ELSE to(k - 1).h,
                                 IF k = 1 THEN d + 1 ELSE d + k - 1,
                                 to(k).h, d + k)]

RecordChain(c) ==
  LET r == call[c]
      n == Len(r.nodes)
      m1 == Allocate(Memory, r.size)
      m2 == Allocate(m1, r.size)
      source == Allocated(Memory, r.size)
      first == Allocated(m1, r.size)
      second == Allocated(m2, r.size)
  IN
  /\ pc[c] = "record" /\ r.kind = "chain" /\ r.work = <<>>
  /\ SetMemory(Allocate(m2, r.size))
  /\ staging' = [staging EXCEPT ![r.slot] = PutBlock(@, 1, stamp + 1)]
  /\ call' = [call EXCEPT ![c].work = ChainLinks(source, first, second, stamp, n),
                          ![c].scratch = <<source>>,
                          ![c].outs = IF n % 2 = 1 THEN <<first, second>>
                                                   ELSE <<second, first>>]
  /\ stamp' = stamp + n
  /\ UNCHANGED <<lock, cursor, claimed, fence, queue, ids, pc, pending, owned, bounds>>

RecordChainFails(c) ==
  LET r == call[c]
      source == Allocated(Memory, r.size)
      m1 == Allocate(Memory, r.size)
      m2 == Allocate(m1, r.size)
  IN
  /\ pc[c] = "record" /\ r.kind = "chain" /\ r.work = <<>>
  /\ Fault
  /\ \/ \E m \in AllocateFails(Memory, r.size) : Abandon(c, m, <<>>)
     \/ \E m \in AllocateFails(m1, r.size) \cup AllocateFails(m2, r.size)
                 \cup {Allocate(m2, r.size)} : Abandon(c, m, <<source>>)
  /\ UNCHANGED <<fence, staging, refused>>

RecordFetch(c) ==
  /\ pc[c] = "record" /\ call[c].kind = "fetch" /\ call[c].work = <<>>
  /\ call' = [call EXCEPT ![c].work = <<Dispatched(0, call[c].src, Junk, Junk, Junk)>>]
  /\ UNCHANGED <<slots, queue, memory, ids, pc, pending, owned, stamp, bounds>>

RecordFetchFails(c) ==
  /\ pc[c] = "record" /\ call[c].kind = "fetch" /\ call[c].work = <<>>
  /\ Fault
  /\ Abandon(c, Memory, <<>>)
  /\ UNCHANGED <<fence, staging, refused>>

-----------------------------------------------------------------------------
(* Handing the recording to the queue.                                         *)

Recorded(c) ==
  /\ pc[c] = "record"
  /\ call[c].work # <<>>
  /\ call[c].kind \in {"chain", "fetch"} \/ Len(call[c].work) = Len(call[c].nodes)

(* One id per output, for the dispatches that wrote them.                      *)
Issued(n) == [k \in 1..n |-> Len(meant) + k]
Issue(bufs, stamps) ==
  /\ meant' = meant \o stamps
  /\ resident' = [id \in DOMAIN resident \cup ToSet(Issued(Len(bufs))) |->
                    IF id \in DOMAIN resident THEN resident[id] ELSE bufs[id - Len(meant)]]
Stamps(work) == [k \in DOMAIN work |-> work[k].stamp]

\* Mutant: the fence the last wait left signalled is not reset.
FenceKept(s) == fence
FenceReset(s) == [fence EXCEPT ![s] = FALSE]

(* run and submit issue the ids when the queue has the submission; submit's    *)
(* caller is handed them at once, with the scratch the submission reads.       *)
Submit(c) ==
  LET r == call[c]
      early == r.kind \in {"run", "submit"}
  IN
  /\ Recorded(c)
  /\ queue' = Append(queue, [slot |-> r.slot, fetch |-> r.kind = "fetch", work |-> r.work])
  /\ fence' = FenceReset(r.slot)
  /\ IF early THEN Issue(r.outs, Stamps(r.work)) ELSE UNCHANGED ids
  /\ IF r.kind = "submit"
       THEN /\ pending' = [pending EXCEPT ![c] =
                 Append(@, [slot |-> r.slot, scratch |-> r.scratch,
                            ids |-> Issued(Len(r.outs))])]
            /\ Return(c)
       ELSE /\ pending' = pending
            /\ lock' = IF r.kind = "fetch" THEN lock ELSE NoClient
            /\ pc' = [pc EXCEPT ![c] = IF r.kind = "fetch" THEN "wait read" ELSE "sync"]
            /\ call' = IF early THEN [call EXCEPT ![c].id = Len(meant) + 1] ELSE call
  /\ UNCHANGED <<cursor, claimed, staging, memory, owned, stamp, bounds>>

(* The recording cannot be closed, or the queue refuses it after the fence has *)
(* been reset.                                                                 *)
SubmitFails(c) ==
  /\ Recorded(c)
  /\ Fault
  /\ \E reset \in BOOLEAN :
       /\ refused' = (refused \/ reset)
       /\ fence' = IF reset THEN FenceReset(call[c].slot) ELSE fence
  /\ Abandon(c, Memory, <<>>)
  /\ staging' = staging

-----------------------------------------------------------------------------
(* Waiting.                                                                    *)

(* GpuPending::wait, or its drop.                                              *)
BeginWait(c) ==
  /\ pc[c] = "idle"
  /\ \E k \in DOMAIN pending[c] :
       LET p == pending[c][k] IN
       /\ pending' = [pending EXCEPT ![c] = RemoveAt(@, k)]
       /\ call' = [call EXCEPT ![c] = [Idle EXCEPT !.kind = "wait", !.slot = p.slot,
                                         !.scratch = p.scratch, !.id = p.ids[1]]]
  /\ pc' = [pc EXCEPT ![c] = "sync"]
  /\ UNCHANGED <<slots, queue, memory, ids, owned, stamp, bounds>>

TakeSync(c) ==
  /\ pc[c] = "sync" /\ lock = NoClient
  /\ lock' = c
  /\ pc' = [pc EXCEPT ![c] = "wait sync"]
  /\ UNCHANGED <<cursor, claimed, fence, staging, queue, memory, ids, call, pending, owned,
                 stamp, bounds>>

\* Mutant: the buffer the chain's answer is in.
SpareLast(outs) == outs[1]
(* Of a chain's two outputs, the one the last link did not write.              *)
Spare(outs) == outs[2]

(* The fence of the slot has signalled: the slot is free, the scratch goes     *)
(* back, and a batch's or a chain's outputs get their ids.                     *)
Synced(c) ==
  LET r == call[c]
      fresh == Issued(IF r.kind = "chain" THEN 1 ELSE Len(r.outs))
  IN
  /\ pc[c] = "wait sync"
  /\ fence[r.slot]
  /\ claimed' = [claimed EXCEPT ![r.slot] = FALSE]
  /\ CASE r.kind \in {"run", "wait"} ->
            /\ SetMemory(RecycleAll(Memory, r.scratch))
            /\ owned' = [owned EXCEPT ![c] = @ \cup {r.id}]
            /\ UNCHANGED ids
       [] r.kind = "batch" ->
            /\ SetMemory(RecycleAll(Memory, r.scratch))
            /\ owned' = [owned EXCEPT ![c] = @ \cup ToSet(fresh)]
            /\ Issue(r.outs, Stamps(r.work))
       [] r.kind = "chain" ->
            /\ SetMemory(RecycleAll(Memory, <<Spare(r.outs)>> \o r.scratch))
            /\ owned' = [owned EXCEPT ![c] = @ \cup ToSet(fresh)]
            /\ Issue(<<r.outs[1]>>, <<Last(r.work).stamp>>)
  /\ Return(c)
  /\ UNCHANGED <<cursor, fence, staging, queue, pending, stamp, bounds>>

(* The wait gave up.  A call of its own recycles its scratch all the same; a   *)
(* pending submission drops it.  The outputs have no owner any more.           *)
SyncFails(c) ==
  LET r == call[c] IN
  /\ pc[c] = "wait sync"
  /\ WaitFails(r.slot)
  /\ SetMemory(IF r.kind = "wait" THEN Memory ELSE RecycleAll(Memory, r.scratch))
  /\ Return(c)
  /\ UNCHANGED <<cursor, claimed, fence, staging, queue, ids, pending, owned, stamp>>

(* fetch waits and reads its staging with the lock held.                       *)
Fetched(c) == staging[call[c].slot][1]
ReadBack(c) ==
  /\ pc[c] = "wait read"
  /\ fence[call[c].slot]
  /\ claimed' = [claimed EXCEPT ![call[c].slot] = FALSE]
  /\ Return(c)
  /\ UNCHANGED <<cursor, fence, staging, queue, memory, ids, pending, owned, stamp, bounds>>

ReadFails(c) ==
  /\ pc[c] = "wait read"
  /\ WaitFails(call[c].slot)
  /\ Return(c)
  /\ UNCHANGED <<cursor, claimed, fence, staging, queue, memory, ids, pending, owned, stamp>>

-----------------------------------------------------------------------------
(* What a caller does with an id it holds.  It releases none while it has a    *)
(* submission in flight: Runner::run settles every value before it returns.    *)

Release(c) ==
  /\ pc[c] = "idle" /\ pending[c] = <<>>
  /\ \E id \in owned[c] \cap DOMAIN resident :
       /\ resident' = [i \in DOMAIN resident \ {id} |-> resident[i]]
       /\ SetMemory(Recycle(Memory, resident[id]))
  /\ UNCHANGED <<slots, queue, meant, pc, call, pending, owned, stamp, bounds>>

(* Only the record changes, and it must not claim more than was allocated.     *)
Relabel(c) ==
  /\ pc[c] = "idle"
  /\ \E id \in owned[c] \cap DOMAIN resident, size \in Size :
       /\ size <= resident[id].size
       /\ resident' = [resident EXCEPT ![id].size = size]
  /\ UNCHANGED <<slots, queue, memory, meant, pc, call, pending, owned, stamp, bounds>>

-----------------------------------------------------------------------------
Init ==
  /\ lock = NoClient /\ cursor = 0
  /\ claimed = [s \in Slots |-> FALSE]
  /\ fence = [s \in Slots |-> FALSE]
  /\ staging = [s \in Slots |-> <<>>]
  /\ queue = <<>>
  /\ cap = <<>> /\ freed = {} /\ content = <<>> /\ alive = 0
  /\ recycled = [n \in Size |-> <<>>]
  /\ resident = <<>> /\ meant = <<>>
  /\ pc = [c \in Client |-> "idle"]
  /\ call = [c \in Client |-> Idle]
  /\ pending = [c \in Client |-> <<>>]
  /\ owned = [c \in Client |-> {}]
  /\ stamp = 0 /\ calls = 0 /\ faults = 0
  /\ timedOut = FALSE /\ refused = FALSE

(* The steps of a call that has begun.                                         *)
Continue(c) ==
  \/ Acquire(c) \/ SlotFree(c) \/ SlotWaitFails(c)
  \/ RecordNode(c) \/ RecordNodeFails(c)
  \/ RecordChain(c) \/ RecordChainFails(c)
  \/ RecordFetch(c) \/ RecordFetchFails(c)
  \/ Submit(c) \/ SubmitFails(c)
  \/ TakeSync(c) \/ Synced(c) \/ SyncFails(c)
  \/ ReadBack(c) \/ ReadFails(c)

Next ==
  \/ DeviceRuns
  \/ \E c \in Client : \/ Begin(c) \/ BeginFetch(c) \/ BeginWait(c)
                       \/ Release(c) \/ Relabel(c) \/ Continue(c)

Spec == Init /\ [][Next]_vars

-----------------------------------------------------------------------------
(* Properties. *)

Points == {"idle", "acquire", "wait slot", "record", "sync", "wait sync", "wait read"}
BufferSet == [h : Handles, size : Size]

(* Every handle a table or a call names is one the driver made, and whoever    *)
(* holds the lock is at a point of a call where the code holds it.             *)
TypeOK ==
  /\ lock \in Client \cup {NoClient}
  /\ cursor \in Slots /\ claimed \in [Slots -> BOOLEAN] /\ fence \in [Slots -> BOOLEAN]
  /\ cap \in Seq(Size) /\ freed \subseteq Handles
  /\ Len(content) = Len(cap) /\ \A h \in Handles : content[h] \in 0..stamp
  /\ \A n \in Size : recycled[n] \in Seq(BufferSet) /\ Len(recycled[n]) <= PoolCap
  /\ DOMAIN resident \subseteq Id /\ \A id \in DOMAIN resident : resident[id] \in BufferSet
  /\ alive \in Nat
  /\ pc \in [Client -> Points]
  /\ \A c \in Client : (lock = c) <=> (pc[c] \in {"wait slot", "record", "wait sync", "wait read"})
  /\ \A c \in Client : owned[c] \subseteq Id
  /\ timedOut \in BOOLEAN /\ refused \in BOOLEAN

(* acquire: a slot nobody claims, and a slot somebody records into, has no     *)
(* submission in flight, so its command buffer, descriptor sets and staging    *)
(* may be rewritten.                                                           *)
SlotsIdleWhenReused ==
  /\ \A s \in Slots : ~claimed[s] => ~InFlight(s)
  /\ \A c \in Client : pc[c] = "record" => ~InFlight(call[c].slot)

(* What a fetch hands to the host is what the dispatch that the id was issued  *)
(* for wrote.                                                                  *)
FetchedAsWritten ==
  \A c \in Client : pc[c] = "wait read" /\ fence[call[c].slot] => Fetched(c) = meant[call[c].id]

(* Value::settle, run, run_batch: an id that was waited for names memory the   *)
(* device has written, and it keeps that value until it is released.           *)
SettledMeansWritten ==
  \A c \in Client : \A id \in owned[c] \cap DOMAIN resident :
    content[resident[id].h] = meant[id]

(* The places a device buffer can be reached from.                             *)
Pooled == UNION {ToSet(recycled[n]) : n \in Size}
Kept == {resident[id] : id \in DOMAIN resident}
Drafts(c) == IF call[c].kind \in {"batch", "chain"} \/ pc[c] = "record"
               THEN ToSet(call[c].outs) ELSE {}
InHand(c) == Drafts(c) \cup ToSet(call[c].scratch)
             \cup UNION {ToSet(p.scratch) : p \in ToSet(pending[c])}
HandlesOf(bufs) == {b.h : b \in bufs}

(* allocate and recycle: a buffer is in the pool, behind one id, or in one     *)
(* call's hands, so no two dispatches write it believing it theirs; a record   *)
(* never claims more memory than was allocated; what is reachable is live.     *)
NoBufferTwice ==
  LET all == Pooled \cup Kept \cup UNION {InHand(c) : c \in Client} IN
  /\ \A n \in Size : IsInjective(recycled[n])
  /\ HandlesOf(Pooled) \cap HandlesOf(Kept) = {}
  /\ \A i, j \in DOMAIN resident : resident[i].h = resident[j].h => i = j
  /\ \A c \in Client :
       /\ HandlesOf(InHand(c)) \cap HandlesOf(Pooled \cup Kept) = {}
       /\ \A d \in Client \ {c} : HandlesOf(InHand(c)) \cap HandlesOf(InHand(d)) = {}
  /\ \A b \in all : b.h \in Live /\ b.size <= cap[b.h]

(* recycle destroys a buffer the pool has no room for: until a wait has given  *)
(* up, never one that a submission in flight reads or writes.                  *)
NothingFreedInFlight ==
  ~timedOut => \A k \in DOMAIN queue : \A i \in DOMAIN queue[k].work :
                 {queue[k].work[i].src, queue[k].work[i].dst} \cap freed = {}

(* Accounting: the device total never says less than the driver holds.         *)
Units(sizes, gone) ==
  LET upTo[h \in 0..Len(sizes)] ==
        IF h = 0 THEN 0 ELSE upTo[h - 1] + (IF h \in gone THEN 0 ELSE sizes[h])
  IN  upTo[Len(sizes)]
ReportNeverUnderstates == alive >= Units(cap, freed)

(* wait_on: a thread that waits for a fence, with the lock held, waits for a   *)
(* submission: until the queue has refused one after its fence was reset, a    *)
(* fence that has not signalled has a submission that will signal it.          *)
WaitsOnASubmission ==
  ~refused => \A c \in Client : pc[c] \in {"wait slot", "wait sync", "wait read"} =>
                fence[call[c].slot] \/ InFlight(call[c].slot)

(* ScratchGuard and run_batch: a call that fails before its submission gives   *)
(* back every buffer it took.  Refuted: the outputs of the node that could not *)
(* be recorded are nowhere.                                                    *)
NoBufferLost ==
  ~timedOut =>
  Live \subseteq HandlesOf(Pooled \cup Kept \cup UNION {InHand(c) : c \in Client})
=============================================================================
